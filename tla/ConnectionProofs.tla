-------------------------- MODULE ConnectionProofs --------------------------
(* Proofs about the connections of the backend, for any number of them and   *)
(* any capacities: the hub of the app, the hub of the plugins, and the calls *)
(* to an agent.                                                              *)
EXTENDS AppHub, PluginHub, StdioCalls, TLAPS
-----------------------------------------------------------------------------
(* AppHub *)

Readers == {"new", "registering", "reading", "ponging", "leaving", "gone"}
Writers == {"new", "writing", "gone"}

(* A client is registered before its pumps start and has an open channel;  *)
(* one whose channel is closed never comes back.                           *)
HubShape ==
    /\ registered \subseteq HubClients /\ toRemove \subseteq registered
    /\ sendClosed \subseteq HubClients
    /\ hubQueue \in [{"all", "aimed"} -> Seq(1 .. MaxHubMsg)]
    /\ \A k \in {"all", "aimed"} : Len(hubQueue[k]) <= HubCap
    /\ sendBuf \in [HubClients -> Seq(0 .. MaxHubMsg)]
    /\ \A c \in HubClients : Len(sendBuf[c]) <= SendCap
    /\ owed = [c \in HubClients |-> owed[c]]
    /\ \A c \in registered \ toRemove : writer[c] = "writing" => owed[c] \in Seq(1 .. MaxHubMsg)
    /\ reader \in [HubClients -> Readers] /\ writer \in [HubClients -> Writers]
    /\ pings \in [HubClients -> 0 .. MaxPings]
    /\ hubSent \in 0 .. MaxHubMsg

HubStages ==
    /\ hubAlive = TRUE
    /\ registered \cap sendClosed = {}
    /\ \A c \in HubClients :
          reader[c] \in {"new", "registering"} =>
              /\ c \notin registered /\ c \notin sendClosed
              /\ writer[c] = "new" /\ sendBuf[c] = <<>> /\ owed[c] = <<>>

HubIInv == HubShape /\ HubStages /\ NothingMissed

LEMMA HubInitial == HubInit => HubIInv
BY HubAssumption DEF HubInit, HubIInv, HubShape, HubStages, NothingMissed, Readers, Writers

-----------------------------------------------------------------------------
(* What a step does to a buffer and to what is owed. *)

LEMMA NothingHeld == Carries(<<>>, <<>>)
<1> DEFINE at == [x \in 1 .. 0 |-> 0]
<1>1. Len(<<>>) = 0 /\ 1 .. 0 = {}
  OBVIOUS
<1>2. at \in [1 .. 0 -> 1 .. 0]
  BY <1>1
<1> HIDE DEF at
<1>3. at \in [1 .. Len(<<>>) -> 1 .. Len(<<>>)]
  BY <1>1, <1>2
<1>4. \A i \in 1 .. Len(<<>>) : FALSE
  BY <1>1
<1> QED
  BY <1>3, <1>4 DEF Carries

LEMMA MessageHeld ==
    ASSUME NEW S, NEW buf \in Seq(S), NEW T, NEW messages \in Seq(T), NEW m,
           m # Pong, m \in S, m \in T, Carries(buf, messages)
    PROVE  Carries(Append(buf, m), Append(messages, m))
<1> DEFINE n == Len(messages)  l == Len(buf)
           bufs == Append(buf, m)  msgs == Append(messages, m)
<1>0. n \in Nat /\ l \in Nat
  OBVIOUS
<1>1. PICK at \in [1 .. n -> 1 .. l] :
        /\ \A i, j \in 1 .. n : i < j => at[i] < at[j]
        /\ \A i \in 1 .. n : messages[i] # Pong /\ buf[at[i]] = messages[i]
        /\ \A i \in 1 .. l : buf[i] # Pong => \E j \in 1 .. n : at[j] = i
  BY DEF Carries
<1>2. /\ Len(bufs) = l + 1 /\ bufs[l + 1] = m /\ \A i \in 1 .. l : bufs[i] = buf[i]
      /\ Len(msgs) = n + 1 /\ msgs[n + 1] = m /\ \A i \in 1 .. n : msgs[i] = messages[i]
  <2>1. /\ Len(bufs) = l + 1 /\ bufs[l + 1] = m /\ \A i \in 1 .. l : bufs[i] = buf[i]
    OBVIOUS
  <2>2. Len(msgs) = n + 1 /\ msgs[n + 1] = m /\ \A i \in 1 .. n : msgs[i] = messages[i]
    OBVIOUS
  <2> QED
    BY <2>1, <2>2
<1> DEFINE next == [i \in 1 .. n + 1 |-> IF i = n + 1 THEN l + 1 ELSE at[i]]
<1>3. next[n + 1] = l + 1 /\ \A i \in 1 .. n : next[i] = at[i] /\ at[i] \in 1 .. l
  BY <1>0, <1>1
<1>4. next \in [1 .. n + 1 -> 1 .. l + 1]
  BY <1>0, <1>3
<1> HIDE DEF next, bufs, msgs, n, l
<1>5. \A i, j \in 1 .. n + 1 : i < j => next[i] < next[j]
  <2> SUFFICES ASSUME NEW i \in 1 .. n + 1, NEW j \in 1 .. n + 1, i < j
               PROVE  next[i] < next[j]
    OBVIOUS
  <2>1. i \in 1 .. n
    BY <1>0
  <2>2. CASE j = n + 1
    BY <2>1, <2>2, <1>0, <1>3
  <2>3. CASE j \in 1 .. n
    BY <2>1, <2>3, <1>1, <1>3
  <2> QED
    BY <2>2, <2>3, <1>0
<1>6. \A i \in 1 .. n + 1 : msgs[i] # Pong /\ bufs[next[i]] = msgs[i]
  <2> SUFFICES ASSUME NEW i \in 1 .. n + 1 PROVE msgs[i] # Pong /\ bufs[next[i]] = msgs[i]
    OBVIOUS
  <2>1. CASE i = n + 1
    BY <2>1, <1>2, <1>3
  <2>2. CASE i \in 1 .. n
    BY <2>2, <1>1, <1>2, <1>3
  <2> QED
    BY <2>1, <2>2, <1>0
<1>7. \A i \in 1 .. l + 1 : bufs[i] # Pong => \E j \in 1 .. n + 1 : next[j] = i
  <2> SUFFICES ASSUME NEW i \in 1 .. l + 1, bufs[i] # Pong
               PROVE  \E j \in 1 .. n + 1 : next[j] = i
    OBVIOUS
  <2>1. CASE i = l + 1
    BY <2>1, <1>0, <1>3
  <2>2. CASE i \in 1 .. l
    <3>1. PICK j \in 1 .. n : at[j] = i
      BY <2>2, <1>1, <1>2
    <3>2. j \in 1 .. n + 1 /\ next[j] = i
      BY <3>1, <1>0, <1>3
    <3> QED
      BY <3>2
  <2> QED
    BY <2>1, <2>2, <1>0
<1> QED
  <2>1. Len(msgs) = n + 1 /\ Len(bufs) = l + 1
    BY <1>2
  <2>2. next \in [1 .. Len(msgs) -> 1 .. Len(bufs)]
    BY <1>4, <2>1
  <2>3. \A i, j \in 1 .. Len(msgs) : i < j => next[i] < next[j]
    BY <1>5, <2>1
  <2>4. \A i \in 1 .. Len(msgs) : msgs[i] # Pong /\ bufs[next[i]] = msgs[i]
    BY <1>6, <2>1
  <2>5. \A i \in 1 .. Len(bufs) : bufs[i] # Pong => \E j \in 1 .. Len(msgs) : next[j] = i
    BY <1>7, <2>1
  <2>6. Carries(bufs, msgs)
    BY <2>2, <2>3, <2>4, <2>5 DEF Carries
  <2> QED
    BY <2>6 DEF bufs, msgs

LEMMA PongHeld ==
    ASSUME NEW S, NEW buf \in Seq(S), NEW T, NEW messages \in Seq(T), Pong \in S,
           Carries(buf, messages)
    PROVE  Carries(Append(buf, Pong), messages)
<1> DEFINE n == Len(messages)  l == Len(buf)  bufs == Append(buf, Pong)
<1>0. n \in Nat /\ l \in Nat
  OBVIOUS
<1>1. PICK at \in [1 .. n -> 1 .. l] :
        /\ \A i, j \in 1 .. n : i < j => at[i] < at[j]
        /\ \A i \in 1 .. n : messages[i] # Pong /\ buf[at[i]] = messages[i]
        /\ \A i \in 1 .. l : buf[i] # Pong => \E j \in 1 .. n : at[j] = i
  BY DEF Carries
<1>2. Len(bufs) = l + 1 /\ bufs[l + 1] = Pong /\ \A i \in 1 .. l : bufs[i] = buf[i]
  OBVIOUS
<1> HIDE DEF n, l, bufs
<1>3. at \in [1 .. n -> 1 .. l + 1]
  BY <1>0
<1>4. \A i \in 1 .. n : messages[i] # Pong /\ bufs[at[i]] = messages[i]
  BY <1>1, <1>2
<1>5. \A i \in 1 .. l + 1 : bufs[i] # Pong => \E j \in 1 .. n : at[j] = i
  BY <1>0, <1>1, <1>2
<1> QED
  <2>1. Len(messages) = n
    BY DEF n
  <2>2. Len(bufs) = l + 1
    BY <1>2
  <2>3. \A i, j \in 1 .. n : i < j => at[i] < at[j]
    BY <1>1
  <2>4. at \in [1 .. Len(messages) -> 1 .. Len(bufs)]
    BY <1>3, <2>1, <2>2
  <2>5. \A i, j \in 1 .. Len(messages) : i < j => at[i] < at[j]
    BY <2>1, <2>3
  <2>6. \A i \in 1 .. Len(messages) : messages[i] # Pong /\ bufs[at[i]] = messages[i]
    BY <2>1, <1>4
  <2>7. \A i \in 1 .. Len(bufs) : bufs[i] # Pong => \E j \in 1 .. Len(messages) : at[j] = i
    BY <1>5, <2>1, <2>2
  <2>8. Carries(bufs, messages)
    BY <2>4, <2>5, <2>6, <2>7 DEF Carries
  <2> QED
    BY <2>8 DEF bufs

LEMMA HeadWritten ==
    ASSUME NEW S, NEW buf \in Seq(S), NEW T, NEW messages \in Seq(T), buf # <<>>,
           Carries(buf, messages)
    PROVE  Carries(Tail(buf), IF Head(buf) = Pong THEN messages ELSE Tail(messages))
<1> DEFINE n == Len(messages)  l == Len(buf)  bufs == Tail(buf)  msgs == Tail(messages)
<1>0. n \in Nat /\ l \in Nat /\ l > 0
  OBVIOUS
<1>1. PICK at \in [1 .. n -> 1 .. l] :
        /\ \A i, j \in 1 .. n : i < j => at[i] < at[j]
        /\ \A i \in 1 .. n : messages[i] # Pong /\ buf[at[i]] = messages[i]
        /\ \A i \in 1 .. l : buf[i] # Pong => \E j \in 1 .. n : at[j] = i
  BY DEF Carries
<1>2. Len(bufs) = l - 1 /\ Head(buf) = buf[1] /\ \A i \in 1 .. l - 1 : bufs[i] = buf[i + 1]
  OBVIOUS
<1>a. ASSUME n > 0
      PROVE  Len(msgs) = n - 1 /\ \A i \in 1 .. n - 1 : msgs[i] = messages[i + 1]
  BY <1>a
<1> HIDE DEF n, l, bufs, msgs
<1>3. CASE Head(buf) = Pong
  <2>1. \A i \in 1 .. n : at[i] \in 2 .. l
    <3> SUFFICES ASSUME NEW i \in 1 .. n PROVE at[i] \in 2 .. l
      OBVIOUS
    <3>1. at[i] \in 1 .. l /\ buf[at[i]] # Pong
      BY <1>1
    <3>2. at[i] # 1
      BY <3>1, <1>2, <1>3
    <3> QED
      BY <3>1, <3>2, <1>0
  <2> DEFINE next == [i \in 1 .. n |-> at[i] - 1]
  <2>2. next \in [1 .. n -> 1 .. l - 1] /\ \A i \in 1 .. n : next[i] = at[i] - 1
    BY <1>0, <2>1
  <2> HIDE DEF next
  <2>3. \A i, j \in 1 .. n : i < j => next[i] < next[j]
    BY <1>1, <2>1, <2>2
  <2>4. \A i \in 1 .. n : messages[i] # Pong /\ bufs[next[i]] = messages[i]
    <3> SUFFICES ASSUME NEW i \in 1 .. n PROVE bufs[next[i]] = messages[i]
      BY <1>1
    <3>1. next[i] \in 1 .. l - 1 /\ next[i] + 1 = at[i]
      BY <2>1, <2>2
    <3> QED
      BY <3>1, <1>1, <1>2
  <2>5. \A i \in 1 .. l - 1 : bufs[i] # Pong => \E j \in 1 .. n : next[j] = i
    <3> SUFFICES ASSUME NEW i \in 1 .. l - 1, bufs[i] # Pong
                 PROVE  \E j \in 1 .. n : next[j] = i
      OBVIOUS
    <3>1. i + 1 \in 1 .. l /\ buf[i + 1] # Pong
      BY <1>0, <1>2
    <3>2. PICK j \in 1 .. n : at[j] = i + 1
      BY <3>1, <1>1
    <3> QED
      BY <3>2, <2>2
  <2> QED
    <3>1. Len(messages) = n
      BY DEF n
    <3>2. next \in [1 .. Len(messages) -> 1 .. Len(bufs)]
      BY <2>2, <3>1, <1>2
    <3>3. \A i, j \in 1 .. Len(messages) : i < j => next[i] < next[j]
      BY <2>3, <3>1
    <3>4. \A i \in 1 .. Len(messages) : messages[i] # Pong /\ bufs[next[i]] = messages[i]
      BY <2>4, <3>1
    <3>5. \A i \in 1 .. Len(bufs) : bufs[i] # Pong => \E j \in 1 .. Len(messages) : next[j] = i
      BY <2>5, <3>1, <1>2
    <3>6. Carries(bufs, messages)
      BY <3>2, <3>3, <3>4, <3>5 DEF Carries
    <3> QED
      BY <1>3, <3>6 DEF bufs
<1>4. CASE Head(buf) # Pong
  <2>0. PICK k \in 1 .. n : at[k] = 1
    BY <1>0, <1>1, <1>2, <1>4
  <2>1. n > 0 /\ at[1] = 1
    <3>1. 1 \in 1 .. n /\ (1 < k => at[1] < at[k])
      BY <1>0, <1>1, <2>0
    <3> QED
      BY <3>1, <1>0, <2>0
  <2>2. \A i \in 2 .. n : at[i] \in 2 .. l
    <3> SUFFICES ASSUME NEW i \in 2 .. n PROVE at[i] \in 2 .. l
      OBVIOUS
    <3>1. at[1] < at[i] /\ at[i] \in 1 .. l
      BY <1>0, <1>1, <2>1
    <3> QED
      BY <3>1, <2>1
  <2> DEFINE next == [i \in 1 .. n - 1 |-> at[i + 1] - 1]
  <2>3. next \in [1 .. n - 1 -> 1 .. l - 1] /\ \A i \in 1 .. n - 1 : next[i] = at[i + 1] - 1
    BY <1>0, <2>2
  <2> HIDE DEF next
  <2>4. \A i, j \in 1 .. n - 1 : i < j => next[i] < next[j]
    <3> SUFFICES ASSUME NEW i \in 1 .. n - 1, NEW j \in 1 .. n - 1, i < j
                 PROVE  next[i] < next[j]
      OBVIOUS
    <3>1. i + 1 \in 1 .. n /\ j + 1 \in 1 .. n /\ i + 1 < j + 1
      BY <1>0
    <3>2. at[i + 1] < at[j + 1] /\ at[i + 1] \in 1 .. l /\ at[j + 1] \in 1 .. l
      BY <3>1, <1>1
    <3> QED
      BY <3>2, <2>3
  <2>5. \A i \in 1 .. n - 1 : msgs[i] # Pong /\ bufs[next[i]] = msgs[i]
    <3> SUFFICES ASSUME NEW i \in 1 .. n - 1 PROVE msgs[i] # Pong /\ bufs[next[i]] = msgs[i]
      OBVIOUS
    <3>1. i + 1 \in 2 .. n /\ i + 1 \in 1 .. n
      BY <1>0
    <3>2. next[i] \in 1 .. l - 1 /\ next[i] + 1 = at[i + 1]
      BY <2>2, <2>3, <3>1
    <3>3. msgs[i] = messages[i + 1]
      BY <1>a, <2>1
    <3> QED
      BY <3>1, <3>2, <3>3, <1>1, <1>2
  <2>6. \A i \in 1 .. l - 1 : bufs[i] # Pong => \E j \in 1 .. n - 1 : next[j] = i
    <3> SUFFICES ASSUME NEW i \in 1 .. l - 1, bufs[i] # Pong
                 PROVE  \E j \in 1 .. n - 1 : next[j] = i
      OBVIOUS
    <3>1. i + 1 \in 1 .. l /\ buf[i + 1] # Pong /\ i + 1 # 1
      BY <1>0, <1>2
    <3>2. PICK j \in 1 .. n : at[j] = i + 1
      BY <3>1, <1>1
    <3>3. j - 1 \in 1 .. n - 1 /\ (j - 1) + 1 = j
      BY <3>1, <3>2, <2>1, <1>0
    <3>4. next[j - 1] = i
      BY <3>2, <3>3, <2>3
    <3> QED
      BY <3>3, <3>4
  <2> QED
    <3>1. Len(msgs) = n - 1
      BY <1>a, <2>1
    <3>2. next \in [1 .. Len(msgs) -> 1 .. Len(bufs)]
      BY <2>3, <3>1, <1>2
    <3>3. \A i, j \in 1 .. Len(msgs) : i < j => next[i] < next[j]
      BY <2>4, <3>1
    <3>4. \A i \in 1 .. Len(msgs) : msgs[i] # Pong /\ bufs[next[i]] = msgs[i]
      BY <2>5, <3>1
    <3>5. \A i \in 1 .. Len(bufs) : bufs[i] # Pong => \E j \in 1 .. Len(msgs) : next[j] = i
      BY <2>6, <3>1, <1>2
    <3>6. Carries(bufs, msgs)
      BY <3>2, <3>3, <3>4, <3>5 DEF Carries
    <3> QED
      BY <1>4, <3>6 DEF bufs, msgs
<1> QED
  BY <1>3, <1>4
-----------------------------------------------------------------------------
(* One lemma per step. *)

LEMMA TailType ==
    ASSUME NEW S, NEW s \in Seq(S), s # <<>>
    PROVE  /\ Head(s) \in S /\ Tail(s) \in Seq(S) /\ Len(Tail(s)) = Len(s) - 1
           /\ Len(s) \in Nat \ {0}
OBVIOUS

LEMMA RestType ==
    ASSUME NEW S, NEW s \in Seq(S)
    PROVE  /\ SubSeq(s, 2, Len(s)) \in Seq(S)
           /\ Len(SubSeq(s, 2, Len(s))) \in Nat /\ Len(SubSeq(s, 2, Len(s))) <= Len(s)
<1>1. CASE Len(s) = 0
  BY <1>1
<1>2. CASE Len(s) > 0
  BY <1>2
<1> QED
  BY <1>1, <1>2

LEMMA MessageType ==
    ASSUME HubShape, NEW k \in {"all", "aimed"}, hubQueue[k] # <<>>
    PROVE  /\ Head(hubQueue[k]) \in 1 .. MaxHubMsg
           /\ Tail(hubQueue[k]) \in Seq(1 .. MaxHubMsg)
           /\ Len(Tail(hubQueue[k])) <= Len(hubQueue[k])
<1>1. hubQueue[k] \in Seq(1 .. MaxHubMsg)
  BY DEF HubShape
<1> DEFINE q == hubQueue[k]
<1> HIDE DEF q
<1>2. q \in Seq(1 .. MaxHubMsg) /\ q # <<>>
  BY <1>1 DEF q
<1>3. /\ Head(q) \in 1 .. MaxHubMsg /\ Tail(q) \in Seq(1 .. MaxHubMsg)
      /\ Len(Tail(q)) = Len(q) - 1 /\ Len(q) \in Nat \ {0}
  BY <1>2, TailType
<1>4. Len(Tail(q)) <= Len(q)
  BY <1>3
<1> QED
  BY <1>3, <1>4 DEF q

LEMMA BroadcastStep ==
    ASSUME HubIInv, NEW k \in {"all", "aimed"}, HubBroadcast(k)
    PROVE  HubIInv'
<1>1. /\ hubSent < MaxHubMsg /\ hubSent' = hubSent + 1 /\ hubSent \in 0 .. MaxHubMsg
      /\ UNCHANGED <<registered, toRemove, sendBuf, sendClosed, reader, writer, pings,
                     hubAlive, owed>>
  BY DEF HubBroadcast, HubIInv, HubShape
<1>2. /\ hubQueue' \in [{"all", "aimed"} -> Seq(1 .. MaxHubMsg)]
      /\ \A j \in {"all", "aimed"} : Len(hubQueue'[j]) <= HubCap
  <2>1. CASE Len(hubQueue[k]) < HubCap
    <3>1. hubQueue' = [hubQueue EXCEPT ![k] = Append(hubQueue[k], hubSent + 1)]
      BY <2>1 DEF HubBroadcast
    <3>2. hubSent + 1 \in 1 .. MaxHubMsg
      BY <1>1, HubAssumption
    <3>3. hubQueue[k] \in Seq(1 .. MaxHubMsg) /\ HubCap \in Nat
      BY HubAssumption DEF HubIInv, HubShape
    <3>4. /\ Append(hubQueue[k], hubSent + 1) \in Seq(1 .. MaxHubMsg)
          /\ Len(Append(hubQueue[k], hubSent + 1)) <= HubCap
      BY <2>1, <3>2, <3>3
    <3> QED
      BY <3>1, <3>4 DEF HubIInv, HubShape
  <2>2. CASE ~(Len(hubQueue[k]) < HubCap)
    BY <2>2 DEF HubBroadcast, HubIInv, HubShape
  <2> QED
    BY <2>1, <2>2
<1>3. HubShape'
  <2>1. hubSent' \in 0 .. MaxHubMsg
    BY <1>1, HubAssumption
  <2> QED
    BY <1>1, <1>2, <2>1 DEF HubIInv, HubShape
<1> QED
  BY <1>1, <1>3 DEF HubIInv, HubStages, NothingMissed

LEMMA TakeRegisterStep ==
    ASSUME HubIInv, NEW c \in HubClients, TakeRegister(c)
    PROVE  HubIInv'
<1>1. HubShape'
  <2>1. owed[c] = <<>> /\ <<>> \in Seq(1 .. MaxHubMsg)
    BY DEF TakeRegister, HubIInv, HubStages
  <2>2. registered' = registered \cup {c} /\ toRemove' = {} /\ owed' = owed
    BY DEF TakeRegister, Ready
  <2>3. \A d \in registered' : writer'[d] = "writing" => owed'[d] \in Seq(1 .. MaxHubMsg)
    BY <2>1, <2>2 DEF TakeRegister, Ready, HubIInv, HubShape
  <2> QED
    BY <2>2, <2>3 DEF TakeRegister, HubIInv, HubShape, Readers, Writers
<1>2. HubStages'
  BY DEF TakeRegister, HubIInv, HubShape, HubStages
<1>3. NothingMissed'
  <2> SUFFICES ASSUME NEW d \in (registered \ toRemove)', writer'[d] = "writing"
               PROVE  Carries(sendBuf'[d], owed'[d])
    BY DEF NothingMissed
  <2>1. UNCHANGED <<sendBuf, owed, toRemove>> /\ registered' = registered \cup {c}
    BY DEF TakeRegister
  <2>2. CASE d = c
    <3>1. sendBuf[c] = <<>> /\ owed[c] = <<>>
      BY DEF TakeRegister, HubIInv, HubStages
    <3> QED
      BY <2>1, <2>2, <3>1, NothingHeld
  <2>3. CASE d # c
    <3>1. d \in HubClients /\ writer'[d] = writer[d]
      BY <2>1, <2>3 DEF TakeRegister, HubIInv, HubShape
    <3> QED
      BY <2>1, <2>3, <3>1 DEF HubIInv, NothingMissed
  <2> QED
    BY <2>2, <2>3
<1> QED
  BY <1>1, <1>2, <1>3 DEF HubIInv

LEMMA TakeUnregisterStep ==
    ASSUME HubIInv, NEW c \in HubClients, TakeUnregister(c)
    PROVE  HubIInv'
<1>1. HubShape'
  BY DEF TakeUnregister, CloseSends, Ready, HubIInv, HubShape, Readers, Writers
<1>2. HubStages'
  BY DEF TakeUnregister, CloseSends, HubIInv, HubShape, HubStages, Readers
<1>3. NothingMissed'
  BY DEF TakeUnregister, HubIInv, NothingMissed
<1> QED
  BY <1>1, <1>2, <1>3 DEF HubIInv

LEMMA TakeMessageStep ==
    ASSUME HubIInv, NEW k \in {"all", "aimed"}, TakeMessage(k)
    PROVE  HubIInv'
<1> DEFINE m == Head(hubQueue[k])
<1>1. /\ toRemove = {} /\ hubQueue' = [hubQueue EXCEPT ![k] = Tail(hubQueue[k])]
      /\ toRemove' = {c \in Matched(k) : IsFull(c)}
      /\ sendBuf' = [c \in HubClients |-> IF c \in Matched(k) /\ ~IsFull(c)
                                          THEN Append(sendBuf[c], m) ELSE sendBuf[c]]
      /\ owed' = [c \in HubClients |-> IF c \in Matched(k) THEN Append(owed[c], m)
                                                            ELSE owed[c]]
      /\ UNCHANGED <<registered, sendClosed, reader, writer, pings, hubSent, hubAlive>>
  BY DEF TakeMessage, Ready
<1>2. /\ m \in 1 .. MaxHubMsg /\ Tail(hubQueue[k]) \in Seq(1 .. MaxHubMsg)
      /\ Len(Tail(hubQueue[k])) <= Len(hubQueue[k])
  BY MessageType DEF TakeMessage, HubIInv
<1> HIDE DEF m
<1>3. Matched(k) \subseteq registered /\ registered \subseteq HubClients
  BY DEF Matched, HubIInv, HubShape
<1>4. /\ m \in 0 .. MaxHubMsg /\ m # Pong
      /\ \A c \in HubClients : sendBuf[c] \in Seq(0 .. MaxHubMsg)
      /\ \A c \in registered : writer[c] = "writing" => owed[c] \in Seq(1 .. MaxHubMsg)
  <2>1. m \in 0 .. MaxHubMsg /\ m # Pong
    BY <1>2, HubAssumption DEF Pong
  <2>2. \A c \in HubClients : sendBuf[c] \in Seq(0 .. MaxHubMsg)
    BY DEF HubIInv, HubShape
  <2>3. \A c \in registered : writer[c] = "writing" => owed[c] \in Seq(1 .. MaxHubMsg)
    BY <1>1 DEF HubIInv, HubShape
  <2> QED
    BY <2>1, <2>2, <2>3
<1>5. /\ sendBuf' \in [HubClients -> Seq(0 .. MaxHubMsg)]
      /\ owed' = [c \in HubClients |-> owed'[c]]
      /\ \A c \in registered : writer[c] = "writing" => owed'[c] \in Seq(1 .. MaxHubMsg)
      /\ \A c \in HubClients : Len(sendBuf'[c]) <= SendCap
  <2>1. ASSUME NEW c \in HubClients
        PROVE  sendBuf'[c] \in Seq(0 .. MaxHubMsg) /\ Len(sendBuf'[c]) <= SendCap
    <3>1. Len(sendBuf[c]) \in Nat /\ Len(sendBuf[c]) <= SendCap /\ SendCap \in Nat
      BY <1>4, HubAssumption DEF HubIInv, HubShape
    <3>2. /\ Append(sendBuf[c], m) \in Seq(0 .. MaxHubMsg)
          /\ Len(Append(sendBuf[c], m)) = Len(sendBuf[c]) + 1
      BY <1>4
    <3>3. ~IsFull(c) => Len(sendBuf[c]) + 1 <= SendCap
      BY <3>1 DEF IsFull
    <3> QED
      BY <1>1, <1>4, <3>1, <3>2, <3>3
  <2>2. ASSUME NEW c \in registered, writer[c] = "writing"
        PROVE  owed'[c] \in Seq(1 .. MaxHubMsg)
    <3>0. c \in HubClients /\ owed[c] \in Seq(1 .. MaxHubMsg)
      BY <1>3, <1>4, <2>2
    <3>1. Append(owed[c], m) \in Seq(1 .. MaxHubMsg)
      BY <1>2, <3>0
    <3> QED
      BY <1>1, <3>0, <3>1
  <2> QED
    BY <1>1, <2>1, <2>2
<1>6. /\ hubQueue' \in [{"all", "aimed"} -> Seq(1 .. MaxHubMsg)]
      /\ \A j \in {"all", "aimed"} : Len(hubQueue'[j]) <= HubCap
  <2>1. /\ hubQueue \in [{"all", "aimed"} -> Seq(1 .. MaxHubMsg)] /\ HubCap \in Nat
        /\ \A j \in {"all", "aimed"} : Len(hubQueue[j]) <= HubCap /\ Len(hubQueue[j]) \in Nat
    BY HubAssumption DEF HubIInv, HubShape
  <2>2. Len(Tail(hubQueue[k])) \in Nat
    BY <1>2
  <2>3. Len(Tail(hubQueue[k])) <= HubCap
    BY <1>2, <2>1, <2>2
  <2> QED
    BY <1>1, <1>2, <2>1, <2>3
<1>7. HubShape'
  BY <1>1, <1>3, <1>5, <1>6 DEF HubIInv, HubShape
<1>8. HubStages'
  BY <1>1, <1>3 DEF HubIInv, HubStages
<1>9. NothingMissed'
  <2> SUFFICES ASSUME NEW c \in registered, c \notin toRemove', writer[c] = "writing"
               PROVE  Carries(sendBuf'[c], owed'[c])
    BY <1>1 DEF NothingMissed
  <2>1. c \in HubClients /\ Carries(sendBuf[c], owed[c])
    BY <1>1, <1>3 DEF HubIInv, NothingMissed
  <2>2. CASE c \in Matched(k)
    <3>1. /\ sendBuf'[c] = Append(sendBuf[c], m)
          /\ owed'[c] = Append(owed[c], m)
      BY <1>1, <2>1, <2>2
    <3>2. Carries(Append(sendBuf[c], m), Append(owed[c], m))
      BY <1>2, <1>4, <2>1, MessageHeld
    <3> QED
      BY <3>1, <3>2
  <2>3. CASE c \notin Matched(k)
    BY <1>1, <2>1, <2>3
  <2> QED
    BY <2>2, <2>3
<1> QED
  BY <1>7, <1>8, <1>9 DEF HubIInv

LEMMA RemoveSlowStep ==
    ASSUME HubIInv, RemoveSlow
    PROVE  HubIInv'
<1>1. HubShape'
  BY DEF RemoveSlow, CloseSends, HubIInv, HubShape
<1>2. HubStages'
  BY DEF RemoveSlow, CloseSends, HubIInv, HubShape, HubStages
<1>3. NothingMissed'
  BY DEF RemoveSlow, HubIInv, NothingMissed
<1> QED
  BY <1>1, <1>2, <1>3 DEF HubIInv

LEMMA DialStep ==
    ASSUME HubIInv, NEW c \in HubClients,
           Dial(c) \/ ReadPing(c) \/ ReadFails(c)
    PROVE  HubIInv'
<1>1. /\ UNCHANGED <<registered, toRemove, hubQueue, sendBuf, sendClosed, writer,
                     hubSent, hubAlive, owed>>
      /\ \/ reader[c] = "new" /\ reader' = [reader EXCEPT ![c] = "registering"]
         \/ \E s \in {"ponging", "leaving"} : reader' = [reader EXCEPT ![c] = s]
  BY DEF Dial, ReadPing, ReadFails
<1>2. pings' \in [HubClients -> 0 .. MaxPings]
  <2>1. \/ pings' = pings
        \/ pings[c] < MaxPings /\ pings' = [pings EXCEPT ![c] = pings[c] + 1]
    BY DEF Dial, ReadPing, ReadFails
  <2>2. pings \in [HubClients -> 0 .. MaxPings] /\ pings[c] \in 0 .. MaxPings
    BY DEF HubIInv, HubShape
  <2>3. MaxPings \in Nat
    BY HubAssumption
  <2>4. pings[c] < MaxPings => pings[c] + 1 \in 0 .. MaxPings
    BY <2>2, <2>3
  <2> QED
    BY <2>1, <2>2, <2>4
<1>3. HubShape'
  BY <1>1, <1>2 DEF HubIInv, HubShape, Readers
<1>4. HubStages'
  BY <1>1 DEF HubIInv, HubShape, HubStages
<1> QED
  BY <1>1, <1>3, <1>4 DEF HubIInv, NothingMissed

LEMMA SendPongStep ==
    ASSUME HubIInv, NEW c \in HubClients, SendPong(c)
    PROVE  HubIInv'
<1>1. /\ UNCHANGED <<registered, toRemove, hubQueue, sendClosed, writer, pings, hubSent,
                     hubAlive, owed>>
      /\ \E s \in {"reading", "leaving"} : reader' = [reader EXCEPT ![c] = s]
      /\ reader[c] = "ponging"
      /\ \/ sendBuf' = sendBuf
         \/ ~IsFull(c) /\ sendBuf' = [sendBuf EXCEPT ![c] = Append(sendBuf[c], Pong)]
  BY DEF SendPong
<1>2. /\ Pong \in 0 .. MaxHubMsg /\ sendBuf \in [HubClients -> Seq(0 .. MaxHubMsg)]
      /\ Len(sendBuf[c]) \in Nat /\ Len(sendBuf[c]) <= SendCap /\ SendCap \in Nat
  BY HubAssumption DEF HubIInv, HubShape, Pong
<1>3. /\ Append(sendBuf[c], Pong) \in Seq(0 .. MaxHubMsg)
      /\ Len(Append(sendBuf[c], Pong)) = Len(sendBuf[c]) + 1
  BY <1>2
<1>4. ~IsFull(c) => Len(sendBuf[c]) + 1 <= SendCap
  BY <1>2 DEF IsFull
<1>5. HubShape'
  <2>1. /\ sendBuf' \in [HubClients -> Seq(0 .. MaxHubMsg)]
        /\ \A d \in HubClients : Len(sendBuf'[d]) <= SendCap
    BY <1>1, <1>2, <1>3, <1>4 DEF HubIInv, HubShape
  <2> QED
    BY <1>1, <2>1 DEF HubIInv, HubShape, Readers
<1>6. HubStages'
  <2>1. \A d \in HubClients : reader'[d] \in {"new", "registering"} =>
           d # c /\ reader'[d] = reader[d] /\ sendBuf'[d] = sendBuf[d]
    BY <1>1, <1>2 DEF HubIInv, HubShape
  <2> QED
    BY <1>1, <2>1 DEF HubIInv, HubStages
<1>7. NothingMissed'
  <2> SUFFICES ASSUME NEW d \in registered \ toRemove, writer[d] = "writing"
               PROVE  Carries(sendBuf'[d], owed[d])
    BY <1>1 DEF NothingMissed
  <2>1. d \in HubClients /\ Carries(sendBuf[d], owed[d]) /\ owed[d] \in Seq(1 .. MaxHubMsg)
    BY DEF HubIInv, HubShape, NothingMissed
  <2>2. CASE d = c
    <3>1. Carries(Append(sendBuf[c], Pong), owed[c])
      BY <1>2, <2>1, <2>2, PongHeld
    <3>2. sendBuf'[c] \in {sendBuf[c], Append(sendBuf[c], Pong)}
      BY <1>1, <1>2
    <3> QED
      BY <2>1, <2>2, <3>1, <3>2
  <2>3. CASE d # c
    BY <1>1, <1>2, <2>1, <2>3
  <2> QED
    BY <2>2, <2>3
<1> QED
  BY <1>5, <1>6, <1>7 DEF HubIInv

LEMMA WriteStep ==
    ASSUME HubIInv, NEW c \in HubClients, Write(c)
    PROVE  HubIInv'
<1> DEFINE left == IF Head(sendBuf[c]) = Pong THEN owed[c] ELSE Tail(owed[c])
<1>1. /\ UNCHANGED <<registered, toRemove, hubQueue, sendClosed, reader, writer, pings,
                     hubSent, hubAlive>>
      /\ writer[c] = "writing" /\ sendBuf[c] # <<>>
      /\ sendBuf' = [sendBuf EXCEPT ![c] = Tail(sendBuf[c])]
      /\ owed' = [owed EXCEPT ![c] = left]
  BY DEF Write
<1>2. /\ sendBuf \in [HubClients -> Seq(0 .. MaxHubMsg)]
      /\ owed = [d \in HubClients |-> owed[d]]
      /\ \A d \in HubClients : Len(sendBuf[d]) <= SendCap
      /\ SendCap \in Nat
  BY HubAssumption DEF HubIInv, HubShape
<1>3. /\ Tail(sendBuf[c]) \in Seq(0 .. MaxHubMsg)
      /\ Len(Tail(sendBuf[c])) = Len(sendBuf[c]) - 1 /\ Len(sendBuf[c]) \in Nat
  BY <1>1, <1>2
<1>4. (c \in registered \ toRemove) =>
         Carries(Tail(sendBuf[c]), left) /\ left \in Seq(1 .. MaxHubMsg)
  <2> SUFFICES ASSUME c \in registered \ toRemove
               PROVE  Carries(Tail(sendBuf[c]), left) /\ left \in Seq(1 .. MaxHubMsg)
    OBVIOUS
  <2>1. Carries(sendBuf[c], owed[c]) /\ owed[c] \in Seq(1 .. MaxHubMsg)
    BY <1>1 DEF HubIInv, HubShape, NothingMissed
  <2>2. Carries(Tail(sendBuf[c]), left)
    BY <1>1, <1>2, <2>1, HeadWritten
  <2>3. CASE Head(sendBuf[c]) = Pong
    BY <2>1, <2>2, <2>3
  <2>4. CASE Head(sendBuf[c]) # Pong
    <3>1. 1 \in 1 .. Len(sendBuf[c]) /\ sendBuf[c][1] # Pong
      BY <1>1, <1>2, <2>4
    <3>2. PICK m \in 1 .. Len(owed[c]) : TRUE
      BY <2>1, <3>1 DEF Carries
    <3>3. owed[c] # <<>>
      BY <2>1, <3>2
    <3>4. Tail(owed[c]) \in Seq(1 .. MaxHubMsg)
      BY <2>1, <3>3, TailType
    <3> QED
      BY <2>2, <2>4, <3>4
  <2> QED
    BY <2>3, <2>4
<1>5. HubShape'
  <2>1. /\ sendBuf' \in [HubClients -> Seq(0 .. MaxHubMsg)]
        /\ \A d \in HubClients : Len(sendBuf'[d]) <= SendCap
    BY <1>1, <1>2, <1>3
  <2>2. /\ owed' = [d \in HubClients |-> owed'[d]]
        /\ \A d \in registered \ toRemove :
              writer[d] = "writing" => owed'[d] \in Seq(1 .. MaxHubMsg)
    BY <1>1, <1>2, <1>4 DEF HubIInv, HubShape
  <2> QED
    BY <1>1, <2>1, <2>2 DEF HubIInv, HubShape
<1>6. HubStages'
  BY <1>1, <1>2 DEF HubIInv, HubShape, HubStages
<1>7. NothingMissed'
  <2> SUFFICES ASSUME NEW d \in registered \ toRemove, writer[d] = "writing"
               PROVE  Carries(sendBuf'[d], owed'[d])
    BY <1>1 DEF NothingMissed
  <2>1. d \in HubClients /\ Carries(sendBuf[d], owed[d])
    BY DEF HubIInv, HubShape, NothingMissed
  <2>2. CASE d = c
    BY <1>1, <1>2, <1>4, <2>2
  <2>3. CASE d # c
    BY <1>1, <1>2, <2>1, <2>3
  <2> QED
    BY <2>2, <2>3
<1> QED
  BY <1>5, <1>6, <1>7 DEF HubIInv

LEMMA WriterEndsStep ==
    ASSUME HubIInv, NEW c \in HubClients, WriterEnds(c)
    PROVE  HubIInv'
<1>1. PICK buf \in {sendBuf[c], SubSeq(sendBuf[c], 2, Len(sendBuf[c]))} :
         sendBuf' = [sendBuf EXCEPT ![c] = buf]
  BY DEF WriterEnds
<1>2. /\ UNCHANGED <<registered, toRemove, hubQueue, sendClosed, reader, pings, hubSent,
                     hubAlive, owed>>
      /\ writer[c] = "writing" /\ writer' = [writer EXCEPT ![c] = "gone"]
  BY DEF WriterEnds
<1>3. /\ sendBuf \in [HubClients -> Seq(0 .. MaxHubMsg)]
      /\ \A d \in HubClients : Len(sendBuf[d]) <= SendCap
      /\ SendCap \in Nat
  BY HubAssumption DEF HubIInv, HubShape
<1>4. buf \in Seq(0 .. MaxHubMsg) /\ Len(buf) <= SendCap
  <2>1. sendBuf[c] \in Seq(0 .. MaxHubMsg) /\ Len(sendBuf[c]) \in Nat
    BY <1>3
  <2> DEFINE rest == SubSeq(sendBuf[c], 2, Len(sendBuf[c]))
  <2>2. rest \in Seq(0 .. MaxHubMsg) /\ Len(rest) <= Len(sendBuf[c]) /\ Len(rest) \in Nat
    BY <2>1, RestType
  <2> HIDE DEF rest
  <2>3. buf = sendBuf[c] \/ buf = rest
    BY DEF rest
  <2> QED
    BY <1>3, <2>1, <2>2, <2>3
<1>5. HubShape'
  BY <1>1, <1>2, <1>3, <1>4 DEF HubIInv, HubShape, Writers
<1>6. HubStages'
  BY <1>1, <1>2, <1>3 DEF HubIInv, HubShape, HubStages
<1>7. NothingMissed'
  BY <1>1, <1>2, <1>3 DEF HubIInv, HubShape, NothingMissed
<1> QED
  BY <1>5, <1>6, <1>7 DEF HubIInv

LEMMA HubStep == HubIInv /\ [HubNext]_hubVars => HubIInv'
<1> SUFFICES ASSUME HubIInv, [HubNext]_hubVars PROVE HubIInv'
  OBVIOUS
<1>1. CASE UNCHANGED hubVars
  BY <1>1 DEF hubVars, HubIInv, HubShape, HubStages, NothingMissed
<1>2. CASE HubRun
  BY <1>2, TakeRegisterStep, TakeUnregisterStep, TakeMessageStep, RemoveSlowStep DEF HubRun
<1>3. CASE \E k \in {"all", "aimed"} : HubBroadcast(k)
  BY <1>3, BroadcastStep
<1>4. ASSUME NEW c \in HubClients,
             \/ Dial(c) \/ ReadPing(c) \/ SendPong(c) \/ ReadFails(c)
             \/ Write(c) \/ WriterEnds(c)
      PROVE  HubIInv'
  BY <1>4, DialStep, SendPongStep, WriteStep, WriterEndsStep
<1> QED
  BY <1>1, <1>2, <1>3, <1>4 DEF HubNext

(* A registered client whose write pump works misses no message the hub    *)
(* took for it, for any clients and capacities (Hub.Run, ReadPump).        *)
THEOREM HubMissesNothing == HubSpec => []NothingMissed
<1>1. HubIInv => NothingMissed
  BY DEF HubIInv
<1> QED
  BY HubInitial, HubStep, <1>1, PTL DEF HubSpec

(* Run never closes a channel twice, and so never panics: a client that it *)
(* lists has an open channel, and one it has let go never comes back       *)
(* (Hub.Run's departures and removals).                                    *)
THEOREM HubNeverPanics ==
    HubSpec => [](hubAlive /\ registered \cap sendClosed = {})
<1>1. HubIInv => hubAlive /\ registered \cap sendClosed = {}
  BY DEF HubIInv, HubStages
<1> QED
  BY HubInitial, HubStep, <1>1, PTL DEF HubSpec

(* The hub, its channels and its pumps keep their types, and no channel holds *)
(* more than its capacity.                                                    *)
THEOREM HubTypeCorrect == HubSpec => []HubTypeOK
<1>1. HubIInv => HubTypeOK
  BY DEF HubIInv, HubShape, HubStages, HubTypeOK, Readers, Writers
<1> QED
  BY HubInitial, HubStep, <1>1, PTL DEF HubSpec
-----------------------------------------------------------------------------
(* PluginHub *)

Stages == {"new", "registering", "reading", "leaving", "gone"}

(* The maps hold connections of their kind and id.                           *)
Filed ==
    /\ listed \in [Kinds -> [ConnIds -> Conns \cup {NoConn}]]
    /\ \A k \in Kinds, i \in ConnIds :
          listed[k][i] # NoConn => ConnKind[listed[k][i]] = k /\ ConnId[listed[k][i]] = i
    /\ pump \in [Conns -> Stages]
    /\ plugClosed \subseteq Conns

(* A connection is listed while it is open, its channel is closed when it is *)
(* gone, and two that were open under an id are remembered.                  *)
PlugIInv ==
    /\ Filed
    /\ \A c \in Conns : Entry(c) = c => IsOpen(c)
    /\ \A c \in plugClosed : pump[c] = "gone"
    /\ \A c \in Conns : \A d \in Twins(c) :
          IsOpen(c) /\ IsOpen(d) =>
             /\ ConnId[c] \in overlapped
             /\ ConnKind[c] = "plugin" /\ ConnSpace[c] # ConnSpace[d] => ConnId[c] \in shared
    /\ \A c \in Conns : pump[c] = "reading" => Entry(c) = c \/ ConnId[c] \in overlapped

LEMMA ConnKeys ==
    ASSUME NEW c \in Conns
    PROVE  ConnKind[c] \in Kinds /\ ConnId[c] \in ConnIds /\ c # NoConn
BY PlugAssumption DEF ConnIds

(* Writing the entry of a connection writes that of its twins.               *)
LEMMA EntryAfter ==
    ASSUME Filed, NEW c \in Conns, NEW d \in Conns \cup {NoConn}, SetEntry(c, d)
    PROVE  /\ \A e \in Conns : Entry(e)' = IF e = c \/ e \in Twins(c) THEN d ELSE Entry(e)
           /\ listed' \in [Kinds -> [ConnIds -> Conns \cup {NoConn}]]
           /\ listed'[ConnKind[c]][ConnId[c]] = d
           /\ \A k \in Kinds, i \in ConnIds :
                 k # ConnKind[c] \/ i # ConnId[c] => listed'[k][i] = listed[k][i]
<1>1. ConnKind[c] \in Kinds /\ ConnId[c] \in ConnIds
  BY ConnKeys
<1>2. listed' = [listed EXCEPT ![ConnKind[c]][ConnId[c]] = d]
  BY DEF SetEntry
<1>3. listed \in [Kinds -> [ConnIds -> Conns \cup {NoConn}]]
  BY DEF Filed
<1>4. /\ listed' \in [Kinds -> [ConnIds -> Conns \cup {NoConn}]]
      /\ listed'[ConnKind[c]][ConnId[c]] = d
      /\ \A k \in Kinds, i \in ConnIds :
            k # ConnKind[c] \/ i # ConnId[c] => listed'[k][i] = listed[k][i]
  BY <1>1, <1>2, <1>3
<1>5. ASSUME NEW e \in Conns
      PROVE  Entry(e)' = IF e = c \/ e \in Twins(c) THEN d ELSE Entry(e)
  <2>1. ConnKind[e] \in Kinds /\ ConnId[e] \in ConnIds
    BY ConnKeys
  <2>2. Entry(e)' = listed'[ConnKind[e]][ConnId[e]]
    BY DEF Entry
  <2> QED
    BY <1>4, <2>1, <2>2 DEF Entry, Twins
<1> QED
  BY <1>4, <1>5

LEMMA FiledAfter ==
    ASSUME Filed, NEW c \in Conns, NEW d \in {c, NoConn}, SetEntry(c, d),
           pump' \in [Conns -> Stages], plugClosed' \subseteq Conns
    PROVE  Filed'
<1>1. d \in Conns \cup {NoConn}
  OBVIOUS
<1>2. /\ listed' \in [Kinds -> [ConnIds -> Conns \cup {NoConn}]]
      /\ listed'[ConnKind[c]][ConnId[c]] = d
      /\ \A k \in Kinds, i \in ConnIds :
            k # ConnKind[c] \/ i # ConnId[c] => listed'[k][i] = listed[k][i]
  BY <1>1, EntryAfter
<1>3. ASSUME NEW k \in Kinds, NEW i \in ConnIds, listed'[k][i] # NoConn
      PROVE  ConnKind[listed'[k][i]] = k /\ ConnId[listed'[k][i]] = i
  BY <1>2, <1>3 DEF Filed
<1> QED
  BY <1>2, <1>3 DEF Filed

LEMMA TakeConnStep ==
    ASSUME PlugIInv, NEW c \in Conns, TakeConn(c)
    PROVE  PlugIInv'
<1>1. /\ pump[c] = "registering" /\ pump' = [pump EXCEPT ![c] = "reading"]
      /\ SetEntry(c, c) /\ plugClosed' = plugClosed
      /\ overlapped' = IF \E d \in Twins(c) : IsOpen(d)
                       THEN overlapped \cup {ConnId[c]} ELSE overlapped
      /\ shared' = IF /\ ConnKind[c] = "plugin"
                      /\ \E d \in Twins(c) : IsOpen(d) /\ ConnSpace[d] # ConnSpace[c]
                   THEN shared \cup {ConnId[c]} ELSE shared
  BY DEF TakeConn, Tell
<1>2. Filed /\ pump' \in [Conns -> Stages] /\ plugClosed' \subseteq Conns
  BY <1>1 DEF PlugIInv, Filed, Stages
<1>3. Filed'
  BY <1>1, <1>2, FiledAfter
<1>4. \A e \in Conns : Entry(e)' = IF e = c \/ e \in Twins(c) THEN c ELSE Entry(e)
  BY <1>1, <1>2, EntryAfter
<1>5. /\ pump'[c] = "reading"
      /\ \A e \in Conns \ {c} : pump'[e] = pump[e]
  BY <1>1, <1>2 DEF Filed
<1>6. /\ IsOpen(c)' /\ \A e \in Conns \ {c} : IsOpen(e)' = IsOpen(e)
      /\ overlapped \subseteq overlapped' /\ shared \subseteq shared'
  BY <1>1, <1>5 DEF IsOpen
<1>7. \A e \in Conns : Twins(e)' = Twins(e)
  BY DEF Twins
<1>8. ASSUME NEW e \in Conns, Entry(e)' = e PROVE IsOpen(e)'
  <2>1. e # c => e \notin Twins(c) /\ Entry(e) = e
    BY <1>4, <1>8 DEF Twins
  <2> QED
    BY <1>6, <2>1 DEF PlugIInv
<1>9. \A e \in plugClosed' : pump'[e] = "gone"
  BY <1>1, <1>5, <1>2 DEF PlugIInv
<1>10. ASSUME NEW e \in Conns, NEW d \in Twins(e), IsOpen(e)', IsOpen(d)'
       PROVE  /\ ConnId[e] \in overlapped'
              /\ ConnKind[e] = "plugin" /\ ConnSpace[e] # ConnSpace[d] => ConnId[e] \in shared'
  <2>1. d \in Conns /\ d # e /\ ConnId[d] = ConnId[e] /\ ConnKind[d] = ConnKind[e]
    BY DEF Twins
  <2>2. CASE e # c /\ d # c
    BY <1>6, <1>10, <2>1, <2>2 DEF PlugIInv
  <2>3. CASE e = c
    BY <1>1, <1>6, <1>10, <2>1, <2>3
  <2>4. CASE d = c
    <3>1. e \in Twins(c) /\ IsOpen(e)
      BY <1>6, <1>10, <2>1, <2>4 DEF Twins
    <3> QED
      BY <1>1, <3>1, <2>1, <2>4
  <2> QED
    BY <2>2, <2>3, <2>4
<1>11. ASSUME NEW e \in Conns, pump'[e] = "reading"
       PROVE  Entry(e)' = e \/ ConnId[e] \in overlapped'
  <2>1. CASE e = c
    BY <1>4, <2>1
  <2>2. CASE e \in Twins(c)
    <3>1. e # c /\ ConnId[e] = ConnId[c]
      BY <2>2 DEF Twins
    <3>2. IsOpen(e)
      BY <1>5, <1>11, <3>1 DEF IsOpen
    <3> QED
      BY <1>1, <2>2, <3>1, <3>2
  <2>3. CASE e # c /\ e \notin Twins(c)
    BY <1>4, <1>5, <1>6, <1>11, <2>3 DEF PlugIInv
  <2> QED
    BY <2>1, <2>2, <2>3
<1> QED
  BY <1>3, <1>7, <1>8, <1>9, <1>10, <1>11 DEF PlugIInv

LEMMA TakeDepartureStep ==
    ASSUME PlugIInv, NEW c \in Conns, TakeDeparture(c)
    PROVE  PlugIInv'
<1>1. /\ pump[c] = "leaving" /\ pump' = [pump EXCEPT ![c] = "gone"]
      /\ overlapped' = overlapped /\ shared' = shared /\ DropConn(c)
  BY DEF TakeDeparture, Tell
<1>2. Filed /\ pump' \in [Conns -> Stages]
  BY <1>1 DEF PlugIInv, Filed, Stages
<1>3. /\ plugClosed' \subseteq plugClosed \cup {c}
      /\ Filed'
      /\ \A e \in Conns : Entry(e)' = IF e = c \/ e \in Twins(c) THEN NoConn ELSE Entry(e)
  <2>1. CASE Entry(c) # NoConn
    <3>1. SetEntry(c, NoConn) /\ plugClosed' = plugClosed \cup {c}
      BY <1>1, <2>1 DEF DropConn
    <3>2. plugClosed' \subseteq Conns
      BY <1>2, <3>1 DEF Filed
    <3> QED
      BY <1>2, <3>1, <3>2, FiledAfter, EntryAfter
  <2>2. CASE Entry(c) = NoConn
    <3>1. UNCHANGED <<listed, plugClosed>>
      BY <1>1, <2>2 DEF DropConn
    <3>2. \A e \in Conns : Entry(e)' = Entry(e)
      BY <3>1 DEF Entry
    <3>3. \A e \in Twins(c) : Entry(e) = NoConn
      BY <2>2 DEF Twins, Entry
    <3> QED
      BY <1>2, <2>2, <3>1, <3>2, <3>3 DEF Filed
  <2> QED
    BY <2>1, <2>2
<1>4. pump'[c] = "gone" /\ \A e \in Conns \ {c} : pump'[e] = pump[e]
  BY <1>1, <1>2 DEF Filed
<1>5. /\ ~IsOpen(c)' /\ IsOpen(c)
      /\ \A e \in Conns \ {c} : IsOpen(e)' = IsOpen(e)
  BY <1>1, <1>4 DEF IsOpen
<1>6. \A e \in Conns : Twins(e)' = Twins(e) /\ e # NoConn
  BY ConnKeys DEF Twins
<1>7. \A e \in Conns : Entry(e)' = e => IsOpen(e)'
  BY <1>3, <1>5, <1>6 DEF PlugIInv
<1>8. \A e \in plugClosed' : pump'[e] = "gone"
  BY <1>2, <1>3, <1>4 DEF PlugIInv, Filed
<1>9. \A e \in Conns : \A d \in Twins(e) :
        IsOpen(e)' /\ IsOpen(d)' =>
           /\ ConnId[e] \in overlapped'
           /\ ConnKind[e] = "plugin" /\ ConnSpace[e] # ConnSpace[d] => ConnId[e] \in shared'
  <2>1. \A e \in Conns : \A d \in Twins(e) : d \in Conns
    BY DEF Twins
  <2> QED
    BY <1>1, <1>5, <2>1 DEF PlugIInv
<1>10. ASSUME NEW e \in Conns, pump'[e] = "reading"
       PROVE  Entry(e)' = e \/ ConnId[e] \in overlapped'
  <2>1. e # c /\ pump[e] = "reading"
    BY <1>4, <1>10
  <2>2. CASE e \in Twins(c)
    <3>1. c \in Twins(e) /\ IsOpen(e)
      BY <2>1, <2>2 DEF Twins, IsOpen
    <3> QED
      BY <1>1, <1>5, <3>1 DEF PlugIInv
  <2>3. CASE e \notin Twins(c)
    BY <1>1, <1>3, <2>1, <2>3 DEF PlugIInv
  <2> QED
    BY <2>2, <2>3
<1> QED
  BY <1>3, <1>6, <1>7, <1>8, <1>9, <1>10 DEF PlugIInv

(* Before it is registered, and after it failed, a connection is no twin     *)
(* that counts anew.                                                         *)
LEMMA PumpStep ==
    ASSUME PlugIInv, NEW c \in Conns, Connect(c) \/ ConnFails(c)
    PROVE  PlugIInv'
<1>1. UNCHANGED <<listed, plugClosed, overlapped, shared>>
  BY DEF Connect, ConnFails
<1>2. PICK stage \in {"registering", "leaving"} :
         /\ pump' = [pump EXCEPT ![c] = stage]
         /\ IsOpen(c) <=> stage = "leaving"
         /\ pump[c] # "gone"
  BY DEF Connect, ConnFails, IsOpen
<1>3. /\ pump' \in [Conns -> Stages] /\ pump'[c] = stage
      /\ \A e \in Conns \ {c} : pump'[e] = pump[e]
  BY <1>2 DEF PlugIInv, Filed, Stages
<1>4. \A e \in Conns : IsOpen(e)' <=> IsOpen(e)
  BY <1>2, <1>3 DEF IsOpen
<1>5. \A e \in Conns : Entry(e)' = Entry(e) /\ Twins(e)' = Twins(e)
  BY <1>1 DEF Entry, Twins
<1>6. \A e \in Conns : Twins(e) \subseteq Conns
  BY DEF Twins
<1>7. Filed'
  BY <1>1, <1>3 DEF PlugIInv, Filed
<1>8. \A e \in plugClosed' : pump'[e] = "gone"
  BY <1>1, <1>2, <1>3 DEF PlugIInv, Filed
<1>9. \A e \in Conns : pump'[e] = "reading" => pump[e] = "reading"
  BY <1>3
<1> QED
  BY <1>1, <1>4, <1>5, <1>6, <1>7, <1>8, <1>9 DEF PlugIInv

LEMMA PlugStep == PlugIInv /\ [PlugNext]_plugVars => PlugIInv'
<1> SUFFICES ASSUME PlugIInv, [PlugNext]_plugVars PROVE PlugIInv'
  OBVIOUS
<1>1. ASSUME UNCHANGED <<listed, pump, plugClosed, overlapped, shared>> PROVE PlugIInv'
  BY <1>1 DEF PlugIInv, Filed, Entry, Twins, IsOpen
<1>2. ASSUME NEW c \in Conns, Relay(c) \/ WriteOut(c)
      PROVE  UNCHANGED <<listed, pump, plugClosed, overlapped, shared>>
  BY <1>2 DEF Relay, WriteOut
<1>3. ASSUME (\E i \in ConnIds, w \in Spaces : LookUp(i, w)) \/ SendCommand \/ UNCHANGED plugVars
      PROVE  UNCHANGED <<listed, pump, plugClosed, overlapped, shared>>
  BY <1>3 DEF LookUp, SendCommand, plugVars
<1> QED
  BY <1>1, <1>2, <1>3, TakeConnStep, TakeDepartureStep, PumpStep DEF PlugNext

LEMMA PlugInitial == PlugInit => PlugIInv
BY PlugAssumption, ConnKeys
   DEF PlugInit, PlugIInv, Filed, Stages, Entry, IsOpen, ConnIds, Kinds

(* A connection that is read is the one its id leads to, unless two of the   *)
(* id were open at a time, and no entry leads to a closed channel, for any   *)
(* connections (Run's registrations and departures).                         *)
THEOREM Listed == PlugSpec => []ConnectedIsListed
<1>1. PlugIInv => ConnectedIsListed
  <2> SUFFICES ASSUME PlugIInv PROVE ConnectedIsListed
    OBVIOUS
  <2>1. \A c \in Conns : Entry(c) = c => c \notin plugClosed
    BY DEF PlugIInv, IsOpen
  <2> QED
    BY <2>1 DEF PlugIInv, ConnectedIsListed
<1> QED
  BY <1>1, PlugInitial, PlugStep, PTL DEF PlugSpec
-----------------------------------------------------------------------------
(* What the clients know *)

LEMMA AudienceFact ==
    ASSUME Filed, NEW e \in Clients
    PROVE  e \in Conns /\ ConnKind[e] = "client"
BY DEF Clients, Filed, Kinds

(* The clients of the hub, and the instances it lists, after a change of one *)
(* entry.                                                                    *)
LEMMA ListsAfter ==
    ASSUME Filed, NEW c \in Conns, NEW d \in {c, NoConn}, SetEntry(c, d)
    PROVE  /\ ConnKind[c] # "client" => Clients' = Clients
           /\ Clients' \subseteq Clients \cup {d}
           /\ NoConn \notin Clients'
           /\ ConnKind[c] # "plugin" => \A w : Instances(w)' = Instances(w)
           /\ ConnKind[c] = "plugin" => \A w :
                 Instances(w)' = IF d = c /\ ConnSpace[c] = w
                                 THEN Instances(w) \cup {ConnId[c]}
                                 ELSE Instances(w) \ {ConnId[c]}
<1>1. /\ ConnKind[c] \in Kinds /\ ConnId[c] \in ConnIds /\ c # NoConn
      /\ d \in Conns \cup {NoConn} /\ {"plugin", "client"} \subseteq Kinds
  BY ConnKeys DEF Kinds
<1>2. /\ listed'[ConnKind[c]][ConnId[c]] = d
      /\ \A k \in Kinds, i \in ConnIds :
            k # ConnKind[c] \/ i # ConnId[c] => listed'[k][i] = listed[k][i]
  BY <1>1, EntryAfter
<1>3. Clients' = {listed'["client"][i] : i \in ConnIds} \ {NoConn}
  BY DEF Clients, ConnIds
<1>i. \A w : Instances(w)' = {i \in ConnIds : /\ listed'["plugin"][i] # NoConn
                                              /\ ConnSpace[listed'["plugin"][i]] = w}
  BY DEF Instances, IsOf, ConnIds
<1>4. ConnKind[c] # "client" => Clients' = Clients
  <2>1. ConnKind[c] # "client" =>
           \A i \in ConnIds : listed'["client"][i] = listed["client"][i]
    BY <1>1, <1>2
  <2> QED
    BY <1>3, <2>1 DEF Clients
<1>5. Clients' \subseteq Clients \cup {d}
  <2>1. \A i \in ConnIds : listed'["client"][i] \in {listed["client"][i], d}
    BY <1>1, <1>2
  <2> QED
    BY <1>3, <2>1 DEF Clients
<1>6. ConnKind[c] # "plugin" => \A w : Instances(w)' = Instances(w)
  BY <1>1, <1>2, <1>i DEF Instances, IsOf
<1>7. ASSUME ConnKind[c] = "plugin", NEW w
      PROVE  Instances(w)' = IF d = c /\ ConnSpace[c] = w
                             THEN Instances(w) \cup {ConnId[c]}
                             ELSE Instances(w) \ {ConnId[c]}
  <2>1. \A i \in ConnIds \ {ConnId[c]} : i \in Instances(w)' <=> i \in Instances(w)
    BY <1>1, <1>2, <1>7, <1>i DEF Instances, IsOf
  <2>2. ConnId[c] \in Instances(w)' <=> d = c /\ ConnSpace[c] = w
    BY <1>1, <1>2, <1>7, <1>i
  <2>3. Instances(w) \subseteq ConnIds /\ Instances(w)' \subseteq ConnIds
    BY <1>i DEF Instances
  <2> QED
    BY <1>1, <2>1, <2>2, <2>3
<1> QED
  BY <1>3, <1>4, <1>5, <1>6, <1>7

(* A plugin of another workspace that has the entry of a connection shares   *)
(* its id, once the connection is open.                                      *)
LEMMA ForeignEntry ==
    ASSUME Filed, NEW c \in Conns, ConnKind[c] = "plugin", NEW w, w # ConnSpace[c],
           \A e \in Conns : Entry(e) = e => IsOpen(e),
           ConnId[c] \in Instances(w)
    PROVE  \E d \in Twins(c) : IsOpen(d) /\ ConnSpace[d] # ConnSpace[c]
<1> DEFINE d == listed["plugin"][ConnId[c]]
<1>1. "plugin" \in Kinds /\ ConnId[c] \in ConnIds
  BY ConnKeys DEF Kinds
<1>2. d # NoConn /\ ConnSpace[d] = w
  BY DEF Instances, IsOf
<1>3. d \in Conns /\ ConnKind[d] = "plugin" /\ ConnId[d] = ConnId[c]
  BY <1>1, <1>2 DEF Filed
<1>4. Entry(d) = d
  BY <1>3 DEF Entry
<1> QED
  BY <1>2, <1>3, <1>4 DEF Twins

(* The clients agree; a full buffer makes one deaf.                          *)
Agreed == PlugIInv /\ ClientsAgree

LEMMA AgreedTakeConn ==
    ASSUME Agreed, NEW c \in Conns, TakeConn(c)
    PROVE  ClientsAgree'
<1>1. /\ Filed /\ SetEntry(c, c) /\ pump' = [pump EXCEPT ![c] = "reading"]
      /\ shared \subseteq shared'
  BY DEF Agreed, PlugIInv, TakeConn, Tell
<1>2. \A e \in Conns \ {c} : pump'[e] = pump[e]
  BY <1>1 DEF Filed
<1>3. ConnKind[c] \in Kinds /\ c # NoConn
  BY ConnKeys
<1>4. CASE ConnKind[c] = "plugin"
  <2>1. /\ known' = [e \in Conns |->
                        IF e \in {x \in Audience(ConnSpace[c]) : ~IsDeaf(x)}
                        THEN known[e] \cup {ConnId[c]} ELSE known[e]]
        /\ deaf' = deaf \cup (Audience(ConnSpace[c])
                                 \ {x \in Audience(ConnSpace[c]) : ~IsDeaf(x)})
        /\ (\E d \in Twins(c) : IsOpen(d) /\ ConnSpace[d] # ConnSpace[c])
              => ConnId[c] \in shared'
    BY <1>4 DEF TakeConn, Tell
  <2>2. /\ Clients' = Clients
        /\ \A w : Instances(w)' = IF ConnSpace[c] = w THEN Instances(w) \cup {ConnId[c]}
                                                      ELSE Instances(w) \ {ConnId[c]}
    BY <1>1, <1>3, <1>4, ListsAfter
  <2> SUFFICES ASSUME NEW e \in Clients' \ deaf', pump'[e] = "reading"
               PROVE  known'[e] \ shared' = Instances(ConnSpace[e])' \ shared'
    BY DEF ClientsAgree
  <2>3. e \in Conns /\ ConnKind[e] = "client" /\ e # c
    BY <1>1, <1>4, <2>2, AudienceFact
  <2>4. e \in Clients \ deaf /\ pump[e] = "reading"
    BY <1>2, <2>1, <2>2, <2>3
  <2>5. known[e] \ shared = Instances(ConnSpace[e]) \ shared
    BY <2>4 DEF Agreed, ClientsAgree
  <2>6. CASE ConnSpace[e] = ConnSpace[c]
    <3>1. e \in Audience(ConnSpace[c]) /\ ~IsDeaf(e)
      BY <2>1, <2>2, <2>6 DEF Audience
    <3>2. known'[e] = known[e] \cup {ConnId[c]}
      BY <2>1, <2>3, <3>1
    <3> QED
      BY <1>1, <2>2, <2>5, <2>6, <3>2
  <2>7. CASE ConnSpace[e] # ConnSpace[c]
    <3>1. e \notin Audience(ConnSpace[c])
      BY <2>7 DEF Audience
    <3>2. known'[e] = known[e]
      BY <2>1, <2>3, <3>1
    <3>3. ConnId[c] \in Instances(ConnSpace[e]) => ConnId[c] \in shared'
      BY <1>1, <1>4, <2>1, <2>7, ForeignEntry DEF Agreed, PlugIInv
    <3> QED
      BY <1>1, <2>2, <2>5, <2>7, <3>2, <3>3
  <2> QED
    BY <2>6, <2>7
<1>5. CASE ConnKind[c] = "client"
  <2>1. /\ known' = [e \in Conns |-> IF e \in {x \in {c} : ~IsDeaf(x)}
                                     THEN Instances(ConnSpace[c]) ELSE known[e]]
        /\ deaf' = deaf \cup ({c} \ {x \in {c} : ~IsDeaf(x)})
        /\ shared' = shared
    BY <1>5 DEF TakeConn, Tell
  <2>2. Clients' \subseteq Clients \cup {c} /\ \A w : Instances(w)' = Instances(w)
    BY <1>1, <1>5, ListsAfter
  <2> SUFFICES ASSUME NEW e \in Clients' \ deaf', pump'[e] = "reading"
               PROVE  known'[e] \ shared' = Instances(ConnSpace[e])' \ shared'
    BY DEF ClientsAgree
  <2>3. CASE e = c
    BY <2>1, <2>2, <2>3
  <2>4. CASE e # c
    <3>1. e \in Clients \ deaf /\ e \in Conns
      BY <1>1, <2>1, <2>2, <2>4, AudienceFact
    <3>2. known[e] \ shared = Instances(ConnSpace[e]) \ shared
      BY <1>2, <2>4, <3>1 DEF Agreed, ClientsAgree
    <3> QED
      BY <2>1, <2>2, <2>4, <3>1, <3>2
  <2> QED
    BY <2>3, <2>4
<1>6. CASE ConnKind[c] = "manager"
  <2>1. UNCHANGED <<known, deaf, shared>>
    BY <1>6 DEF TakeConn, Tell
  <2>2. Clients' = Clients /\ \A w : Instances(w)' = Instances(w)
    BY <1>1, <1>6, ListsAfter
  <2>3. \A e \in Clients : e \in Conns /\ e # c
    BY <1>1, <1>6, AudienceFact
  <2> QED
    BY <1>2, <2>1, <2>2, <2>3 DEF Agreed, ClientsAgree
<1> QED
  BY <1>3, <1>4, <1>5, <1>6 DEF Kinds

LEMMA AgreedTakeDeparture ==
    ASSUME Agreed, NEW c \in Conns, TakeDeparture(c)
    PROVE  ClientsAgree'
<1>1. /\ Filed /\ DropConn(c) /\ pump[c] = "leaving"
      /\ pump' = [pump EXCEPT ![c] = "gone"] /\ shared' = shared
  BY DEF Agreed, PlugIInv, TakeDeparture, Tell
<1>2. \A e \in Conns \ {c} : pump'[e] = pump[e]
  BY <1>1 DEF Filed
<1>3. ConnKind[c] \in Kinds /\ c # NoConn /\ ConnId[c] \in ConnIds
  BY ConnKeys
<1>4. /\ Clients' \subseteq Clients
      /\ ConnKind[c] # "plugin" => \A w : Instances(w)' = Instances(w)
      /\ ConnKind[c] = "plugin" => \A w : Instances(w)' = Instances(w) \ {ConnId[c]}
  <2>1. CASE Entry(c) # NoConn
    <3>1. SetEntry(c, NoConn)
      BY <1>1, <2>1 DEF DropConn
    <3> QED
      BY <1>1, <1>3, <3>1, ListsAfter
  <2>2. CASE Entry(c) = NoConn
    <3>1. listed' = listed
      BY <1>1, <2>2 DEF DropConn
    <3>2. ConnKind[c] = "plugin" => \A w : ConnId[c] \notin Instances(w)
      BY <2>2 DEF Entry, Instances, IsOf
    <3>3. Clients' = Clients /\ \A w : Instances(w)' = Instances(w)
      BY <3>1 DEF Clients, Instances, IsOf
    <3> QED
      BY <3>2, <3>3
  <2> QED
    BY <2>1, <2>2
<1>5. \A e \in Clients : e \in Conns /\ ConnKind[e] = "client"
  BY <1>1, AudienceFact
<1>6. CASE ConnKind[c] = "plugin"
  <2>1. /\ known' = [e \in Conns |->
                        IF e \in {x \in Audience(ConnSpace[c]) : ~IsDeaf(x)}
                        THEN known[e] \ {ConnId[c]} ELSE known[e]]
        /\ deaf' = deaf \cup (Audience(ConnSpace[c])
                                 \ {x \in Audience(ConnSpace[c]) : ~IsDeaf(x)})
    BY <1>6 DEF TakeDeparture, Tell
  <2> SUFFICES ASSUME NEW e \in Clients' \ deaf', pump'[e] = "reading"
               PROVE  known'[e] \ shared = Instances(ConnSpace[e])' \ shared
    BY <1>1 DEF ClientsAgree
  <2>2. e \in Conns /\ e # c /\ e \in Clients \ deaf /\ pump[e] = "reading"
    BY <1>2, <1>4, <1>5, <1>6, <2>1
  <2>3. known[e] \ shared = Instances(ConnSpace[e]) \ shared
    BY <2>2 DEF Agreed, ClientsAgree
  <2>4. CASE ConnSpace[e] = ConnSpace[c]
    <3>1. e \in Audience(ConnSpace[c]) /\ ~IsDeaf(e)
      BY <1>4, <2>1, <2>4 DEF Audience
    <3>2. known'[e] = known[e] \ {ConnId[c]}
      BY <2>1, <2>2, <3>1
    <3> QED
      BY <1>4, <1>6, <2>3, <3>2
  <2>5. CASE ConnSpace[e] # ConnSpace[c]
    <3>1. e \notin Audience(ConnSpace[c])
      BY <2>5 DEF Audience
    <3>2. known'[e] = known[e]
      BY <2>1, <2>2, <3>1
    <3>3. ConnId[c] \in Instances(ConnSpace[e]) => ConnId[c] \in shared
      <4>1. \A x \in Conns : Entry(x) = x => IsOpen(x)
        BY DEF Agreed, PlugIInv
      <4>2. SUFFICES ASSUME ConnId[c] \in Instances(ConnSpace[e])
                     PROVE  ConnId[c] \in shared
        OBVIOUS
      <4>3. PICK d \in Twins(c) : IsOpen(d) /\ ConnSpace[d] # ConnSpace[c]
        BY <1>1, <1>6, <2>5, <4>1, <4>2, ForeignEntry
      <4>4. IsOpen(c)
        BY <1>1 DEF IsOpen
      <4> QED
        BY <1>6, <4>3, <4>4 DEF Agreed, PlugIInv
    <3> QED
      BY <1>4, <1>6, <2>3, <3>2, <3>3
  <2> QED
    BY <2>4, <2>5
<1>7. CASE ConnKind[c] # "plugin"
  <2>1. UNCHANGED <<known, deaf>>
    BY <1>7 DEF TakeDeparture, Tell
  <2>2. \A e \in Conns : pump'[e] = "reading" => pump[e] = "reading"
    BY <1>1 DEF Filed
  <2> QED
    BY <1>1, <1>4, <1>5, <1>7, <2>1, <2>2 DEF Agreed, ClientsAgree
<1> QED
  BY <1>6, <1>7

(* The other steps leave the lists and what is known alone; a relay may make *)
(* clients deaf.                                                             *)
LEMMA AgreedStep ==
    ASSUME Agreed, [PlugNext]_plugVars
    PROVE  ClientsAgree'
<1>1. ASSUME UNCHANGED <<listed, shared>>, deaf \subseteq deaf',
             \A e \in Conns : known'[e] = known[e],
             \A e \in Conns : ConnKind[e] = "client" /\ pump'[e] = "reading" =>
                                   pump[e] = "reading"
      PROVE  ClientsAgree'
  <2>1. Clients' = Clients /\ \A w : Instances(w)' = Instances(w)
    BY <1>1 DEF Clients, Instances, IsOf
  <2>2. \A e \in Clients : e \in Conns /\ ConnKind[e] = "client"
    BY AudienceFact DEF Agreed, PlugIInv
  <2> QED
    BY <1>1, <2>1, <2>2 DEF Agreed, ClientsAgree
<1>2. ASSUME NEW c \in Conns, Connect(c) \/ ConnFails(c) PROVE ClientsAgree'
  <2>1. UNCHANGED <<listed, deaf, known, shared>>
    BY <1>2 DEF Connect, ConnFails
  <2>2. \A e \in Conns : pump'[e] = "reading" => pump[e] = "reading"
    BY <1>2 DEF Connect, ConnFails, Agreed, PlugIInv, Filed
  <2> QED
    BY <1>1, <2>1, <2>2
<1>3. ASSUME NEW c \in Conns, Relay(c) PROVE ClientsAgree'
  <2>1. UNCHANGED <<listed, pump, shared>> /\ deaf \subseteq deaf'
    BY <1>3 DEF Relay, Tell
  <2>2. known' = [e \in Conns |-> IF e \in {x \in Audience(ConnSpace[c]) : ~IsDeaf(x)}
                                 THEN known[e] ELSE known[e]]
    BY <1>3 DEF Relay, Tell
  <2>3. \A e \in Conns : known'[e] = known[e]
    BY <2>2
  <2> QED
    BY <1>1, <2>1, <2>3
<1>4. ASSUME \/ \E c \in Conns : WriteOut(c)
             \/ (\E i \in ConnIds, w \in Spaces : LookUp(i, w))
             \/ SendCommand \/ UNCHANGED plugVars
      PROVE  ClientsAgree'
  <2>1. UNCHANGED <<listed, pump, deaf, known, shared>>
    BY <1>4 DEF WriteOut, LookUp, SendCommand, plugVars
  <2> QED
    BY <1>1, <2>1
<1> QED
  BY <1>2, <1>3, <1>4, AgreedTakeConn, AgreedTakeDeparture DEF PlugNext

(* A client that missed no message knows exactly the instances that the hub  *)
(* lists for its workspace, but for ids that plugins of two workspaces had   *)
(* at a time, for any connections, workspaces and capacities (Run and its    *)
(* notices).                                                                 *)
THEOREM Agreement == PlugSpec => []ClientsAgree
<1>1. PlugInit => ClientsAgree
  BY DEF PlugInit, ClientsAgree, Clients, Kinds
<1>2. PlugIInv /\ ClientsAgree /\ [PlugNext]_plugVars => ClientsAgree'
  BY AgreedStep DEF Agreed
<1> QED
  BY <1>1, <1>2, PlugInitial, PlugStep, PTL DEF PlugSpec

(* The channels, the views and the histories of the connections.             *)
PlugData ==
    /\ plugLen \in [Conns -> 0 .. PlugCap]
    /\ target \in Conns \cup {NoConn}
    /\ commands \in 0 .. MaxCommands
    /\ known \in [Conns -> SUBSET ConnIds]
    /\ deaf \subseteq Conns
    /\ overlapped \subseteq ConnIds /\ shared \subseteq ConnIds

(* A message reaches the connections with room, and changes what they know.  *)
LEMMA ToldTypes ==
    ASSUME PlugData, NEW audience \in SUBSET Conns, NEW heard,
           heard = {c \in audience : ~IsDeaf(c)},
           plugLen' = [c \in Conns |-> IF c \in heard THEN plugLen[c] + 1 ELSE plugLen[c]],
           deaf' = deaf \cup (audience \ heard)
    PROVE  plugLen' \in [Conns -> 0 .. PlugCap] /\ deaf' \subseteq Conns
<1>1. ASSUME NEW c \in Conns PROVE plugLen'[c] \in 0 .. PlugCap
  <2>1. plugLen[c] \in 0 .. PlugCap /\ PlugCap \in Nat
    BY PlugAssumption DEF PlugData
  <2>2. c \in heard => plugLen[c] # PlugCap
    BY DEF IsDeaf
  <2> QED
    BY <2>1, <2>2
<1>2. plugLen' \in [Conns -> 0 .. PlugCap]
  BY <1>1
<1> QED
  BY <1>2 DEF PlugData

LEMMA PlugDataStep ==
    ASSUME PlugIInv, PlugData, [PlugNext]_plugVars
    PROVE  PlugData'
<1>0. Filed /\ \A w : Audience(w) \subseteq Conns
  BY AudienceFact DEF PlugIInv, Audience
<1>1. ASSUME NEW c \in Conns, Connect(c) \/ ConnFails(c) PROVE PlugData'
  BY <1>1 DEF Connect, ConnFails, PlugData
<1>2. ASSUME NEW c \in Conns, TakeConn(c) PROVE PlugData'
  <2>1. /\ target' = target /\ commands' = commands
        /\ overlapped' \subseteq ConnIds /\ shared' \subseteq ConnIds
    <3>1. /\ target' = target /\ commands' = commands
          /\ overlapped' \in {overlapped, overlapped \cup {ConnId[c]}}
          /\ shared' \in {shared, shared \cup {ConnId[c]}}
      BY <1>2 DEF TakeConn, Tell
    <3> QED
      BY <3>1, ConnKeys DEF PlugData
  <2>2. ConnId[c] \in ConnIds /\ ConnKind[c] \in Kinds
    BY ConnKeys
  <2>3. CASE ConnKind[c] = "plugin"
    <3> DEFINE heard == {e \in Audience(ConnSpace[c]) : ~IsDeaf(e)}
    <3>1. /\ plugLen' = [e \in Conns |-> IF e \in heard THEN plugLen[e] + 1 ELSE plugLen[e]]
          /\ known' = [e \in Conns |-> IF e \in heard THEN known[e] \cup {ConnId[c]}
                                                      ELSE known[e]]
          /\ deaf' = deaf \cup (Audience(ConnSpace[c]) \ heard)
      BY <1>2, <2>3 DEF TakeConn, Tell
    <3>2. known' \in [Conns -> SUBSET ConnIds]
      BY <2>2, <3>1 DEF PlugData
    <3>3. plugLen' \in [Conns -> 0 .. PlugCap] /\ deaf' \subseteq Conns
      BY <1>0, <3>1, ToldTypes
    <3> QED
      BY <2>1, <3>2, <3>3 DEF PlugData
  <2>4. CASE ConnKind[c] = "client"
    <3> DEFINE heard == {e \in {c} : ~IsDeaf(e)}
    <3>1. /\ plugLen' = [e \in Conns |-> IF e \in heard THEN plugLen[e] + 1 ELSE plugLen[e]]
          /\ known' = [e \in Conns |-> IF e \in heard THEN Instances(ConnSpace[c])
                                                      ELSE known[e]]
          /\ deaf' = deaf \cup ({c} \ heard)
      BY <1>2, <2>4 DEF TakeConn, Tell
    <3>2. known' \in [Conns -> SUBSET ConnIds]
      BY <3>1 DEF PlugData, Instances
    <3>3. plugLen' \in [Conns -> 0 .. PlugCap] /\ deaf' \subseteq Conns
      BY <3>1, ToldTypes
    <3> QED
      BY <2>1, <3>2, <3>3 DEF PlugData
  <2>5. CASE ConnKind[c] = "manager"
    <3>1. UNCHANGED <<plugLen, known, deaf>>
      BY <1>2, <2>5 DEF TakeConn, Tell
    <3> QED
      BY <2>1, <3>1 DEF PlugData
  <2> QED
    BY <2>2, <2>3, <2>4, <2>5 DEF Kinds
<1>3. ASSUME NEW c \in Conns, TakeDeparture(c) PROVE PlugData'
  <2>1. UNCHANGED <<target, commands, overlapped, shared>>
    BY <1>3 DEF TakeDeparture, Tell
  <2>2. CASE ConnKind[c] = "plugin"
    <3> DEFINE heard == {e \in Audience(ConnSpace[c]) : ~IsDeaf(e)}
    <3>1. /\ plugLen' = [e \in Conns |-> IF e \in heard THEN plugLen[e] + 1 ELSE plugLen[e]]
          /\ known' = [e \in Conns |-> IF e \in heard THEN known[e] \ {ConnId[c]}
                                                      ELSE known[e]]
          /\ deaf' = deaf \cup (Audience(ConnSpace[c]) \ heard)
      BY <1>3, <2>2 DEF TakeDeparture, Tell
    <3>2. known' \in [Conns -> SUBSET ConnIds]
      BY <3>1 DEF PlugData
    <3>3. plugLen' \in [Conns -> 0 .. PlugCap] /\ deaf' \subseteq Conns
      BY <1>0, <3>1, ToldTypes
    <3> QED
      BY <2>1, <3>2, <3>3 DEF PlugData
  <2>3. CASE ConnKind[c] # "plugin"
    <3>1. UNCHANGED <<plugLen, known, deaf>>
      BY <1>3, <2>3 DEF TakeDeparture, Tell
    <3> QED
      BY <2>1, <3>1 DEF PlugData
  <2> QED
    BY <2>2, <2>3
<1>4. ASSUME NEW c \in Conns, Relay(c) PROVE PlugData'
  <2> DEFINE heard == {e \in Audience(ConnSpace[c]) : ~IsDeaf(e)}
  <2>1. /\ plugLen' = [e \in Conns |-> IF e \in heard THEN plugLen[e] + 1 ELSE plugLen[e]]
        /\ known' = [e \in Conns |-> IF e \in heard THEN known[e] ELSE known[e]]
        /\ deaf' = deaf \cup (Audience(ConnSpace[c]) \ heard)
        /\ UNCHANGED <<target, overlapped, shared>>
        /\ commands < MaxCommands /\ commands' = commands + 1
    BY <1>4 DEF Relay, Tell
  <2>2. known' \in [Conns -> SUBSET ConnIds]
    BY <2>1 DEF PlugData
  <2>3. plugLen' \in [Conns -> 0 .. PlugCap] /\ deaf' \subseteq Conns
    BY <1>0, <2>1, ToldTypes
  <2>4. commands' \in 0 .. MaxCommands
    BY <2>1, PlugAssumption DEF PlugData
  <2> QED
    BY <2>1, <2>2, <2>3, <2>4 DEF PlugData
<1>5. ASSUME NEW i \in ConnIds, NEW w \in Spaces, LookUp(i, w) PROVE PlugData'
  <2>1. target' \in Conns \cup {NoConn}
    BY <1>0, <1>5 DEF LookUp, Filed, Kinds
  <2>2. commands' \in 0 .. MaxCommands
    BY <1>5, PlugAssumption DEF LookUp, PlugData
  <2> QED
    BY <1>5, <2>1, <2>2 DEF LookUp, PlugData
<1>6. ASSUME SendCommand PROVE PlugData'
  <2>1. target \in Conns /\ plugLen[target] \in 0 .. PlugCap /\ PlugCap \in Nat
    BY <1>6, PlugAssumption DEF SendCommand, PlugData
  <2>2. \/ plugLen' = plugLen
        \/ /\ plugLen[target] # PlugCap
           /\ plugLen' = [plugLen EXCEPT ![target] = plugLen[target] + 1]
    BY <1>6 DEF SendCommand, IsDeaf
  <2>3. plugLen' \in [Conns -> 0 .. PlugCap]
    <3>1. plugLen[target] # PlugCap => plugLen[target] + 1 \in 0 .. PlugCap
      BY <2>1
    <3> QED
      BY <2>1, <2>2, <3>1 DEF PlugData
  <2> QED
    BY <1>6, <2>3 DEF SendCommand, PlugData
<1>7. ASSUME NEW c \in Conns, WriteOut(c) PROVE PlugData'
  <2>1. plugLen[c] \in 0 .. PlugCap /\ PlugCap \in Nat /\ plugLen[c] > 0
    BY <1>7, PlugAssumption DEF WriteOut, PlugData
  <2>2. plugLen[c] - 1 \in 0 .. PlugCap
    BY <2>1
  <2> QED
    BY <1>7, <2>2 DEF WriteOut, PlugData
<1>8. CASE UNCHANGED plugVars
  BY <1>8 DEF plugVars, PlugData
<1> QED
  BY <1>1, <1>2, <1>3, <1>4, <1>5, <1>6, <1>7, <1>8 DEF PlugNext

(* The hub of the plugins keeps the types of its state: no channel holds     *)
(* more than its capacity, and what is looked up is a connection.            *)
THEOREM PlugTypeCorrect == PlugSpec => []PlugTypeOK
<1>1. PlugInit => PlugData
  BY PlugAssumption DEF PlugInit, PlugData
<1>2. PlugIInv /\ PlugData => PlugTypeOK
  BY DEF PlugIInv, Filed, PlugData, PlugTypeOK, Stages
<1> QED
  BY <1>1, <1>2, PlugInitial, PlugStep, PlugDataStep, PTL DEF PlugSpec
-----------------------------------------------------------------------------
(* StdioCalls *)

(* A call that waits has a slot; Close takes its flag before it clears the   *)
(* slots, so that none is opened afterwards.                                 *)
StdioStages ==
    /\ stdioClosed <=> closer # "idle"
    /\ closer \in {"idle", "cancelling", "signalling"} <=> stdinOpen
    /\ scannerCancelled <=> ~stdinOpen
    /\ \A c \in Callers : calling[c] \in {"registered", "waiting"} => slots[c] # "none"
    /\ closer \notin {"idle", "cancelling"} => \A c \in Callers : slots[c] # "open"
    /\ closer \in {"joining", "done"} => child = "exited"
    /\ closer = "done" => scanner = "returned" /\ forwarder = "returned"

(* Once Close has cleared the slots, whoever waits has its answer or its     *)
(* error, whatever calls came in meanwhile; once it returned, the child has  *)
(* exited and the readers are back (Call, PendingCalls.Cancel, Close).       *)
NobodyIsForgotten ==
    /\ closer \notin {"idle", "cancelling"} =>
          \A c \in Callers : calling[c] = "waiting" => slots[c] \in {"answered", "closed"}
    /\ closer = "done" => /\ child = "exited" /\ stdioClosed
                         /\ scanner = "returned" /\ forwarder = "returned"

StdioIInv == StdioTypeOK /\ StdioStages

LEMMA StdioInitial == StdioInit => StdioIInv
<1> SUFFICES ASSUME StdioInit PROVE StdioIInv
  OBVIOUS
<1>1. stdout = <<>> /\ <<>> \in Seq(Callers \cup {Note}) /\ Len(<<>>) = 0
  BY DEF StdioInit
<1>2. notes \in 0 .. MaxNotes /\ recvCount \in 0 .. RecvCap /\ Len(stdout) <= PipeRoom
  BY <1>1, StdioAssumption DEF StdioInit
<1>3. StdioTypeOK
  BY <1>1, <1>2 DEF StdioInit, StdioTypeOK
<1> QED
  BY <1>3 DEF StdioInit, StdioIInv, StdioStages

LEMMA CallerStep ==
    ASSUME StdioIInv, NEW c \in Callers,
           \/ Register(c) \/ WriteRequest(c) \/ TakeAnswer(c) \/ CallTimesOut(c)
    PROVE  StdioIInv'
<1>1. StdioTypeOK'
  BY DEF Register, WriteRequest, TakeAnswer, CallTimesOut, StdioIInv, StdioTypeOK
<1>2. StdioStages'
  BY DEF Register, WriteRequest, TakeAnswer, CallTimesOut, StdioIInv, StdioTypeOK, StdioStages
<1> QED
  BY <1>1, <1>2 DEF StdioIInv

LEMMA ChildStep ==
    ASSUME StdioIInv,
           \/ \E c \in Callers : ChildAnswers(c)
           \/ ChildNotifies \/ ChildExits \/ Recv \/ ForwardEnd \/ ForwardStops
    PROVE  StdioIInv'
<1>1. /\ UNCHANGED <<stdioClosed, slots, calling, stdinOpen, scanner, scannerCancelled, closer>>
      /\ requests' \subseteq Callers
      /\ child' \in {child, "exited"} /\ forwarder' \in {forwarder, "returned"}
  BY DEF ChildAnswers, ChildNotifies, ChildExits, Recv, ForwardEnd, ForwardStops, Forwarded,
     StdioIInv, StdioTypeOK
<1>2. stdout' \in Seq(Callers \cup {Note}) /\ Len(stdout') <= PipeRoom
  <2>1. \/ stdout' = stdout
        \/ \E frame \in Callers \cup {Note} :
              Len(stdout) < PipeRoom /\ stdout' = Append(stdout, frame)
    BY DEF ChildAnswers, ChildNotifies, ChildExits, Recv, ChildWrites, ForwardEnd,
       ForwardStops, Forwarded
  <2>2. stdout \in Seq(Callers \cup {Note}) /\ Len(stdout) <= PipeRoom /\ PipeRoom \in Nat
    BY StdioAssumption DEF StdioIInv, StdioTypeOK
  <2> QED
    BY <2>1, <2>2
<1>3. notes' \in 0 .. MaxNotes /\ recvCount' \in 0 .. RecvCap
  BY StdioAssumption
     DEF ChildAnswers, ChildNotifies, ChildExits, Recv, ForwardEnd, ForwardStops, Forwarded,
         StdioIInv, StdioTypeOK
<1> QED
  BY <1>1, <1>2, <1>3 DEF StdioIInv, StdioTypeOK, StdioStages

LEMMA ScannerStep ==
    ASSUME StdioIInv, ReaderStep
    PROVE  StdioIInv'
<1>1. /\ UNCHANGED <<stdioClosed, calling, requests, notes, child, stdinOpen, scannerCancelled,
                     closer, forwarder>>
      /\ scanner' \in {scanner, "scanning", "holding", "returned"}
      /\ scanner = "returned" => scanner' = "returned"
  BY DEF ReaderStep, ReadAnswer, ReadNote, HandOn, ReadEnd
<1>2. stdout' \in Seq(Callers \cup {Note}) /\ Len(stdout') <= PipeRoom
  <2>1. \/ stdout' = stdout
        \/ stdout # <<>> /\ stdout' = Tail(stdout)
    BY DEF ReaderStep, ReadAnswer, ReadNote, HandOn, ReadEnd
  <2>3. stdout # <<>> => /\ Tail(stdout) \in Seq(Callers \cup {Note})
                         /\ Len(Tail(stdout)) = Len(stdout) - 1 /\ Len(stdout) \in Nat
    BY TailType DEF StdioIInv, StdioTypeOK
  <2>2. stdout \in Seq(Callers \cup {Note}) /\ Len(stdout) <= PipeRoom /\ PipeRoom \in Nat
    BY StdioAssumption DEF StdioIInv, StdioTypeOK
  <2> QED
    BY <2>1, <2>2, <2>3
<1>3. recvCount' \in 0 .. RecvCap
  BY StdioAssumption
     DEF ReaderStep, ReadAnswer, ReadNote, HandOn, ReadEnd, StdioIInv, StdioTypeOK
<1>4. /\ slots' \in [Callers -> {"none", "open", "answered", "closed"}]
      /\ \A c \in Callers : slots'[c] = slots[c] \/ slots'[c] = "answered"
  <2>1. CASE ReadAnswer
    <3>1. slots' = FillSlot(Head(stdout)) /\ stdout # <<>> /\ Head(stdout) # Note
      BY <2>1 DEF ReadAnswer
    <3>2. Head(stdout) \in Callers
      BY <3>1 DEF StdioIInv, StdioTypeOK
    <3> QED
      BY <3>1, <3>2 DEF FillSlot, StdioIInv, StdioTypeOK
  <2>2. CASE ReadNote \/ HandOn \/ ReadEnd
    BY <2>2 DEF ReadNote, HandOn, ReadEnd, StdioIInv, StdioTypeOK
  <2> QED
    BY <2>1, <2>2 DEF ReaderStep
<1>5. StdioTypeOK'
  BY <1>1, <1>2, <1>3, <1>4 DEF StdioIInv, StdioTypeOK
<1>6. StdioStages'
  BY <1>1, <1>4 DEF StdioIInv, StdioStages
<1> QED
  BY <1>5, <1>6 DEF StdioIInv

LEMMA CloseStep ==
    ASSUME StdioIInv, BeginClose \/ CloserStep
    PROVE  StdioIInv'
<1>1. CASE BeginClose
  BY <1>1 DEF BeginClose, StdioIInv, StdioTypeOK, StdioStages
<1>2. CASE CancelPending
  BY <1>2 DEF CancelPending, StdioIInv, StdioTypeOK, StdioStages
<1>3. CASE SignalEnd
  BY <1>3 DEF SignalEnd, StdioIInv, StdioTypeOK, StdioStages
<1>4. CASE AwaitChild
  BY <1>4 DEF AwaitChild, StdioIInv, StdioTypeOK, StdioStages
<1>5. CASE JoinReaders
  BY <1>5 DEF JoinReaders, StdioIInv, StdioTypeOK, StdioStages
<1> QED
  BY <1>1, <1>2, <1>3, <1>4, <1>5 DEF CloserStep

LEMMA StdioStep == StdioIInv /\ [StdioNext]_stdioVars => StdioIInv'
<1> SUFFICES ASSUME StdioIInv, [StdioNext]_stdioVars PROVE StdioIInv'
  OBVIOUS
<1>1. CASE UNCHANGED stdioVars
  BY <1>1 DEF stdioVars, StdioIInv, StdioTypeOK, StdioStages
<1> QED
  BY <1>1, CallerStep, ChildStep, ScannerStep, CloseStep DEF StdioNext, CallStep

(* Calls, slots, pipe and goroutines have their types.                       *)
THEOREM StdioTypeCorrect == StdioSpec => []StdioTypeOK
<1>1. StdioIInv => StdioTypeOK
  BY DEF StdioIInv
<1> QED
  BY <1>1, StdioInitial, StdioStep, PTL DEF StdioSpec

(* No call is forgotten by Close, for any calls and capacities: one that     *)
(* registers meanwhile is refused or cleared (Call, Close).                  *)
THEOREM CallsAreClosed == StdioSpec => []NobodyIsForgotten
<1>1. StdioIInv => NobodyIsForgotten
  BY DEF StdioIInv, StdioTypeOK, StdioStages, NobodyIsForgotten
<1> QED
  BY <1>1, StdioInitial, StdioStep, PTL DEF StdioSpec

(* How much the readers have before them: the pipe of the scanner and the    *)
(* frame it holds, the end of the forwarder.                                 *)
ScannerAhead == IF scanner = "returned" THEN 0
                ELSE 2 * Len(stdout) + (IF scanner = "holding" THEN 2 ELSE 1)
ForwarderAhead == IF forwarder = "scanning" THEN 1 ELSE 0
Ahead == ScannerAhead + ForwarderAhead

(* Close can go on, or waits for readers that can.                           *)
CloseCanGoOn ==
    closer = "joining" =>
        /\ \/ scanner = "returned"
           \/ scanner = "holding" /\ scannerCancelled
           \/ scanner = "scanning" /\ child = "exited"
        /\ forwarder = "returned" \/ child = "exited"

(* While Close waits for them, each step of the readers leaves them less to  *)
(* do, and nobody gives them more.                                           *)
ScannerComesToItsEnd ==
    [][closer = "joining" => /\ Ahead' \in Nat /\ Ahead' <= Ahead
                             /\ ReaderStep \/ ForwardEnd => Ahead' < Ahead]_stdioVars

LEMMA AheadStep ==
    ASSUME StdioIInv, closer = "joining", StdioNext
    PROVE  /\ Ahead' \in Nat /\ Ahead' <= Ahead
           /\ ReaderStep \/ ForwardEnd => Ahead' < Ahead
<1>1. child = "exited" /\ stdout \in Seq(Callers \cup {Note}) /\ Len(stdout) \in Nat
      /\ scanner \in {"scanning", "holding", "returned"}
  BY DEF StdioIInv, StdioTypeOK, StdioStages
<1>2. ScannerAhead \in Nat /\ ForwarderAhead \in Nat
  BY <1>1 DEF ScannerAhead, ForwarderAhead
<1>3. CASE ReaderStep
  <2>1. ForwarderAhead' = ForwarderAhead
    BY <1>3 DEF ReaderStep, ReadAnswer, ReadNote, HandOn, ReadEnd, ForwarderAhead
  <2>2. ScannerAhead' \in Nat /\ ScannerAhead' < ScannerAhead
    <3>1. CASE ReadAnswer \/ ReadNote
      <4>1. /\ scanner = "scanning" /\ stdout # <<>> /\ stdout' = Tail(stdout)
            /\ scanner' \in {"scanning", "holding", "returned"}
        BY <1>1, <3>1 DEF ReadAnswer, ReadNote
      <4>2. Len(stdout') = Len(stdout) - 1 /\ Len(stdout) >= 1
        BY <1>1, <4>1
      <4> QED
        BY <1>1, <4>1, <4>2 DEF ScannerAhead
    <3>2. CASE HandOn \/ ReadEnd
      BY <1>1, <3>2 DEF HandOn, ReadEnd, ScannerAhead
    <3> QED
      BY <1>3, <3>1, <3>2 DEF ReaderStep
  <2>3. PICK s \in Nat : ScannerAhead' = s /\ s < ScannerAhead
    BY <2>2
  <2> QED
    BY <1>2, <2>1, <2>3 DEF Ahead
<1>4. CASE ForwardEnd \/ ForwardStops
  <2>1. ScannerAhead' = ScannerAhead /\ ForwarderAhead' = 0 /\ ForwarderAhead = 1
    BY <1>4 DEF ForwardEnd, ForwardStops, Forwarded, ScannerAhead, ForwarderAhead
  <2>2. ~ReaderStep
    BY <1>4 DEF ForwardEnd, ForwardStops, Forwarded, ReaderStep, ReadAnswer, ReadNote, HandOn,
       ReadEnd
  <2> QED
    BY <1>2, <2>1, <2>2 DEF Ahead
<1>5. CASE ~(ReaderStep \/ ForwardEnd \/ ForwardStops)
  <2>1. UNCHANGED <<scanner, stdout, forwarder>>
    BY <1>1, <1>5 DEF StdioNext, Register, CallStep, WriteRequest, TakeAnswer, CallTimesOut,
       ChildAnswers, ChildNotifies, ChildWrites, ChildExits, Recv, BeginClose, CloserStep,
       CancelPending, SignalEnd, AwaitChild, JoinReaders
  <2>2. ScannerAhead' = ScannerAhead /\ ForwarderAhead' = ForwarderAhead
    BY <2>1 DEF ScannerAhead, ForwarderAhead
  <2> QED
    BY <1>2, <1>5, <2>2 DEF Ahead
<1> QED
  BY <1>3, <1>4, <1>5

(* Close waits for nobody for ever: once the child is gone the readers can   *)
(* take steps until they are back, and only so many of them, though nobody   *)
(* calls Recv (readStdout, forwardStderr, Close): the safety that            *)
(* CloseReturns rests on.                                                    *)
THEOREM CloseIsNotStuck == StdioSpec => []CloseCanGoOn /\ ScannerComesToItsEnd
<1>1. StdioIInv => CloseCanGoOn
  BY DEF StdioIInv, StdioTypeOK, StdioStages, CloseCanGoOn
<1>2. StdioIInv /\ [StdioNext]_stdioVars =>
        [closer = "joining" => /\ Ahead' \in Nat /\ Ahead' <= Ahead
                               /\ ReaderStep \/ ForwardEnd => Ahead' < Ahead]_stdioVars
  BY AheadStep
<1> QED
  BY <1>1, <1>2, StdioInitial, StdioStep, PTL DEF StdioSpec, ScannerComesToItsEnd
=============================================================================

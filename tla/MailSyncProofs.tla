--------------------------- MODULE MailSyncProofs ---------------------------
(* Proofs about MailSync, for any number of processes and mails, any window  *)
(* and any faults: a mail that no later round will look for is there, or its *)
(* insert failed.  The invariant says of every round under way that what it  *)
(* will write back as synchronised is handled already.                       *)
EXTENDS MailSync, FiniteSetTheorems, TLAPS

(* A mail that is stored, or whose insert failed. *)
Handled(u) == IsStored(u) \/ u \in insertFailed

(* What lies below the uid a round read, or below the one it will write back, *)
(* is handled or still to be inserted; a round over IMAP leaves nothing out   *)
(* below what it still has to insert.                                         *)
RoundCovered(p) ==
    /\ \A u \in Uids : u <= round[p].from => Handled(u)
    /\ \A u \in Uids : u <= round[p].high =>
          Handled(u) \/ (round[p].pc = "inserting" /\ round[p].path = "imap"
                         /\ u \in round[p].todo)
    /\ \A u \in round[p].got : Handled(u)
    /\ round[p].pc = "inserting" /\ round[p].path = "imap" =>
          \A t \in round[p].todo, u \in Uids : u < t => Handled(u) \/ u \in round[p].todo
    /\ round[p].pc = "imap" => round[p].path = "imap"
    /\ round[p].pc = "pop3" => round[p].path = "pop3"

MailIInv ==
    /\ MailTypeOK
    /\ SkippedOnlyIfFailed
    /\ \A p \in MailPods : RoundCovered(p)

(* The window takes mails of the search only, and none without the older ones *)
LEMMA WindowIsOldest ==
    ASSUME NEW S \in SUBSET Uids
    PROVE  /\ SelectUIDWindow(S) \subseteq S
           /\ \A t \in SelectUIDWindow(S), u \in S : u < t => u \in SelectUIDWindow(S)
<1>1. SUFFICES ASSUME NEW t \in SelectUIDWindow(S), NEW u \in S, u < t
               PROVE  u \in SelectUIDWindow(S)
  BY DEF SelectUIDWindow
<1> DEFINE below(x) == {v \in S : v < x}
<1>2. S \subseteq 1 .. MaxUid /\ MaxUid \in Nat /\ t \in Nat /\ u \in Nat
  BY MailAssumption DEF Uids, SelectUIDWindow
<1>a. S \subseteq Nat
  BY <1>2
<1>3. IsFiniteSet(1 .. MaxUid)
  BY <1>2, FS_Interval
<1>4. IsFiniteSet(below(t))
  BY <1>2, <1>3, FS_Subset
<1>5. below(u) \subseteq below(t)
  <2>1. ASSUME NEW v \in S, v < u PROVE v < t
    BY <1>1, <1>2, <1>a, <2>1
  <2> QED
    BY <2>1
<1>6. IsFiniteSet(below(u)) /\ Cardinality(below(u)) <= Cardinality(below(t))
  BY <1>4, <1>5, FS_Subset
<1>7. Cardinality(below(u)) \in Nat /\ Cardinality(below(t)) \in Nat
  BY <1>4, <1>6, FS_CardinalityType
<1>8. Cardinality(below(t)) < UidWindow
  BY DEF SelectUIDWindow
<1>9. Cardinality(below(u)) < UidWindow
  BY <1>6, <1>7, <1>8, MailAssumption
<1> QED
  BY <1>9 DEF SelectUIDWindow

(* A handled mail stays handled. *)
LEMMA HandledStays ==
    ASSUME MailTypeOK, [MailNext]_mailVars, NEW u \in Uids, Handled(u)
    PROVE  Handled(u)'
<1> USE DEF Handled, IsStored, MailTypeOK
<1>1. CASE UNCHANGED <<mailRows, insertFailed>>
  BY <1>1
<1>2. ASSUME NEW p \in MailPods, NEW v \in Uids, InsertEmail(p, v)
      PROVE  Handled(u)'
  BY <1>2 DEF InsertEmail, Inserted
<1>3. ASSUME NEW p \in MailPods, NEW v \in Uids, InsertFails(p, v)
      PROVE  Handled(u)'
  BY <1>3 DEF InsertFails
<1> QED
  BY <1>1, <1>2, <1>3 DEF MailNext, RoundStep, MailArrives, StartRound, RefuseIMAP, AbortRound,
     SearchIMAP, ListPOP3, EndInserts, MarkSeen, UpdateSyncState, mailVars

(* Each action leads a round to a round. *)
LEMMA RoundType ==
    ASSUME MailTypeOK, NEW p \in MailPods, NEW r \in MailRound, Goto(p, r)
    PROVE  /\ round' \in [MailPods -> MailRound]
           /\ round'[p] = r
           /\ \A q \in MailPods \ {p} : round'[q] = round[q]
BY DEF MailTypeOK, Goto

LEMMA NoRoundType == NoRound \in MailRound
BY MailAssumption DEF NoRound, MailRound

LEMMA StartType ==
    ASSUME NEW n \in 0 .. MaxUid
    PROVE  [NoRound EXCEPT !.pc = "imap", !.from = n, !.high = n] \in MailRound
BY DEF NoRound, MailRound

LEMMA PcType ==
    ASSUME NEW r \in MailRound, NEW pc \in {"pop3", "inserting", "marking", "stamping"}
    PROVE  /\ [r EXCEPT !.pc = pc] \in MailRound
           /\ [r EXCEPT !.pc = pc, !.path = "pop3"] \in MailRound
           /\ \A s \in SUBSET Uids : [r EXCEPT !.pc = pc, !.todo = s] \in MailRound
BY DEF MailRound

LEMMA TodoType ==
    ASSUME NEW r \in MailRound, NEW s \in SUBSET Uids
    PROVE  [r EXCEPT !.todo = s] \in MailRound
BY DEF MailRound

LEMMA InsertType ==
    ASSUME NEW r \in MailRound, NEW s \in SUBSET Uids, NEW g \in SUBSET Uids,
           NEW h \in 0 .. MaxUid
    PROVE  [r EXCEPT !.todo = s, !.got = g, !.high = h] \in MailRound
BY DEF MailRound

LEMMA MailTypeStep == MailTypeOK /\ [MailNext]_mailVars => MailTypeOK'
<1> SUFFICES ASSUME MailTypeOK, [MailNext]_mailVars PROVE MailTypeOK'
  OBVIOUS
<1>0. /\ round \in [MailPods -> MailRound] /\ lastSyncedUid \in 0 .. MaxUid
      /\ mailRows \in [Uids -> SUBSET {"imap", "pop3"}]
      /\ arrived \in 0 .. MaxUid /\ MaxUid \in Nat /\ MailFaults \in Nat
  BY MailAssumption DEF MailTypeOK
<1>1. CASE MailArrives
  BY <1>1, MailAssumption DEF MailArrives, MailTypeOK
<1>2. ASSUME NEW p \in MailPods, StartRound(p) PROVE MailTypeOK'
  BY <1>2, <1>0, RoundType, StartType DEF StartRound, MailTypeOK
<1>3. ASSUME NEW p \in MailPods, RefuseIMAP(p) PROVE MailTypeOK'
  BY <1>3, <1>0, RoundType, PcType DEF RefuseIMAP, MailTypeOK
<1>4. ASSUME NEW p \in MailPods, AbortRound(p) PROVE MailTypeOK'
  BY <1>4, <1>0, RoundType, NoRoundType DEF AbortRound, MailTypeOK, MailFault
<1>5. ASSUME NEW p \in MailPods, SearchIMAP(p) PROVE MailTypeOK'
  <2> DEFINE new == {u \in Uids : InMailbox(u) /\ u > round[p].from}
  <2>1. SelectUIDWindow(new) \subseteq Uids
    BY WindowIsOldest
  <2>2. [round[p] EXCEPT !.pc = IF new = {} THEN "stamping" ELSE "inserting",
                         !.todo = SelectUIDWindow(new)] \in MailRound
    BY <2>1, <1>0, PcType
  <2>3. round' \in [MailPods -> MailRound]
    BY <1>5, <2>2, RoundType DEF SearchIMAP
  <2> QED
    BY <1>5, <2>3 DEF SearchIMAP, MailTypeOK
<1>6. ASSUME NEW p \in MailPods, ListPOP3(p) PROVE MailTypeOK'
  <2>1. PICK fetched \in SUBSET Uids :
           Goto(p, [round[p] EXCEPT !.pc = IF fetched = {} THEN "stamping" ELSE "inserting",
                                    !.todo = fetched])
    BY <1>6 DEF ListPOP3
  <2>2. [round[p] EXCEPT !.pc = IF fetched = {} THEN "stamping" ELSE "inserting",
                         !.todo = fetched] \in MailRound
    BY <1>0, PcType
  <2>3. round' \in [MailPods -> MailRound]
    BY <2>1, <2>2, RoundType
  <2> QED
    BY <1>6, <1>0, <2>3 DEF ListPOP3, MailTypeOK, MailFault
<1>7. ASSUME NEW p \in MailPods, NEW u \in Uids, InsertEmail(p, u) PROVE MailTypeOK'
  <2> DEFINE s == round[p].todo \ {u}
             g == round[p].got \cup {u}
             h == IF round[p].path = "imap" /\ u > round[p].high THEN u ELSE round[p].high
  <2>r. round[p] \in MailRound
    BY <1>0
  <2>2. round[p].path \in {"imap", "pop3"}
    BY <2>r DEF MailRound
  <2>f. s \in SUBSET Uids /\ g \in SUBSET Uids
    BY <2>r DEF MailRound
  <2>h. h \in 0 .. MaxUid
    <3>1. u \in 0 .. MaxUid /\ round[p].high \in 0 .. MaxUid
      BY <2>r, <1>0 DEF MailRound, Uids
    <3> QED
      BY <3>1
  <2>g. Goto(p, [round[p] EXCEPT !.todo = s, !.got = g, !.high = h])
    BY <1>7 DEF InsertEmail
  <2> HIDE DEF s, g, h
  <2>1. round' \in [MailPods -> MailRound]
    BY <2>r, <2>f, <2>h, <2>g, InsertType, RoundType
  <2>3. Inserted(mailRows[u], u, round[p].path) \in SUBSET {"imap", "pop3"}
    BY <2>2, <1>0 DEF Inserted
  <2>4. mailRows' = [mailRows EXCEPT ![u] = Inserted(mailRows[u], u, round[p].path)]
    BY <1>7 DEF InsertEmail
  <2>5. mailRows' \in [Uids -> SUBSET {"imap", "pop3"}]
    BY <2>3, <2>4, <1>0
  <2> QED
    BY <1>7, <2>1, <2>5 DEF InsertEmail, MailTypeOK
<1>8. ASSUME NEW p \in MailPods, NEW u \in Uids, InsertFails(p, u) PROVE MailTypeOK'
  <2>1. round[p] \in MailRound /\ round[p].todo \ {u} \in SUBSET Uids
    BY <1>0 DEF MailRound
  <2>2. round' \in [MailPods -> MailRound]
    BY <1>8, <2>1, TodoType, RoundType DEF InsertFails
  <2> QED
    BY <1>8, <1>0, <2>2 DEF InsertFails, MailTypeOK, MailFault
<1>9. ASSUME NEW p \in MailPods, EndInserts(p) PROVE MailTypeOK'
  BY <1>9, <1>0, PcType, RoundType DEF EndInserts, MailTypeOK
<1>10. ASSUME NEW p \in MailPods, MarkSeen(p) PROVE MailTypeOK'
  <2>1. round' \in [MailPods -> MailRound]
    BY <1>10, <1>0, PcType, RoundType DEF MarkSeen
  <2>2. round[p].got \subseteq Uids
    BY <1>0 DEF MailRound
  <2> QED
    BY <1>10, <1>0, <2>1, <2>2 DEF MarkSeen, MailTypeOK, MailFault
<1>11. ASSUME NEW p \in MailPods, UpdateSyncState(p) PROVE MailTypeOK'
  <2>1. round[p].high \in 0 .. MaxUid
    BY <1>0 DEF MailRound
  <2> QED
    BY <1>11, <1>0, <2>1, NoRoundType, RoundType DEF UpdateSyncState, MailTypeOK, MailFault
<1>12. CASE UNCHANGED mailVars
  BY <1>12 DEF mailVars, MailTypeOK
<1> QED
  BY <1>1, <1>2, <1>3, <1>4, <1>5, <1>6, <1>7, <1>8, <1>9, <1>10, <1>11, <1>12
     DEF MailNext, RoundStep

(* A round that did not move stays covered. *)
LEMMA OtherRoundCovered ==
    ASSUME MailTypeOK, [MailNext]_mailVars, NEW q \in MailPods, RoundCovered(q),
           round'[q] = round[q]
    PROVE  RoundCovered(q)'
<1>1. \A u \in Uids : Handled(u) => Handled(u)'
  BY HandledStays
<1>2. round[q].got \subseteq Uids /\ round[q].todo \subseteq Uids
  BY DEF MailTypeOK, MailRound
<1> QED
  BY <1>1, <1>2 DEF RoundCovered

(* A round without work is covered by the mails below what the account says. *)
LEMMA FreshRoundCovered ==
    ASSUME MailTypeOK, NEW q \in MailPods, round[q] = NoRound
    PROVE  RoundCovered(q)
BY MailAssumption DEF RoundCovered, NoRound, Uids

(* Where Goto leads. *)
LEMMA GotoIsThere ==
    ASSUME MailTypeOK, NEW p \in MailPods, NEW r, Goto(p, r)
    PROVE  round'[p] = r /\ \A q \in MailPods \ {p} : round'[q] = round[q]
BY DEF MailTypeOK, Goto

(* The fields of the records that the actions build. *)
LEMMA StartFields ==
    ASSUME NEW n
    PROVE  LET r == [NoRound EXCEPT !.pc = "imap", !.from = n, !.high = n]
           IN  /\ r.pc = "imap" /\ r.path = "imap" /\ r.from = n /\ r.high = n
               /\ r.todo = {} /\ r.got = {}
BY DEF NoRound

LEMMA NoRoundFields ==
    /\ NoRound.pc = "idle" /\ NoRound.path = "imap" /\ NoRound.from = 0 /\ NoRound.high = 0
    /\ NoRound.todo = {} /\ NoRound.got = {}
BY DEF NoRound

LEMMA RefuseFields ==
    ASSUME NEW r \in MailRound
    PROVE  LET n == [r EXCEPT !.pc = "pop3", !.path = "pop3"]
           IN  /\ n.pc = "pop3" /\ n.path = "pop3" /\ n.from = r.from /\ n.high = r.high
               /\ n.todo = r.todo /\ n.got = r.got
BY DEF MailRound

LEMMA ListFields ==
    ASSUME NEW r \in MailRound, NEW a, NEW s
    PROVE  LET n == [r EXCEPT !.pc = a, !.todo = s]
           IN  /\ n.pc = a /\ n.path = r.path /\ n.from = r.from /\ n.high = r.high
               /\ n.todo = s /\ n.got = r.got
BY DEF MailRound

LEMMA PcFields ==
    ASSUME NEW r \in MailRound, NEW a
    PROVE  LET n == [r EXCEPT !.pc = a]
           IN  /\ n.pc = a /\ n.path = r.path /\ n.from = r.from /\ n.high = r.high
               /\ n.todo = r.todo /\ n.got = r.got
BY DEF MailRound

LEMMA InsertFields ==
    ASSUME NEW r \in MailRound, NEW s, NEW g, NEW h
    PROVE  LET n == [r EXCEPT !.todo = s, !.got = g, !.high = h]
           IN  /\ n.pc = r.pc /\ n.path = r.path /\ n.from = r.from /\ n.high = h
               /\ n.todo = s /\ n.got = g
BY DEF MailRound

LEMMA FailFields ==
    ASSUME NEW r \in MailRound, NEW s
    PROVE  LET n == [r EXCEPT !.todo = s]
           IN  /\ n.pc = r.pc /\ n.path = r.path /\ n.from = r.from /\ n.high = r.high
               /\ n.todo = s /\ n.got = r.got
BY DEF MailRound

(* Each action keeps every round covered. *)
LEMMA RoundsStep ==
    ASSUME MailIInv, MailNext, NEW q \in MailPods
    PROVE  RoundCovered(q)'
<1> USE DEF MailIInv
<1>0. \A u \in Uids : Handled(u) => Handled(u)'
  BY HandledStays
<1>r. /\ RoundCovered(q) /\ round[q] \in MailRound /\ MailTypeOK
      /\ round[q].got \subseteq Uids /\ round[q].todo \subseteq Uids
  BY DEF MailTypeOK, MailRound
<1>m. MaxUid \in Nat /\ Uids = 1 .. MaxUid
  BY MailAssumption DEF Uids
<1>o. CASE round'[q] = round[q]
  BY <1>o, OtherRoundCovered
<1>n. CASE round'[q] = NoRound
  BY <1>n, <1>m, NoRoundFields DEF RoundCovered
<1>1. CASE StartRound(q)
  <2>1. round'[q] = [NoRound EXCEPT !.pc = "imap", !.from = lastSyncedUid,
                                    !.high = lastSyncedUid]
    BY <1>1, GotoIsThere DEF StartRound
  <2>2. \A u \in Uids : u <= lastSyncedUid => Handled(u)
    BY DEF SkippedOnlyIfFailed, Handled
  <2> QED
    BY <2>1, <2>2, <1>0, StartFields DEF RoundCovered
<1>2. CASE RefuseIMAP(q)
  <2>1. round[q].pc = "imap" /\ round'[q] = [round[q] EXCEPT !.pc = "pop3", !.path = "pop3"]
    BY <1>2, GotoIsThere DEF RefuseIMAP
  <2> QED
    BY <2>1, <1>0, <1>r, RefuseFields DEF RoundCovered
<1>3. CASE SearchIMAP(q)
  <2> DEFINE new == {u \in Uids : InMailbox(u) /\ u > round[q].from}
             a   == IF new = {} THEN "stamping" ELSE "inserting"
  <2>1. round[q].pc = "imap" /\ round'[q] = [round[q] EXCEPT !.pc = a,
                                     !.todo = SelectUIDWindow(new)]
    BY <1>3, GotoIsThere DEF SearchIMAP
  <2>2. ASSUME NEW t \in SelectUIDWindow(new), NEW u \in Uids, u < t, ~Handled(u)
        PROVE  u \in SelectUIDWindow(new)
    <3>1. t \in new
      BY WindowIsOldest
    <3>2. round[q].from \in Nat /\ arrived \in Nat /\ u \in Nat /\ t \in Nat
      BY <1>m, <1>r, <3>1 DEF MailTypeOK, MailRound
    <3>3. ~(u <= round[q].from)
      BY <2>2, <1>r DEF RoundCovered
    <3>4. u \in new
      BY <3>1, <3>2, <3>3, <2>2 DEF InMailbox
    <3> QED
      BY <3>4, <2>2, WindowIsOldest
  <2>3. SelectUIDWindow(new) \subseteq Uids
    BY WindowIsOldest
  <2> HIDE DEF new, a
  <2>4. /\ round'[q].path = "imap" /\ round'[q].from = round[q].from
        /\ round'[q].high = round[q].high /\ round'[q].todo = SelectUIDWindow(new)
        /\ round'[q].got = round[q].got /\ round'[q].pc = a
    BY <2>1, <1>r, ListFields DEF RoundCovered
  <2>5. a \notin {"imap", "pop3"}
    BY DEF a
  <2> QED
    BY <2>1, <2>2, <2>3, <2>4, <2>5, <1>0, <1>r DEF RoundCovered
<1>4. CASE ListPOP3(q)
  <2>1. PICK s \in SUBSET Uids :
           /\ round[q].pc = "pop3"
           /\ round'[q] = [round[q] EXCEPT
                 !.pc = IF s = {} THEN "stamping" ELSE "inserting", !.todo = s]
    BY <1>4, GotoIsThere DEF ListPOP3
  <2>2. /\ round'[q].path = "pop3" /\ round'[q].from = round[q].from
        /\ round'[q].high = round[q].high /\ round'[q].got = round[q].got
        /\ round'[q].pc \notin {"imap", "pop3"}
    BY <2>1, <1>r, ListFields DEF RoundCovered
  <2> QED
    BY <2>1, <2>2, <1>0, <1>r DEF RoundCovered
<1>5. ASSUME NEW v \in Uids, InsertEmail(q, v) PROVE RoundCovered(q)'
  <2> DEFINE h == IF round[q].path = "imap" /\ v > round[q].high THEN v ELSE round[q].high
  <2>1. /\ round[q].pc = "inserting" /\ v \in round[q].todo
        /\ round'[q] = [round[q] EXCEPT !.todo = round[q].todo \ {v},
                              !.got = round[q].got \cup {v}, !.high = h]
    BY <1>5, <1>r, GotoIsThere DEF InsertEmail
  <2>2. Handled(v)'
    BY <1>5, <1>r DEF InsertEmail, Inserted, Handled, IsStored, MailTypeOK
  <2>h. round[q].high \in Nat /\ v \in Nat
    BY <1>m, <1>r DEF MailRound
  <2>3. ASSUME NEW u \in Uids, u <= h
        PROVE  Handled(u)' \/ (round[q].path = "imap" /\ u \in round[q].todo \ {v})
    <3>1. u \in Nat
      BY <1>m
    <3>2. CASE u <= round[q].high
      BY <3>2, <2>2, <1>0, <1>r DEF RoundCovered
    <3>3. CASE ~(u <= round[q].high)
      <4>1. round[q].path = "imap" /\ h = v
        BY <3>3, <2>3
      <4>2. u < v \/ u = v
        BY <4>1, <3>1, <2>h, <2>3
      <4> QED
        BY <4>1, <4>2, <2>1, <2>2, <1>0, <1>r DEF RoundCovered
    <3> QED
      BY <3>2, <3>3
  <2> HIDE DEF h
  <2>4. /\ round'[q].path = round[q].path /\ round'[q].from = round[q].from
        /\ round'[q].high = h /\ round'[q].got = round[q].got \cup {v}
        /\ round'[q].todo = round[q].todo \ {v} /\ round'[q].pc = "inserting"
    BY <2>1, <1>r, InsertFields
  <2> QED
    BY <2>2, <2>3, <2>4, <2>1, <1>0, <1>r DEF RoundCovered
<1>6. ASSUME NEW v \in Uids, InsertFails(q, v) PROVE RoundCovered(q)'
  <2>1. /\ round[q].pc = "inserting" /\ v \in round[q].todo
        /\ round'[q] = [round[q] EXCEPT !.todo = round[q].todo \ {v}]
    BY <1>6, <1>r, GotoIsThere DEF InsertFails
  <2>2. Handled(v)'
    BY <1>6 DEF InsertFails, Handled
  <2>3. /\ round'[q].path = round[q].path /\ round'[q].from = round[q].from
        /\ round'[q].high = round[q].high /\ round'[q].got = round[q].got
        /\ round'[q].todo = round[q].todo \ {v} /\ round'[q].pc = "inserting"
    BY <2>1, <1>r, FailFields
  <2> QED
    BY <2>1, <2>2, <2>3, <1>0, <1>r DEF RoundCovered
<1>7. ASSUME NEW a \in {"marking", "stamping"},
             round'[q] = [round[q] EXCEPT !.pc = a],
             round[q].pc = "inserting" => round[q].todo = {}
      PROVE  RoundCovered(q)'
  <2>1. /\ round'[q].path = round[q].path /\ round'[q].from = round[q].from
        /\ round'[q].high = round[q].high /\ round'[q].got = round[q].got
        /\ round'[q].pc = a
    BY <1>7, <1>r, PcFields
  <2> QED
    BY <2>1, <1>7, <1>0, <1>r DEF RoundCovered
<1>8. CASE EndInserts(q)
  BY <1>8, <1>7, GotoIsThere DEF EndInserts
<1>9. CASE MarkSeen(q)
  BY <1>9, <1>7, GotoIsThere DEF MarkSeen
<1>10. CASE UpdateSyncState(q) \/ AbortRound(q)
  BY <1>10, <1>n, GotoIsThere DEF UpdateSyncState, AbortRound
<1>11. CASE MailArrives
  BY <1>11, <1>o DEF MailArrives
<1>12. ASSUME NEW p \in MailPods \ {q}, NEW r, Goto(p, r) PROVE RoundCovered(q)'
  BY <1>12, <1>o, GotoIsThere
<1>13. ASSUME NEW p \in MailPods \ {q},
              \/ StartRound(p) \/ RoundStep(p) \/ RefuseIMAP(p) \/ AbortRound(p)
              \/ \E u \in Uids : InsertFails(p, u)
       PROVE  RoundCovered(q)'
  BY <1>13, <1>12 DEF StartRound, RoundStep, RefuseIMAP, AbortRound, InsertFails, SearchIMAP,
     ListPOP3, EndInserts, MarkSeen, UpdateSyncState, InsertEmail
<1> QED
  BY <1>1, <1>2, <1>3, <1>4, <1>5, <1>6, <1>8, <1>9, <1>10, <1>11, <1>13
     DEF MailNext, RoundStep

(* What the account and the seen set say stays true: only what a round has   *)
(* handled is written there.                                                 *)
LEMMA SkippedStep ==
    ASSUME MailIInv, MailNext
    PROVE  SkippedOnlyIfFailed'
<1> USE DEF MailIInv
<1>0. \A u \in Uids : Handled(u) => Handled(u)'
  BY HandledStays
<1>1. SUFFICES ASSUME NEW u \in Uids, u <= lastSyncedUid' \/ u \in seenUidls'
               PROVE  Handled(u)'
  BY DEF SkippedOnlyIfFailed, Handled
<1>2. u <= lastSyncedUid \/ u \in seenUidls => Handled(u)
  BY DEF SkippedOnlyIfFailed, Handled
<1>3. CASE UNCHANGED <<lastSyncedUid, seenUidls>>
  BY <1>0, <1>1, <1>2, <1>3
<1>4. ASSUME NEW p \in MailPods, MarkSeen(p) PROVE Handled(u)'
  <2>1. seenUidls' \in {seenUidls, seenUidls \cup round[p].got} /\ lastSyncedUid' = lastSyncedUid
    BY <1>4 DEF MarkSeen
  <2> QED
    BY <2>1, <1>0, <1>1, <1>2 DEF RoundCovered
<1>5. ASSUME NEW p \in MailPods, UpdateSyncState(p) PROVE Handled(u)'
  <2>1. lastSyncedUid' \in {lastSyncedUid, round[p].high} /\ seenUidls' = seenUidls
        /\ round[p].pc = "stamping"
    BY <1>5 DEF UpdateSyncState
  <2> QED
    BY <2>1, <1>0, <1>1, <1>2 DEF RoundCovered
<1> QED
  BY <1>3, <1>4, <1>5 DEF MailNext, RoundStep, MailArrives, StartRound, RefuseIMAP, AbortRound,
     InsertFails, SearchIMAP, ListPOP3, EndInserts, InsertEmail

LEMMA MailStart == MailInit => MailIInv
<1> SUFFICES ASSUME MailInit PROVE MailIInv
  OBVIOUS
<1>1. MailTypeOK
  BY MailAssumption, NoRoundType DEF MailInit, MailTypeOK
<1>2. SkippedOnlyIfFailed
  BY MailAssumption DEF MailInit, SkippedOnlyIfFailed, Uids
<1>3. ASSUME NEW p \in MailPods PROVE RoundCovered(p)
  BY <1>1, FreshRoundCovered DEF MailInit
<1> QED
  BY <1>1, <1>2, <1>3 DEF MailIInv

LEMMA MailStep == MailIInv /\ [MailNext]_mailVars => MailIInv'
<1> SUFFICES ASSUME MailIInv, [MailNext]_mailVars PROVE MailIInv'
  OBVIOUS
<1>1. CASE MailNext
  BY <1>1, MailTypeStep, SkippedStep, RoundsStep DEF MailIInv
<1>2. CASE UNCHANGED mailVars
  <2>1. MailTypeOK' /\ \A p \in MailPods : RoundCovered(p)'
    BY <1>2, MailTypeStep, OtherRoundCovered DEF MailIInv, mailVars
  <2> QED
    BY <1>2, <2>1 DEF MailIInv, mailVars, SkippedOnlyIfFailed, IsStored
<1> QED
  BY <1>1, <1>2

(* Whatever rounds of any number of processes overlap, fall back or are cut  *)
(* off: a mail that no later round looks for is stored, or its insert failed *)
(* (fetcher.go, Sync and selectUIDWindow).                                   *)
THEOREM NothingSkipped == MailSpec => []SkippedOnlyIfFailed
<1>1. MailIInv => SkippedOnlyIfFailed
  BY DEF MailIInv
<1> QED
  BY <1>1, MailStart, MailStep, PTL DEF MailSpec

(* The columns and the rounds keep their types.                              *)
THEOREM MailTypeCorrect == MailSpec => []MailTypeOK
<1>1. MailIInv => MailTypeOK
  BY DEF MailIInv
<1> QED
  BY <1>1, MailStart, MailStep, PTL DEF MailSpec

(* An insert fails only by a fault.                                          *)
FailedByFault == insertFailed # {} => mailFaults > 0

LEMMA FailedStep == MailTypeOK /\ FailedByFault /\ [MailNext]_mailVars => FailedByFault'
<1> SUFFICES ASSUME MailTypeOK, FailedByFault, [MailNext]_mailVars PROVE FailedByFault'
  OBVIOUS
<1>1. mailFaults \in Nat
  BY MailAssumption DEF MailTypeOK
<1>2. \/ UNCHANGED insertFailed /\ (UNCHANGED mailFaults \/ MailFault)
      \/ MailFault
  BY DEF MailNext, RoundStep, MailArrives, StartRound, RefuseIMAP, AbortRound, InsertFails,
     SearchIMAP, ListPOP3, EndInserts, InsertEmail, MarkSeen, UpdateSyncState, mailVars
<1> QED
  BY <1>1, <1>2 DEF MailFault, FailedByFault

(* What the comments of the window claim holds as long as nothing failed:    *)
(* rounds of any number of processes that overlap, fall back to POP3 and     *)
(* write old uids back leave no mail behind (fetcher.go, selectUIDWindow).   *)
THEOREM NeverSkippedWithoutFaults == MailSpec => [](mailFaults = 0 => NeverSkipped)
<1>1. MailInit => FailedByFault
  BY DEF MailInit, FailedByFault
<1>2. MailIInv /\ FailedByFault /\ [MailNext]_mailVars => FailedByFault'
  BY FailedStep DEF MailIInv
<1>3. MailIInv /\ FailedByFault => (mailFaults = 0 => NeverSkipped)
  BY DEF MailIInv, FailedByFault, NeverSkipped, SkippedOnlyIfFailed
<1> QED
  BY <1>1, <1>2, <1>3, MailStart, MailStep, PTL DEF MailSpec
=============================================================================

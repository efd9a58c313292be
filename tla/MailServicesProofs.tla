------------------------- MODULE MailServicesProofs -------------------------
(* Proofs about the services around the mail: replies, action intents,       *)
(* pipeline rounds and verification codes, for any number of processes,      *)
(* mails and requests and any faults.                                        *)
EXTENDS VacationReplies, ActionIntents, MailPipeline, EmailCodes,
        FiniteSetTheorems, TLAPS
-----------------------------------------------------------------------------
(* VacationReplies *)

DeliveryRow == [status : {"none", "claimed", "sent", "failed"},
                claimed : 0 .. Day, updated : 0 .. Day]

(* The part of the type invariant that the ages of deliveries need.          *)
VacRows == delivery \in [Letters -> DeliveryRow]

LEMMA OlderType == ASSUME NEW a \in 0 .. Day PROVE Older(a) \in 0 .. Day /\ a <= Older(a)
BY VacAssumption DEF Older

(* Rows that do not become new claims of a sender keep the rule.             *)
LEMMA OneReplyKept ==
    ASSUME OneReplyADay, VacRows, VacRows',
           \A e \in Letters : TakesPart(delivery'[e]) => TakesPart(delivery[e])
    PROVE  OneReplyADay'
BY DEF OneReplyADay, TakesPart

(* A mark leaves the age of the claim alone.                                 *)
LEMMA MarkKeeps ==
    ASSUME OneReplyADay, VacRows, NEW e \in Letters, NEW m \in {"sent", "failed"}, Mark(e, m)
    PROVE  VacRows' /\ OneReplyADay'
<1> USE DEF VacRows
<1>1. CASE UNCHANGED delivery
  BY <1>1 DEF OneReplyADay
<1>2. CASE delivery[e].status = "claimed"
  <2> DEFINE row == [[delivery[e] EXCEPT !.status = m] EXCEPT !.updated = 0]
  <2>1. delivery' = [delivery EXCEPT ![e] = row]
    BY <1>2 DEF Mark
  <2>r. delivery[e] \in DeliveryRow
    OBVIOUS
  <2>2. row \in DeliveryRow /\ row.claimed = delivery[e].claimed
    <3> DEFINE a == [delivery[e] EXCEPT !.status = m]
    <3>1. a \in DeliveryRow /\ a.claimed = delivery[e].claimed
      BY <2>r DEF DeliveryRow
    <3>2. row = [a EXCEPT !.updated = 0] /\ 0 \in 0 .. Day
      BY VacAssumption
    <3> HIDE DEF a, row
    <3> QED
      BY <3>1, <3>2 DEF DeliveryRow
  <2> HIDE DEF row
  <2>3. VacRows'
    BY <2>1, <2>2
  <2>4. TakesPart(row) => TakesPart(delivery[e])
    BY <2>2, <1>2 DEF TakesPart
  <2>5. \A d \in Letters : TakesPart(delivery'[d]) => TakesPart(delivery[d])
    BY <2>1, <2>4
  <2> QED
    BY <2>3, <2>5, OneReplyKept
<1> QED
  BY <1>1, <1>2 DEF Mark

(* A claim is made where nobody takes part for the sender.                   *)
LEMMA ClaimKeeps ==
    ASSUME OneReplyADay, VacRows, NEW p \in Senders, chosen[p] \in Letters, ClaimDelivery(p)
    PROVE  VacRows' /\ OneReplyADay'
<1> USE DEF VacRows
<1> DEFINE e   == chosen[p]
           row == [status |-> "claimed", claimed |-> 0, updated |-> 0]
<1>1. CASE UNCHANGED delivery
  BY <1>1 DEF OneReplyADay
<1>2. CASE delivery' = [delivery EXCEPT ![e] = row] /\ ~RecentlyClaimed(e)
  <2>1. row \in DeliveryRow
    BY VacAssumption DEF DeliveryRow
  <2>2. VacRows'
    BY <1>2, <2>1
  <2>3. \A d \in Letters \ {e} : delivery'[d] = delivery[d]
    BY <1>2
  <2>4. \A d \in Letters : RecipientOf[d] = RecipientOf[e] => ~TakesPart(delivery[d])
    BY <1>2 DEF RecentlyClaimed
  <2>5. ASSUME NEW c \in Letters, NEW d \in Letters, RecipientOf[c] = RecipientOf[d],
               TakesPart(delivery'[c]), TakesPart(delivery'[d])
        PROVE  c = d
    BY <2>3, <2>4, <2>5 DEF OneReplyADay
  <2> QED
    BY <2>2, <2>5 DEF OneReplyADay, TakesPart
<1> QED
  BY <1>1, <1>2 DEF ClaimDelivery

(* Time ends the part that a delivery takes, and starts none.                *)
LEMMA TickKeeps ==
    ASSUME OneReplyADay, VacRows, VacTick
    PROVE  VacRows' /\ OneReplyADay'
<1> USE DEF VacRows
<1> DEFINE row(e) == [delivery[e] EXCEPT !.claimed = Older(@), !.updated = Older(@)]
<1>1. delivery' = [e \in Letters |-> row(e)]
  BY DEF VacTick
<1>2. ASSUME NEW e \in Letters
      PROVE  /\ row(e) \in DeliveryRow /\ row(e).status = delivery[e].status
             /\ delivery[e].claimed <= row(e).claimed
             /\ delivery[e].claimed \in 0 .. Day /\ row(e).claimed \in 0 .. Day
  <2>1. /\ delivery[e] \in DeliveryRow
        /\ delivery[e].claimed \in 0 .. Day /\ delivery[e].updated \in 0 .. Day
    BY DEF DeliveryRow
  <2> QED
    BY <2>1, OlderType DEF DeliveryRow
<1> HIDE DEF row
<1>3. VacRows'
  BY <1>1, <1>2
<1>4. ASSUME NEW e \in Letters, TakesPart(delivery'[e]) PROVE TakesPart(delivery[e])
  BY <1>1, <1>2, <1>4, VacAssumption DEF TakesPart
<1> QED
  BY <1>3, <1>4, OneReplyKept

VacIInv ==
    /\ VacRows
    /\ chosen \in [Senders -> Letters \cup {Nobody}]
    /\ sending \in [Senders -> Letters \cup {Nobody}]
    /\ OneReplyADay

LEMMA VacInitial == VacInit => VacIInv
<1> SUFFICES ASSUME VacInit PROVE VacIInv
  OBVIOUS
<1>1. NoDelivery \in DeliveryRow /\ ~TakesPart(NoDelivery)
  BY VacAssumption DEF NoDelivery, DeliveryRow, TakesPart
<1> QED
  BY <1>1 DEF VacInit, VacIInv, VacRows, OneReplyADay

LEMMA VacStep == VacIInv /\ [VacNext]_vacVars => VacIInv'
<1> SUFFICES ASSUME VacIInv, [VacNext]_vacVars PROVE VacIInv'
  OBVIOUS
<1> USE DEF VacIInv
<1>1. CASE UNCHANGED vacVars \/ LetterArrives
  BY <1>1 DEF LetterArrives, vacVars, VacRows, OneReplyADay
<1>2. CASE VacTick
  BY <1>2, TickKeeps DEF VacTick
<1>3. ASSUME NEW p \in Senders, ChooseLetter(p) PROVE VacIInv'
  BY <1>3 DEF ChooseLetter, IsCandidate, VacRows, OneReplyADay
<1>4. ASSUME NEW p \in Senders, ClaimDelivery(p) PROVE VacIInv'
  <2>1. chosen[p] \in Letters
    BY <1>4 DEF ClaimDelivery
  <2>2. VacRows' /\ OneReplyADay'
    BY <1>4, <2>1, ClaimKeeps
  <2> QED
    BY <1>4, <2>1, <2>2 DEF ClaimDelivery
<1>5. ASSUME NEW p \in Senders, ReplySent(p) \/ ReplyFails(p) PROVE VacIInv'
  <2>1. sending[p] \in Letters
    BY <1>5 DEF ReplySent, ReplyFails
  <2>2. \/ UNCHANGED delivery
        \/ \E m \in {"sent", "failed"} : Mark(sending[p], m)
    BY <1>5 DEF ReplySent, ReplyFails
  <2>3. VacRows' /\ OneReplyADay'
    BY <2>1, <2>2, MarkKeeps DEF VacRows, OneReplyADay
  <2> QED
    BY <1>5, <2>3 DEF ReplySent, ReplyFails
<1>6. ASSUME NEW p \in Senders, SenderCrash(p) PROVE VacIInv'
  BY <1>6 DEF SenderCrash, VacRows, OneReplyADay
<1> QED
  BY <1>1, <1>2, <1>3, <1>4, <1>5, <1>6 DEF VacNext, SenderStep

(* Whatever mails processes choose at a time, whatever is taken up again     *)
(* after a crash, a failure or a lost mark: two deliveries of a sender are   *)
(* never claimed within 24 hours (ClaimNextVacationDelivery).                *)
THEOREM OneReply == VacSpec => []OneReplyADay
<1>1. VacIInv => OneReplyADay
  BY DEF VacIInv
<1> QED
  BY <1>1, VacInitial, VacStep, PTL DEF VacSpec

(* What processes hold and answered came in.                                 *)
VacHeld ==
    /\ letters \subseteq Letters /\ replied \subseteq letters
    /\ \A p \in Senders : {chosen[p], sending[p]} \subseteq letters \cup {Nobody}
    /\ vacFaults \in 0 .. VacFaults

LEMMA VacFaultBound ==
    ASSUME vacFaults \in 0 .. VacFaults, VacFault \/ UNCHANGED vacFaults
    PROVE  vacFaults' \in 0 .. VacFaults
BY VacAssumption DEF VacFault

LEMMA VacHeldStep == VacIInv /\ VacHeld /\ [VacNext]_vacVars => VacHeld'
<1> SUFFICES ASSUME VacIInv, VacHeld, [VacNext]_vacVars PROVE VacHeld'
  OBVIOUS
<1> USE DEF VacIInv, VacHeld
<1>1. CASE UNCHANGED vacVars \/ LetterArrives \/ VacTick
  BY <1>1 DEF LetterArrives, VacTick, vacVars
<1>2. ASSUME NEW p \in Senders, ChooseLetter(p) PROVE VacHeld'
  BY <1>2 DEF ChooseLetter, IsCandidate
<1>3. ASSUME NEW p \in Senders, ClaimDelivery(p) PROVE VacHeld'
  BY <1>3 DEF ClaimDelivery
<1>4. ASSUME NEW p \in Senders, ReplySent(p) \/ ReplyFails(p) PROVE VacHeld'
  <2>1. vacFaults' \in 0 .. VacFaults
    BY <1>4, VacFaultBound DEF ReplySent, ReplyFails
  <2> QED
    BY <1>4, <2>1 DEF ReplySent, ReplyFails
<1>5. ASSUME NEW p \in Senders, SenderCrash(p) PROVE VacHeld'
  <2>1. vacFaults' \in 0 .. VacFaults
    BY <1>5, VacFaultBound DEF SenderCrash
  <2> QED
    BY <1>5, <2>1 DEF SenderCrash
<1> QED
  BY <1>1, <1>2, <1>3, <1>4, <1>5 DEF VacNext, SenderStep

(* Deliveries and processes keep their types.                                *)
THEOREM VacTypeCorrect == VacSpec => []VacTypeOK
<1>1. VacInit => VacHeld
  BY VacAssumption DEF VacInit, VacHeld
<1>2. VacIInv /\ VacHeld => VacTypeOK
  BY DEF VacIInv, VacHeld, VacTypeOK, VacRows, DeliveryRow
<1> QED
  BY <1>1, <1>2, VacInitial, VacStep, VacHeldStep, PTL DEF VacSpec
-----------------------------------------------------------------------------
(* EmailCodes *)

CodeIInv ==
    /\ usedCodes \subseteq Requests
    /\ verifying \in [Verifiers -> SUBSET Requests]
    /\ accepted = [c \in Requests |-> IF c \in usedCodes THEN 1 ELSE 0]

LEMMA CodeStep == CodeIInv /\ [CodeNext]_codeVars => CodeIInv'
<1> SUFFICES ASSUME CodeIInv, [CodeNext]_codeVars PROVE CodeIInv'
  OBVIOUS
<1> USE DEF CodeIInv
<1>1. CASE UNCHANGED codeVars \/ CodeTick \/ \E r \in Requests : CheckLimits(r) \/ InsertCode(r)
  BY <1>1 DEF codeVars, CodeTick, CheckLimits, InsertCode
<1>2. ASSUME NEW v \in Verifiers, NEW c \in Requests, FindCode(v, c) PROVE CodeIInv'
  BY <1>2 DEF FindCode
<1>3. ASSUME NEW v \in Verifiers, MarkUsed(v) PROVE CodeIInv'
  <2>1. ASSUME NEW c \in Requests
        PROVE  accepted'[c] = IF c \in usedCodes' THEN 1 ELSE 0
    <3> DEFINE fresh == (verifying[v] \ usedCodes) \cap {c}
    <3>1. /\ accepted'[c] = accepted[c] + Cardinality(fresh)
          /\ usedCodes' = usedCodes \cup verifying[v]
      BY <1>3 DEF MarkUsed
    <3>2. CASE c \in verifying[v] \ usedCodes
      <4>1. fresh = {c}
        BY <3>2
      <4>2. Cardinality(fresh) = 1
        BY <4>1, FS_Singleton
      <4> HIDE DEF fresh
      <4> QED
        BY <3>1, <3>2, <4>2
    <3>3. CASE c \notin verifying[v] \ usedCodes
      <4>1. fresh = {}
        BY <3>3
      <4>2. Cardinality(fresh) = 0
        BY <4>1, FS_EmptySet
      <4> HIDE DEF fresh
      <4> QED
        BY <3>1, <3>3, <4>2
    <3> QED
      BY <3>2, <3>3
  <2>2. accepted' = [c \in Requests |-> IF c \in usedCodes' THEN 1 ELSE 0]
    <3>1. accepted' = [c \in Requests |-> accepted'[c]]
      BY <1>3 DEF MarkUsed
    <3> QED
      BY <3>1, <2>1
  <2>3. usedCodes' \subseteq Requests /\ verifying' \in [Verifiers -> SUBSET Requests]
    BY <1>3 DEF MarkUsed
  <2> QED
    BY <2>2, <2>3
<1> QED
  BY <1>1, <1>2, <1>3 DEF CodeNext

(* However many requests present a code at once, the conditional update of   *)
(* Verify accepts it once (email_codes.go).                                  *)
THEOREM CodeAcceptedOnce == CodeSpec => []AcceptedOnce
<1>1. CodeInit => CodeIInv
  BY DEF CodeInit, CodeIInv
<1>2. CodeIInv => AcceptedOnce
  BY DEF CodeIInv, AcceptedOnce
<1> QED
  BY <1>1, <1>2, CodeStep, PTL DEF CodeSpec

(* What is found and used was sent.                                          *)
CodeSent ==
    /\ codeClock \in 0 .. CodeTime
    /\ sentAt \in [Requests -> 0 .. Unsent]
    /\ usedCodes \subseteq Codes
    /\ generating \in [Requests -> {"idle", "allowed", "refused", "sent"}]
    /\ verifying \in [Verifiers -> SUBSET Codes]

LEMMA CodeSentStep == CodeSent /\ [CodeNext]_codeVars => CodeSent'
<1> SUFFICES ASSUME CodeSent, [CodeNext]_codeVars PROVE CodeSent'
  OBVIOUS
<1> USE CodeAssumption DEF CodeSent
<1>s. CASE UNCHANGED sentAt
  <2>1. Codes' = Codes
    BY <1>s DEF Codes
  <2>2. CASE UNCHANGED codeVars \/ CodeTick
    BY <2>1, <2>2 DEF codeVars, CodeTick, Unsent
  <2>3. ASSUME NEW r \in Requests, CheckLimits(r) PROVE CodeSent'
    BY <2>1, <2>3 DEF CheckLimits, Unsent
  <2>4. ASSUME NEW v \in Verifiers, NEW c \in Requests, FindCode(v, c) PROVE CodeSent'
    BY <2>1, <2>4 DEF FindCode, Unsent
  <2>5. ASSUME NEW v \in Verifiers, MarkUsed(v) PROVE CodeSent'
    BY <2>1, <2>5 DEF MarkUsed, Unsent
  <2>6. ASSUME NEW r \in Requests, InsertCode(r) PROVE CodeSent'
    BY <1>s, <2>1, <2>6 DEF InsertCode, Unsent
  <2> QED
    BY <2>2, <2>3, <2>4, <2>5, <2>6 DEF CodeNext
<1>i. ASSUME NEW r \in Requests, InsertCode(r) PROVE CodeSent'
  <2>1. codeClock \in 0 .. Unsent /\ codeClock <= CodeTime
    BY DEF Unsent
  <2>2. sentAt' \in [Requests -> 0 .. Unsent] /\ UNCHANGED Unsent
    BY <1>i, <2>1 DEF InsertCode, Unsent
  <2>3. Codes \subseteq Codes'
    BY <1>i, <2>1 DEF InsertCode, Codes
  <2> QED
    BY <1>i, <2>2, <2>3 DEF InsertCode
<1> QED
  BY <1>s, <1>i DEF CodeNext, CodeTick, CheckLimits, FindCode, MarkUsed, codeVars

(* Codes and requests keep their types.                                      *)
THEOREM CodeTypeCorrect == CodeSpec => []CodeTypeOK
<1>1. CodeInit => CodeIInv /\ CodeSent
  BY CodeAssumption DEF CodeInit, CodeIInv, CodeSent, Codes, Unsent
<1>2. CodeIInv /\ CodeSent => CodeTypeOK
  BY DEF CodeIInv, CodeSent, CodeTypeOK
<1> QED
  BY <1>1, <1>2, CodeStep, CodeSentStep, PTL DEF CodeSpec
-----------------------------------------------------------------------------
(* MailPipeline *)

PipeRec == [step : Steps, locked : BOOLEAN, override : SUBSET BOOLEAN, former : BOOLEAN,
            todo : SUBSET Important, sent : SUBSET Important]

PipeRows ==
    /\ pipe \in [PipeRounds -> PipeRec]
    /\ pipelineMu \in [PipePods -> RoundKinds \cup {"free"}]
    /\ dryRun \in [PipePods -> BOOLEAN]
    /\ reminded \in [Important -> 0 .. 2]
    /\ due \subseteq Important

Inside == {"cleaning", "listing", "telling", "leaving"}

(* The switch is the configured one, or the one that the round inside wants. *)
SwitchKept ==
    /\ \A p \in PipePods : pipelineMu[p] = "free" => dryRun[p] = ConfiguredDry
    /\ \A r \in PipeRounds : pipe[r].step \in Inside =>
          /\ pipelineMu[r[1]] = r[2]
          /\ dryRun[r[1]] = WantsPreview(r)
          /\ pipe[r].former = ConfiguredDry

(* A round that has the advisory lock has it alone.                          *)
LockKept ==
    \A r \in PipeRounds :
        /\ pipe[r].locked => r[2] = "daily"
        /\ pipe[r].locked /\ pipe[r].step # "idle" => dailyLock = r[1]

HasMail(r, e) == e \in pipe[r].todo \/ e \in pipe[r].sent

(* A mail that was reminded of is marked, or about to be by the round that   *)
(* did it, unless two rounds have it or the mark was lost.                   *)
RemindKept ==
    /\ \A r \in PipeRounds : pipe[r].step # "telling" => pipe[r].todo = {} /\ pipe[r].sent = {}
    /\ \A r, q \in PipeRounds, e \in Important :
          r # q /\ HasMail(r, e) /\ HasMail(q, e) => e \in repeatable
    /\ \A r \in PipeRounds, e \in Important :
          e \in pipe[r].todo => reminded[e] = 0 \/ e \in repeatable
    /\ \A e \in Important : reminded[e] > 0 =>
          \/ e \in repeatable \/ e \in notified
          \/ \E q \in PipeRounds : e \in pipe[q].sent
    /\ RemindedOnce

PipeIInv == PipeRows /\ SwitchKept /\ LockKept /\ RemindKept /\ MovesOnlyIfAsked

LEMMA RoundParts ==
    /\ \A r \in PipeRounds : r[1] \in PipePods /\ r[2] \in RoundKinds /\ r = <<r[1], r[2]>>
    /\ \A r, q \in PipeRounds : r[1] = q[1] /\ r[2] = q[2] => r = q
    /\ \A p \in PipePods : <<p, "daily">> \in PipeRounds /\ <<p, "manual">> \in PipeRounds
BY DEF PipeRounds, RoundKinds

LEMMA NoPipeType ==
    /\ NoPipe \in PipeRec /\ NoPipe.step = "idle" /\ NoPipe.locked = FALSE
    /\ NoPipe.todo = {} /\ NoPipe.sent = {}
BY PipeAssumption DEF NoPipe, PipeRec, Steps

(* A round is replaced, the others stay.                                     *)
LEMMA Moved ==
    ASSUME pipe \in [PipeRounds -> PipeRec], NEW r \in PipeRounds, NEW n \in PipeRec,
           pipe' = [pipe EXCEPT ![r] = n]
    PROVE  /\ pipe' \in [PipeRounds -> PipeRec] /\ pipe'[r] = n
           /\ \A q \in PipeRounds \ {r} : pipe'[q] = pipe[q]
OBVIOUS

(* The fields of the records that the actions build.                         *)
LEMMA QueueFields ==
    ASSUME NEW l \in BOOLEAN, NEW o \in SUBSET BOOLEAN
    PROVE  LET n == [NoPipe EXCEPT !.step = "queued", !.locked = l, !.override = o]
           IN  /\ n \in PipeRec /\ n.step = "queued" /\ n.locked = l
               /\ n.todo = {} /\ n.sent = {}
BY PipeAssumption DEF NoPipe, PipeRec, Steps

LEMMA StepFields ==
    ASSUME NEW r \in PipeRec, NEW s \in Steps
    PROVE  LET n == [r EXCEPT !.step = s]
           IN  /\ n \in PipeRec /\ n.step = s /\ n.locked = r.locked
               /\ n.override = r.override /\ n.former = r.former
               /\ n.todo = r.todo /\ n.sent = r.sent
BY DEF PipeRec

LEMMA EnterFields ==
    ASSUME NEW r \in PipeRec, NEW f \in BOOLEAN
    PROVE  LET n == [r EXCEPT !.step = "cleaning", !.former = f]
           IN  /\ n \in PipeRec /\ n.step = "cleaning" /\ n.locked = r.locked
               /\ n.override = r.override /\ n.former = f
               /\ n.todo = r.todo /\ n.sent = r.sent
BY DEF PipeRec, Steps

LEMMA ListingFields ==
    ASSUME NEW r \in PipeRec, NEW t \in SUBSET Important
    PROVE  LET n == [r EXCEPT !.step = "telling", !.todo = t]
           IN  /\ n \in PipeRec /\ n.step = "telling" /\ n.locked = r.locked
               /\ n.override = r.override /\ n.former = r.former
               /\ n.todo = t /\ n.sent = r.sent
BY DEF PipeRec, Steps

LEMMA MarkFields ==
    ASSUME NEW r \in PipeRec
    PROVE  LET n == [r EXCEPT !.step = "leaving", !.sent = {}]
           IN  /\ n \in PipeRec /\ n.step = "leaving" /\ n.locked = r.locked
               /\ n.override = r.override /\ n.former = r.former
               /\ n.todo = r.todo /\ n.sent = {}
BY DEF PipeRec, Steps

LEMMA UnlockFields ==
    ASSUME NEW r \in PipeRec
    PROVE  LET n == [r EXCEPT !.locked = FALSE]
           IN  /\ n \in PipeRec /\ n.step = r.step /\ n.locked = FALSE
               /\ n.override = r.override /\ n.former = r.former
               /\ n.todo = r.todo /\ n.sent = r.sent
BY DEF PipeRec

(* A round that is queued, by the clock or by a user.                        *)
LEMMA QueueStep ==
    ASSUME PipeIInv, NEW r \in PipeRounds, pipe[r].step = "idle",
           NEW l \in BOOLEAN, NEW o \in SUBSET BOOLEAN, Queue(r, l, o),
           l => r[2] = "daily" /\ dailyLock = NoPod /\ dailyLock' = r[1],
           ~l => dailyLock' = dailyLock,
           UNCHANGED <<due, notified, pipelineMu, dryRun, reminded, repeatable, movedUnasked>>
    PROVE  PipeIInv'
<1> USE DEF PipeIInv, PipeRows
<1> DEFINE n == [NoPipe EXCEPT !.step = "queued", !.locked = l, !.override = o]
<1>1. n \in PipeRec /\ n.step = "queued" /\ n.locked = l /\ n.todo = {} /\ n.sent = {}
  BY QueueFields
<1>2. pipe' = [pipe EXCEPT ![r] = n]
  BY DEF Queue
<1> HIDE DEF n
<1>3. /\ pipe' \in [PipeRounds -> PipeRec] /\ pipe'[r] = n
      /\ \A q \in PipeRounds \ {r} : pipe'[q] = pipe[q]
  BY <1>1, <1>2, Moved
<1>4. PipeRows'
  BY <1>3
<1>5. SwitchKept' /\ MovesOnlyIfAsked'
  BY <1>1, <1>3 DEF SwitchKept, WantsPreview, Inside, MovesOnlyIfAsked
<1>6. LockKept'
  BY <1>1, <1>3, PipeAssumption, RoundParts DEF LockKept
<1>7. RemindKept'
  BY <1>1, <1>3 DEF RemindKept, HasMail, RemindedOnce
<1> QED
  BY <1>4, <1>5, <1>6, <1>7

(* Inside a process one round is inside.                                     *)
LEMMA OneInside ==
    ASSUME SwitchKept, NEW r \in PipeRounds, NEW q \in PipeRounds, r[1] = q[1],
           pipe[r].step \in Inside, pipe[q].step \in Inside
    PROVE  r = q
BY RoundParts DEF SwitchKept

LEMMA WantsType ==
    ASSUME NEW r, pipe[r].override \subseteq BOOLEAN
    PROVE  WantsPreview(r) \in BOOLEAN
<1>1. CASE pipe[r].override = {}
  BY <1>1, PipeAssumption DEF WantsPreview
<1>2. CASE pipe[r].override # {}
  <2>1. WantsPreview(r) \in pipe[r].override
    BY <1>2, Zenon DEF WantsPreview
  <2> QED
    BY <2>1
<1> QED
  BY <1>1, <1>2

LEMMA WantsSame ==
    ASSUME NEW q, pipe'[q].override = pipe[q].override
    PROVE  WantsPreview(q)' = WantsPreview(q)
<1> DEFINE W(S) == IF S = {} THEN ConfiguredDry ELSE CHOOSE b \in S : TRUE
<1>1. WantsPreview(q) = W(pipe[q].override) /\ WantsPreview(q)' = W(pipe'[q].override)
  BY DEF WantsPreview
<1>2. ASSUME NEW S, NEW T, S = T PROVE W(S) = W(T)
  BY <1>2
<1> HIDE DEF W
<1> QED
  BY <1>1, <1>2

LEMMA EnterStep ==
    ASSUME PipeIInv, NEW r \in PipeRounds, EnterRound(r)
    PROVE  PipeIInv'
<1> USE DEF PipeIInv, PipeRows
<1>0. /\ pipe[r] \in PipeRec /\ r[1] \in PipePods /\ r[2] \in RoundKinds
      /\ dryRun[r[1]] \in BOOLEAN
  BY RoundParts
<1>f. PICK f \in BOOLEAN : f = dryRun[r[1]]
  BY <1>0
<1> DEFINE n == [pipe[r] EXCEPT !.step = "cleaning", !.former = f]
<1>1. /\ n \in PipeRec /\ n.step = "cleaning" /\ n.locked = pipe[r].locked
      /\ n.override = pipe[r].override /\ n.former = f
      /\ n.todo = pipe[r].todo /\ n.sent = pipe[r].sent
  <2> HIDE DEF PipeIInv, PipeRows
  <2>1. /\ n \in PipeRec /\ n.step = "cleaning" /\ n.locked = pipe[r].locked
        /\ n.override = pipe[r].override
        /\ n.todo = pipe[r].todo /\ n.sent = pipe[r].sent
    BY <1>0 DEF PipeRec, Steps
  <2>2. n.former = f
    BY <1>0 DEF PipeRec
  <2> QED
    BY <2>1, <2>2
<1>2. pipe' = [pipe EXCEPT ![r] = n]
  BY <1>f DEF EnterRound
<1> HIDE DEF n
<1>3. /\ pipe' \in [PipeRounds -> PipeRec] /\ pipe'[r] = n
      /\ \A q \in PipeRounds \ {r} : pipe'[q] = pipe[q]
  BY <1>1, <1>2, Moved
<1>4. /\ pipe[r].step = "queued" /\ pipelineMu[r[1]] = "free"
      /\ pipelineMu' = [pipelineMu EXCEPT ![r[1]] = r[2]]
      /\ UNCHANGED <<due, notified, dailyLock, reminded, repeatable, movedUnasked>>
  BY DEF EnterRound
<1>5. dryRun[r[1]] = ConfiguredDry
  BY <1>0, <1>4 DEF SwitchKept
<1>6. dryRun' = [dryRun EXCEPT ![r[1]] = WantsPreview(r)]
  <2>1. CASE pipe[r].override = {}
    <3>1. dryRun' = dryRun /\ WantsPreview(r) = ConfiguredDry
      BY <2>1 DEF EnterRound, WantsPreview
    <3> QED
      BY <3>1, <1>5, <1>0
  <2>2. CASE pipe[r].override # {}
    BY <2>2 DEF EnterRound
  <2> QED
    BY <2>1, <2>2
<1>7. WantsPreview(r) \in BOOLEAN
  <2>1. pipe[r].override \subseteq BOOLEAN
    BY <1>0 DEF PipeRec
  <2> QED
    BY <2>1, WantsType
<1>8. PipeRows'
  BY <1>0, <1>3, <1>4, <1>6, <1>7
<1>9. \A q \in PipeRounds : q[1] = r[1] => pipe[q].step \notin Inside
  BY <1>4, RoundParts DEF SwitchKept, RoundKinds
<1>10. ASSUME NEW q \in PipeRounds, pipe'[q].step \in Inside
       PROVE  /\ pipelineMu'[q[1]] = q[2] /\ dryRun'[q[1]] = WantsPreview(q)'
              /\ pipe'[q].former = ConfiguredDry
  <2>1. CASE q = r
    <3>1. WantsPreview(r)' = WantsPreview(r)
      BY <1>1, <1>3, WantsSame
    <3> QED
      BY <2>1, <3>1, <1>0, <1>f, <1>1, <1>3, <1>4, <1>5, <1>6
  <2>2. CASE q # r
    <3>1. pipe'[q] = pipe[q] /\ q[1] # r[1] /\ q[1] \in PipePods
      BY <2>2, <1>3, <1>9, <1>10, RoundParts
    <3>2. pipelineMu'[q[1]] = pipelineMu[q[1]] /\ dryRun'[q[1]] = dryRun[q[1]]
      BY <3>1, <1>4, <1>6
    <3> QED
      BY <3>1, <3>2, <1>10 DEF SwitchKept, WantsPreview
  <2> QED
    BY <2>1, <2>2
<1>11. \A p \in PipePods : pipelineMu'[p] = "free" => dryRun'[p] = ConfiguredDry
  BY <1>0, <1>4, <1>6 DEF SwitchKept, RoundKinds
<1>12. LockKept'
  BY <1>1, <1>3, <1>4 DEF LockKept
<1>13. RemindKept'
  BY <1>1, <1>3, <1>4 DEF RemindKept, HasMail, RemindedOnce
<1> QED
  BY <1>4, <1>8, <1>10, <1>11, <1>12, <1>13 DEF SwitchKept, MovesOnlyIfAsked

LEMMA CleanStep ==
    ASSUME PipeIInv, NEW r \in PipeRounds, CleanSpam(r)
    PROVE  PipeIInv'
<1> USE DEF PipeIInv, PipeRows
<1> DEFINE n == [pipe[r] EXCEPT !.step = "listing"]
<1>1. /\ n \in PipeRec /\ n.step = "listing" /\ n.locked = pipe[r].locked
      /\ n.override = pipe[r].override /\ n.former = pipe[r].former
      /\ n.todo = pipe[r].todo /\ n.sent = pipe[r].sent
  BY StepFields DEF Steps
<1>2. pipe' = [pipe EXCEPT ![r] = n] /\ pipe[r].step = "cleaning"
  BY DEF CleanSpam, Goes
<1> HIDE DEF n
<1>3. /\ pipe' \in [PipeRounds -> PipeRec] /\ pipe'[r] = n
      /\ \A q \in PipeRounds \ {r} : pipe'[q] = pipe[q]
  BY <1>1, <1>2, Moved
<1>4. UNCHANGED <<due, notified, dailyLock, pipelineMu, dryRun, reminded, repeatable>>
  BY DEF CleanSpam
<1>5. dryRun[r[1]] = WantsPreview(r)
  BY <1>2 DEF SwitchKept, Inside
<1>6. ~movedUnasked'
  <2>1. ~movedUnasked
    BY DEF MovesOnlyIfAsked
  <2>2. movedUnasked' = (movedUnasked \/ (~dryRun[r[1]] /\ WantsPreview(r)))
    BY DEF CleanSpam
  <2> QED
    BY <2>1, <2>2, <1>5, Zenon
<1>w. \A q \in PipeRounds : WantsPreview(q)' = WantsPreview(q)
  BY <1>1, <1>3, WantsSame
<1>7. SwitchKept'
  BY <1>1, <1>2, <1>3, <1>4, <1>w DEF SwitchKept, Inside
<1>8. LockKept'
  BY <1>1, <1>2, <1>3, <1>4 DEF LockKept
<1>9. RemindKept'
  BY <1>1, <1>2, <1>3, <1>4 DEF RemindKept, HasMail, RemindedOnce
<1> QED
  BY <1>3, <1>4, <1>6, <1>7, <1>8, <1>9 DEF MovesOnlyIfAsked

LEMMA ListStep ==
    ASSUME PipeIInv, NEW r \in PipeRounds, ListReminders(r)
    PROVE  PipeIInv'
<1> USE DEF PipeIInv, PipeRows
<1> DEFINE open == due \ notified
           n    == [pipe[r] EXCEPT !.step = "telling", !.todo = open]
<1>1. /\ n \in PipeRec /\ n.step = "telling" /\ n.locked = pipe[r].locked
      /\ n.override = pipe[r].override /\ n.former = pipe[r].former
      /\ n.todo = open /\ n.sent = pipe[r].sent
  BY ListingFields
<1>2. pipe' = [pipe EXCEPT ![r] = n] /\ pipe[r].step = "listing"
  BY DEF ListReminders
<1> HIDE DEF n
<1>3. /\ pipe' \in [PipeRounds -> PipeRec] /\ pipe'[r] = n
      /\ \A q \in PipeRounds \ {r} : pipe'[q] = pipe[q]
  BY <1>1, <1>2, Moved
<1>4. /\ UNCHANGED <<due, notified, dailyLock, pipelineMu, dryRun, reminded, movedUnasked>>
      /\ repeatable' = repeatable \cup (open \cap Contested(r))
  BY DEF ListReminders
<1>5. pipe[r].sent = {}
  BY <1>2 DEF RemindKept
<1>6. ASSUME NEW q \in PipeRounds \ {r}, NEW e \in Important, HasMail(q, e), e \in open
      PROVE  e \in repeatable'
  <2>1. pipe[q].step = "telling"
    BY <1>6 DEF RemindKept, HasMail
  <2>2. q[1] # r[1]
    BY <2>1, <1>2, OneInside DEF Inside
  <2>3. ~(pipe[q].locked /\ pipe[r].locked)
    BY <2>1, <2>2, <1>2 DEF LockKept
  <2> QED
    BY <2>2, <2>3, <1>4, <1>6 DEF Contested, HasMail
<1>w. \A q \in PipeRounds : WantsPreview(q)' = WantsPreview(q)
  BY <1>1, <1>3, WantsSame
<1>7. SwitchKept' /\ LockKept'
  BY <1>1, <1>2, <1>3, <1>4, <1>w DEF SwitchKept, Inside, LockKept
<1>8. \A q \in PipeRounds : pipe'[q].step # "telling" => pipe'[q].todo = {} /\ pipe'[q].sent = {}
  BY <1>1, <1>3 DEF RemindKept
<1>9. ASSUME NEW a \in PipeRounds, NEW b \in PipeRounds, NEW e \in Important,
             a # b, HasMail(a, e)', HasMail(b, e)'
      PROVE  e \in repeatable'
  <2>1. CASE a # r /\ b # r
    BY <2>1, <1>3, <1>4, <1>9 DEF RemindKept, HasMail
  <2>2. ASSUME NEW q \in PipeRounds \ {r}, HasMail(q, e)', HasMail(r, e)'
        PROVE  e \in repeatable'
    BY <2>2, <1>1, <1>3, <1>5, <1>6 DEF HasMail
  <2> QED
    BY <2>1, <2>2, <1>9
<1>10. ASSUME NEW q \in PipeRounds, NEW e \in Important, e \in pipe'[q].todo
       PROVE  reminded'[e] = 0 \/ e \in repeatable'
  <2>1. CASE q # r
    BY <2>1, <1>3, <1>4, <1>10 DEF RemindKept
  <2>2. CASE q = r
    <3>1. e \in open
      BY <2>2, <1>1, <1>3, <1>10
    <3>2. \A s \in PipeRounds : e \in pipe[s].sent => e \in repeatable'
      BY <3>1, <1>5, <1>6 DEF HasMail
    <3> QED
      BY <3>1, <3>2, <1>4 DEF RemindKept
  <2> QED
    BY <2>1, <2>2
<1>11. ASSUME NEW e \in Important, reminded'[e] > 0
       PROVE  \/ e \in repeatable' \/ e \in notified'
              \/ \E q \in PipeRounds : e \in pipe'[q].sent
  BY <1>1, <1>3, <1>4, <1>11 DEF RemindKept
<1>12. RemindedOnce'
  BY <1>4 DEF RemindKept, RemindedOnce
<1> QED
  BY <1>3, <1>4, <1>7, <1>8, <1>9, <1>10, <1>11, <1>12 DEF RemindKept, MovesOnlyIfAsked

(* A reminder, sent or failed: a mail that two rounds have is repeatable.    *)
LEMMA RemindMoves ==
    ASSUME pipe \in [PipeRounds -> PipeRec], NEW r \in PipeRounds, NEW m \in Important, Remind(r, m)
    PROVE  \E n \in PipeRec :
              /\ n.step = "telling" /\ n.locked = pipe[r].locked
              /\ n.override = pipe[r].override /\ n.former = pipe[r].former
              /\ n.todo = pipe[r].todo \ {m}
              /\ pipe' = [pipe EXCEPT ![r] = n]
              /\ \/ n.sent = pipe[r].sent /\ reminded' = reminded
                 \/ /\ n.sent = pipe[r].sent \cup {m}
                    /\ reminded' = [reminded EXCEPT ![m] =
                           IF reminded[m] < 2 THEN reminded[m] + 1 ELSE reminded[m]]
<1> DEFINE t == pipe[r].todo \ {m}
           s == pipe[r].sent \cup {m}
<1>0. pipe[r] \in PipeRec /\ pipe[r].step = "telling"
  BY DEF Remind
<1>1. t \in SUBSET Important /\ s \in SUBSET Important
  BY <1>0 DEF PipeRec
<1>2. CASE /\ pipe' = [pipe EXCEPT ![r].todo = @ \ {m}, ![r].sent = @ \cup {m}]
           /\ reminded' = [reminded EXCEPT ![m] =
                 IF reminded[m] < 2 THEN reminded[m] + 1 ELSE reminded[m]]
  <2> DEFINE n == [pipe[r] EXCEPT !.todo = t, !.sent = s]
  <2>1. pipe' = [pipe EXCEPT ![r] = n]
    BY <1>2, <1>0
  <2>2. /\ n \in PipeRec /\ n.step = "telling" /\ n.locked = pipe[r].locked
        /\ n.override = pipe[r].override /\ n.former = pipe[r].former
        /\ n.todo = t /\ n.sent = s
    <3>1. pipe[r] \in PipeRec /\ t \in SUBSET Important /\ s \in SUBSET Important
      BY <1>0, <1>1
    <3> HIDE DEF t, s
    <3> QED
      BY <3>1, <1>0 DEF PipeRec
  <2> HIDE DEF n
  <2> QED
    BY <2>1, <2>2, <1>2
<1>3. CASE pipe' = [pipe EXCEPT ![r].todo = @ \ {m}] /\ reminded' = reminded
  <2> DEFINE n == [pipe[r] EXCEPT !.todo = t]
  <2>1. pipe' = [pipe EXCEPT ![r] = n]
    BY <1>3
  <2>2. /\ n \in PipeRec /\ n.step = "telling" /\ n.locked = pipe[r].locked
        /\ n.override = pipe[r].override /\ n.former = pipe[r].former
        /\ n.todo = t /\ n.sent = pipe[r].sent
    BY <1>0, <1>1 DEF PipeRec
  <2> HIDE DEF n
  <2> QED
    BY <2>1, <2>2, <1>3
<1> QED
  BY <1>2, <1>3 DEF Remind

LEMMA RemindStep ==
    ASSUME PipeIInv, NEW r \in PipeRounds, NEW m \in Important, Remind(r, m)
    PROVE  PipeIInv'
<1> USE DEF PipeIInv, PipeRows
<1>0. /\ pipe[r].step = "telling" /\ m \in pipe[r].todo
      /\ UNCHANGED <<due, notified, dailyLock, pipelineMu, dryRun, repeatable, movedUnasked>>
  BY DEF Remind
<1>1. PICK n \in PipeRec :
         /\ n.step = "telling" /\ n.locked = pipe[r].locked
         /\ n.override = pipe[r].override /\ n.former = pipe[r].former
         /\ n.todo = pipe[r].todo \ {m}
         /\ pipe' = [pipe EXCEPT ![r] = n]
         /\ \/ n.sent = pipe[r].sent /\ reminded' = reminded
            \/ /\ n.sent = pipe[r].sent \cup {m}
               /\ reminded' = [reminded EXCEPT ![m] =
                      IF reminded[m] < 2 THEN reminded[m] + 1 ELSE reminded[m]]
  BY RemindMoves
<1>3. /\ pipe' \in [PipeRounds -> PipeRec] /\ pipe'[r] = n
      /\ \A q \in PipeRounds \ {r} : pipe'[q] = pipe[q]
  BY <1>1, Moved
<1>4. /\ n.sent \subseteq pipe[r].sent \cup {m} /\ pipe[r].sent \subseteq n.sent
      /\ \A e \in Important \ {m} : reminded'[e] = reminded[e]
  BY <1>1
<1>5. \A q \in PipeRounds, e \in Important : HasMail(q, e)' => HasMail(q, e)
  BY <1>0, <1>1, <1>3, <1>4 DEF HasMail
<1>w. \A q \in PipeRounds : WantsPreview(q)' = WantsPreview(q)
  BY <1>1, <1>3, WantsSame
<1>6. SwitchKept' /\ LockKept'
  BY <1>0, <1>1, <1>3, <1>w DEF SwitchKept, LockKept, Inside
<1>7. \A q \in PipeRounds : pipe'[q].step # "telling" => pipe'[q].todo = {} /\ pipe'[q].sent = {}
  BY <1>1, <1>3 DEF RemindKept
<1>8. \A a, b \in PipeRounds, e \in Important :
         a # b /\ HasMail(a, e)' /\ HasMail(b, e)' => e \in repeatable'
  BY <1>0, <1>5 DEF RemindKept
<1>9. ASSUME NEW q \in PipeRounds, NEW e \in Important, e \in pipe'[q].todo
      PROVE  reminded'[e] = 0 \/ e \in repeatable'
  <2>1. e \in pipe[q].todo
    BY <1>1, <1>3, <1>9
  <2>2. CASE e # m
    BY <2>1, <2>2, <1>0, <1>4 DEF RemindKept
  <2>3. CASE e = m
    <3>1. q # r
      BY <2>3, <1>1, <1>3, <1>9
    <3> QED
      BY <3>1, <2>1, <2>3, <1>0 DEF RemindKept, HasMail
  <2> QED
    BY <2>2, <2>3
<1>10. ASSUME NEW e \in Important, reminded'[e] > 0
       PROVE  \/ e \in repeatable' \/ e \in notified'
              \/ \E q \in PipeRounds : e \in pipe'[q].sent
  <2>1. CASE e = m /\ m \in n.sent
    BY <2>1, <1>3
  <2>2. CASE reminded'[e] = reminded[e]
    <3>1. \A q \in PipeRounds : pipe[q].sent \subseteq pipe'[q].sent
      BY <1>3, <1>4
    <3> QED
      BY <3>1, <2>2, <1>0, <1>10 DEF RemindKept
  <2> QED
    BY <2>1, <2>2, <1>1, <1>4
<1>11. ASSUME NEW e \in Important, reminded'[e] > 1 PROVE e \in repeatable'
  <2>1. CASE reminded'[e] = reminded[e]
    BY <2>1, <1>0, <1>11 DEF RemindKept, RemindedOnce
  <2>2. CASE e = m
    <3>1. reminded[m] = 0 \/ m \in repeatable
      BY <1>0 DEF RemindKept
    <3> QED
      BY <3>1, <2>2, <1>0, <1>1, <1>11
  <2> QED
    BY <2>1, <2>2, <1>4
<1>12. PipeRows' /\ MovesOnlyIfAsked'
  <2>1. reminded' \in [Important -> 0 .. 2]
    BY <1>1
  <2> QED
    BY <2>1, <1>0, <1>3 DEF MovesOnlyIfAsked
<1> QED
  BY <1>6, <1>7, <1>8, <1>9, <1>10, <1>11, <1>12 DEF RemindKept, RemindedOnce

(* The mark of all that a round has sent, or its loss.                       *)
LEMMA MarkStep ==
    ASSUME PipeIInv, NEW r \in PipeRounds, MarkNotified(r)
    PROVE  PipeIInv'
<1> USE DEF PipeIInv, PipeRows
<1> DEFINE n == [pipe[r] EXCEPT !.step = "leaving", !.sent = {}]
<1>0. /\ pipe[r] \in PipeRec /\ pipe[r].step = "telling" /\ pipe[r].todo = {}
      /\ UNCHANGED <<due, dailyLock, pipelineMu, dryRun, reminded, movedUnasked>>
      /\ \/ notified' = notified \cup pipe[r].sent /\ repeatable' = repeatable
         \/ repeatable' = repeatable \cup pipe[r].sent /\ notified' = notified
  BY DEF MarkNotified
<1>1. /\ n \in PipeRec /\ n.step = "leaving" /\ n.locked = pipe[r].locked
      /\ n.override = pipe[r].override /\ n.former = pipe[r].former
      /\ n.todo = {} /\ n.sent = {}
  BY <1>0 DEF PipeRec, Steps
<1>2. pipe' = [pipe EXCEPT ![r] = n]
  BY DEF MarkNotified
<1> HIDE DEF n
<1>3. /\ pipe' \in [PipeRounds -> PipeRec] /\ pipe'[r] = n
      /\ \A q \in PipeRounds \ {r} : pipe'[q] = pipe[q]
  BY <1>1, <1>2, Moved
<1>5. \A q \in PipeRounds, e \in Important : HasMail(q, e)' => HasMail(q, e)
  BY <1>1, <1>3 DEF HasMail
<1>w. \A q \in PipeRounds : WantsPreview(q)' = WantsPreview(q)
  BY <1>1, <1>3, WantsSame
<1>6. SwitchKept' /\ LockKept'
  BY <1>0, <1>1, <1>3, <1>w DEF SwitchKept, LockKept, Inside
<1>7. \A q \in PipeRounds : pipe'[q].step # "telling" => pipe'[q].todo = {} /\ pipe'[q].sent = {}
  BY <1>1, <1>3 DEF RemindKept
<1>8. \A a, b \in PipeRounds, e \in Important :
         a # b /\ HasMail(a, e)' /\ HasMail(b, e)' => e \in repeatable'
  BY <1>0, <1>5 DEF RemindKept
<1>9. \A q \in PipeRounds, e \in Important :
         e \in pipe'[q].todo => reminded'[e] = 0 \/ e \in repeatable'
  BY <1>0, <1>1, <1>3 DEF RemindKept
<1>10. ASSUME NEW e \in Important, reminded'[e] > 0
       PROVE  \/ e \in repeatable' \/ e \in notified'
              \/ \E q \in PipeRounds : e \in pipe'[q].sent
  <2>1. CASE e \in pipe[r].sent
    BY <2>1, <1>0
  <2>2. CASE e \notin pipe[r].sent
    BY <2>2, <1>0, <1>3, <1>10 DEF RemindKept
  <2> QED
    BY <2>1, <2>2
<1>11. RemindedOnce'
  BY <1>0 DEF RemindKept, RemindedOnce
<1> QED
  BY <1>0, <1>3, <1>6, <1>7, <1>8, <1>9, <1>10, <1>11 DEF RemindKept, MovesOnlyIfAsked

LEMMA LeaveStep ==
    ASSUME PipeIInv, NEW r \in PipeRounds, LeaveRound(r)
    PROVE  PipeIInv'
<1> USE DEF PipeIInv, PipeRows
<1> DEFINE s == IF r[2] = "daily" THEN "unlocking" ELSE "idle"
<1>p. pipe' = [pipe EXCEPT ![r].step = s]
  BY DEF LeaveRound, Goes
<1>s. s \in Steps /\ s \notin Inside /\ s # "telling"
  BY DEF Steps, Inside
<1> HIDE DEF s
<1> DEFINE n == [pipe[r] EXCEPT !.step = s]
<1>0. /\ pipe[r] \in PipeRec /\ pipe[r].step = "leaving" /\ r[1] \in PipePods
      /\ pipe[r].former = ConfiguredDry /\ pipelineMu[r[1]] = r[2]
      /\ dryRun' = [dryRun EXCEPT ![r[1]] = pipe[r].former]
      /\ pipelineMu' = [pipelineMu EXCEPT ![r[1]] = "free"]
      /\ UNCHANGED <<due, notified, dailyLock, reminded, repeatable, movedUnasked>>
  BY RoundParts DEF LeaveRound, Goes, SwitchKept, Inside
<1>1. /\ n \in PipeRec /\ n.step = s /\ n.locked = pipe[r].locked
      /\ n.override = pipe[r].override /\ n.former = pipe[r].former
      /\ n.todo = pipe[r].todo /\ n.sent = pipe[r].sent
  BY <1>0, <1>s, StepFields
<1>2. pipe' = [pipe EXCEPT ![r] = n]
  BY <1>p
<1> HIDE DEF n
<1>3. /\ pipe' \in [PipeRounds -> PipeRec] /\ pipe'[r] = n
      /\ \A q \in PipeRounds \ {r} : pipe'[q] = pipe[q]
  BY <1>1, <1>2, Moved
<1>w. \A q \in PipeRounds : WantsPreview(q)' = WantsPreview(q)
  BY <1>1, <1>3, WantsSame
<1>4. ASSUME NEW q \in PipeRounds, pipe'[q].step \in Inside
      PROVE  /\ pipelineMu'[q[1]] = q[2] /\ dryRun'[q[1]] = WantsPreview(q)'
             /\ pipe'[q].former = ConfiguredDry
  <2>1. q # r /\ pipe'[q] = pipe[q]
    BY <1>s, <1>1, <1>3, <1>4
  <2>2. q[1] # r[1] /\ q[1] \in PipePods
    BY <2>1, <1>0, <1>4, OneInside, RoundParts DEF Inside
  <2>3. pipelineMu'[q[1]] = pipelineMu[q[1]] /\ dryRun'[q[1]] = dryRun[q[1]]
    BY <2>2, <1>0
  <2> QED
    BY <2>1, <2>3, <1>4, <1>w DEF SwitchKept
<1>5. \A p \in PipePods : pipelineMu'[p] = "free" => dryRun'[p] = ConfiguredDry
  BY <1>0 DEF SwitchKept
<1>6. LockKept'
  BY <1>0, <1>1, <1>3 DEF LockKept
<1>7. RemindKept'
  BY <1>s, <1>0, <1>1, <1>3 DEF RemindKept, HasMail, RemindedOnce
<1>8. PipeRows' /\ MovesOnlyIfAsked'
  BY <1>0, <1>3, PipeAssumption DEF MovesOnlyIfAsked
<1> QED
  BY <1>4, <1>5, <1>6, <1>7, <1>8 DEF SwitchKept

LEMMA ReleaseStep ==
    ASSUME PipeIInv, NEW r \in PipeRounds, ReleaseLock(r)
    PROVE  PipeIInv'
<1> USE DEF PipeIInv, PipeRows
<1> DEFINE n == [pipe[r] EXCEPT !.step = "idle"]
<1>0. /\ pipe[r] \in PipeRec /\ pipe[r].step = "unlocking"
      /\ dailyLock' = IF pipe[r].locked THEN NoPod ELSE dailyLock
      /\ UNCHANGED <<due, notified, pipelineMu, dryRun, reminded, repeatable, movedUnasked>>
  BY DEF ReleaseLock, Goes
<1>1. /\ n \in PipeRec /\ n.step = "idle" /\ n.locked = pipe[r].locked
      /\ n.override = pipe[r].override /\ n.former = pipe[r].former
      /\ n.todo = pipe[r].todo /\ n.sent = pipe[r].sent
  BY <1>0, StepFields DEF Steps
<1>2. pipe' = [pipe EXCEPT ![r] = n]
  BY DEF ReleaseLock, Goes
<1> HIDE DEF n
<1>3. /\ pipe' \in [PipeRounds -> PipeRec] /\ pipe'[r] = n
      /\ \A q \in PipeRounds \ {r} : pipe'[q] = pipe[q]
  BY <1>1, <1>2, Moved
<1>w. \A q \in PipeRounds : WantsPreview(q)' = WantsPreview(q)
  BY <1>1, <1>3, WantsSame
<1>4. SwitchKept' /\ MovesOnlyIfAsked'
  BY <1>0, <1>1, <1>3, <1>w DEF SwitchKept, Inside, MovesOnlyIfAsked
<1>5. LockKept'
  <2>1. ASSUME NEW q \in PipeRounds, pipe'[q].locked, pipe'[q].step # "idle"
        PROVE  dailyLock' = q[1]
    <3>1. q # r /\ pipe'[q] = pipe[q] /\ dailyLock = q[1] /\ q[2] = "daily"
      BY <2>1, <1>1, <1>3 DEF LockKept
    <3>2. ~pipe[r].locked
      BY <3>1, <1>0, RoundParts DEF LockKept
    <3> QED
      BY <3>1, <3>2, <1>0
  <2> QED
    BY <2>1, <1>1, <1>3 DEF LockKept
<1>6. RemindKept'
  BY <1>0, <1>1, <1>3 DEF RemindKept, HasMail, RemindedOnce
<1> QED
  BY <1>0, <1>3, <1>4, <1>5, <1>6

LEMMA LoseLockStep ==
    ASSUME PipeIInv, NEW p \in PipePods, LockIsLost(p)
    PROVE  PipeIInv'
<1> USE DEF PipeIInv, PipeRows
<1> DEFINE r == <<p, "daily">>
           n == [pipe[r] EXCEPT !.locked = FALSE]
<1>0. /\ r \in PipeRounds /\ pipe[r] \in PipeRec /\ r[1] = p /\ r[2] = "daily"
      /\ dailyLock = p /\ dailyLock' = NoPod
      /\ UNCHANGED <<due, notified, pipelineMu, dryRun, reminded, repeatable, movedUnasked>>
  BY RoundParts DEF LockIsLost
<1>1. /\ n \in PipeRec /\ n.step = pipe[r].step /\ n.locked = FALSE
      /\ n.override = pipe[r].override /\ n.former = pipe[r].former
      /\ n.todo = pipe[r].todo /\ n.sent = pipe[r].sent
  BY <1>0, UnlockFields
<1>2. pipe' = [pipe EXCEPT ![r] = n]
  BY DEF LockIsLost
<1> HIDE DEF n, r
<1>3. /\ pipe' \in [PipeRounds -> PipeRec] /\ pipe'[r] = n
      /\ \A q \in PipeRounds \ {r} : pipe'[q] = pipe[q]
  BY <1>0, <1>1, <1>2, Moved
<1>w. \A q \in PipeRounds : WantsPreview(q)' = WantsPreview(q)
  BY <1>1, <1>3, WantsSame
<1>4. SwitchKept' /\ MovesOnlyIfAsked'
  BY <1>0, <1>1, <1>3, <1>w DEF SwitchKept, Inside, MovesOnlyIfAsked
<1>5. LockKept'
  <2>1. ASSUME NEW q \in PipeRounds, pipe'[q].locked, pipe'[q].step # "idle"
        PROVE  FALSE
    <3>1. q # r /\ pipe[q].locked /\ pipe[q].step # "idle"
      BY <2>1, <1>1, <1>3
    <3>2. q[1] = r[1] /\ q[2] = r[2]
      BY <3>1, <1>0 DEF LockKept
    <3> QED
      BY <3>1, <3>2, <1>0, RoundParts
  <2> QED
    BY <2>1, <1>1, <1>3 DEF LockKept
<1>6. RemindKept'
  BY <1>0, <1>1, <1>3 DEF RemindKept, HasMail, RemindedOnce
<1> QED
  BY <1>0, <1>3, <1>4, <1>5, <1>6

(* The rounds of a process end; what they had sent without a mark repeats.   *)
LEMMA CrashStep ==
    ASSUME PipeIInv, NEW p \in PipePods, PipeCrash(p)
    PROVE  PipeIInv'
<1> USE DEF PipeIInv, PipeRows
<1>0. /\ pipe' = [r \in PipeRounds |-> IF r[1] = p THEN NoPipe ELSE pipe[r]]
      /\ pipelineMu' = [pipelineMu EXCEPT ![p] = "free"]
      /\ dryRun' = [dryRun EXCEPT ![p] = ConfiguredDry]
      /\ dailyLock' = IF dailyLock = p THEN NoPod ELSE dailyLock
      /\ UNCHANGED <<due, notified, reminded, movedUnasked>>
  BY DEF PipeCrash
<1>1. \A q \in PipeRounds : \/ q[1] = p /\ pipe'[q] = NoPipe
                            \/ q[1] # p /\ pipe'[q] = pipe[q]
  BY <1>0
<1>2. repeatable \subseteq repeatable'
  BY DEF PipeCrash
<1>3. ASSUME NEW q \in PipeRounds, q[1] = p, NEW e \in pipe[q].sent PROVE e \in repeatable'
  <2>1. PICK k \in RoundKinds : q = <<p, k>>
    BY <1>3, RoundParts
  <2>2. e \in UNION {pipe[<<p, j>>].sent : j \in RoundKinds}
    BY <2>1, <1>3
  <2> QED
    BY <2>2 DEF PipeCrash
<1>4. PipeRows' /\ MovesOnlyIfAsked'
  BY <1>0, NoPipeType, PipeAssumption DEF MovesOnlyIfAsked
<1>5. ASSUME NEW q \in PipeRounds, pipe'[q].step \in Inside
      PROVE  /\ pipelineMu'[q[1]] = q[2] /\ dryRun'[q[1]] = WantsPreview(q)'
             /\ pipe'[q].former = ConfiguredDry
  <2>1. q[1] # p /\ pipe'[q] = pipe[q] /\ q[1] \in PipePods
    BY <1>1, <1>5, NoPipeType, RoundParts DEF Inside
  <2>2. WantsPreview(q)' = WantsPreview(q)
    BY <2>1, WantsSame
  <2> QED
    BY <2>1, <2>2, <1>0, <1>5 DEF SwitchKept
<1>6. \A o \in PipePods : pipelineMu'[o] = "free" => dryRun'[o] = ConfiguredDry
  BY <1>0 DEF SwitchKept
<1>7. LockKept'
  <2>1. ASSUME NEW q \in PipeRounds, pipe'[q].locked
        PROVE  q[2] = "daily" /\ (pipe'[q].step # "idle" => dailyLock' = q[1])
    <3>1. q[1] # p /\ pipe'[q] = pipe[q]
      BY <2>1, <1>1, NoPipeType
    <3> QED
      BY <3>1, <2>1, <1>0 DEF LockKept
  <2> QED
    BY <2>1 DEF LockKept
<1>8. \A q \in PipeRounds, e \in Important : HasMail(q, e)' => HasMail(q, e) /\ q[1] # p
  BY <1>1, NoPipeType DEF HasMail
<1>9. \A q \in PipeRounds : pipe'[q].step # "telling" => pipe'[q].todo = {} /\ pipe'[q].sent = {}
  BY <1>1, NoPipeType DEF RemindKept
<1>10. \A a, b \in PipeRounds, e \in Important :
          a # b /\ HasMail(a, e)' /\ HasMail(b, e)' => e \in repeatable'
  BY <1>2, <1>8 DEF RemindKept
<1>11. \A q \in PipeRounds, e \in Important :
          e \in pipe'[q].todo => reminded'[e] = 0 \/ e \in repeatable'
  BY <1>0, <1>1, <1>2, NoPipeType DEF RemindKept
<1>12. ASSUME NEW e \in Important, reminded'[e] > 0
       PROVE  \/ e \in repeatable' \/ e \in notified'
              \/ \E q \in PipeRounds : e \in pipe'[q].sent
  <2>1. \/ e \in repeatable \/ e \in notified
        \/ \E q \in PipeRounds : e \in pipe[q].sent
    BY <1>0, <1>12 DEF RemindKept
  <2>2. ASSUME NEW q \in PipeRounds, e \in pipe[q].sent
        PROVE  e \in repeatable' \/ e \in pipe'[q].sent
    BY <2>2, <1>1, <1>3
  <2> QED
    BY <2>1, <2>2, <1>0, <1>2
<1>13. RemindedOnce'
  BY <1>0, <1>2 DEF RemindKept, RemindedOnce
<1> QED
  BY <1>4, <1>5, <1>6, <1>7, <1>9, <1>10, <1>11, <1>12, <1>13 DEF SwitchKept, RemindKept

LEMMA PipeStep == PipeIInv /\ [PipeNext]_pipeVars => PipeIInv'
<1> SUFFICES ASSUME PipeIInv, [PipeNext]_pipeVars PROVE PipeIInv'
  OBVIOUS
<1>1. CASE UNCHANGED pipeVars \/ Classify
  <2>1. /\ UNCHANGED <<notified, dailyLock, pipelineMu, dryRun, pipe, reminded, repeatable,
                       movedUnasked>>
        /\ due' \subseteq Important
    BY <1>1 DEF PipeIInv, PipeRows, pipeVars, Classify
  <2>2. \A q \in PipeRounds : WantsPreview(q)' = WantsPreview(q)
    BY <2>1, WantsSame
  <2> QED
    BY <2>1, <2>2 DEF PipeIInv, PipeRows, SwitchKept, LockKept, RemindKept, HasMail, RemindedOnce,
       MovesOnlyIfAsked
<1>2. ASSUME NEW p \in PipePods, StartDaily(p) PROVE PipeIInv'
  <2> DEFINE r == <<p, "daily">>
  <2>1. r \in PipeRounds /\ r[1] = p /\ r[2] = "daily" /\ pipe[r].step = "idle"
    BY <1>2, RoundParts DEF StartDaily
  <2>2. {} \in SUBSET BOOLEAN /\ TRUE \in BOOLEAN /\ FALSE \in BOOLEAN
    OBVIOUS
  <2>3. \/ dailyLock = NoPod /\ dailyLock' = p /\ Queue(r, TRUE, {})
        \/ Queue(r, FALSE, {}) /\ dailyLock' = dailyLock
    BY <1>2 DEF StartDaily
  <2>4. UNCHANGED <<due, notified, pipelineMu, dryRun, reminded, repeatable, movedUnasked>>
    BY <1>2 DEF StartDaily
  <2> HIDE DEF r
  <2> QED
    BY <2>1, <2>2, <2>3, <2>4, QueueStep
<1>3. ASSUME NEW p \in PipePods, StartManual(p) PROVE PipeIInv'
  <2> DEFINE r == <<p, "manual">>
  <2>1. r \in PipeRounds /\ pipe[r].step = "idle" /\ FALSE \in BOOLEAN
    BY <1>3, RoundParts DEF StartManual
  <2>2. PICK o \in SUBSET BOOLEAN : Queue(r, FALSE, o)
    BY <1>3 DEF StartManual
  <2>3. UNCHANGED <<due, notified, dailyLock, pipelineMu, dryRun, reminded, repeatable,
                    movedUnasked>>
    BY <1>3 DEF StartManual
  <2> HIDE DEF r
  <2> QED
    BY <2>1, <2>2, <2>3, QueueStep
<1>4. ASSUME NEW r \in PipeRounds, RoundGoesOn(r) PROVE PipeIInv'
  BY <1>4, EnterStep, CleanStep, ListStep, RemindStep, MarkStep, LeaveStep, ReleaseStep
     DEF RoundGoesOn
<1> QED
  BY <1>1, <1>2, <1>3, <1>4, LoseLockStep, CrashStep DEF PipeNext

LEMMA PipeStart == PipeInit => PipeIInv
<1> SUFFICES ASSUME PipeInit PROVE PipeIInv
  OBVIOUS
<1> USE DEF PipeInit
<1>1. PipeRows
  BY NoPipeType, PipeAssumption DEF PipeRows
<1>2. \A r \in PipeRounds : pipe[r] = NoPipe
  OBVIOUS
<1>3. SwitchKept /\ LockKept /\ MovesOnlyIfAsked
  BY <1>2, NoPipeType DEF SwitchKept, LockKept, MovesOnlyIfAsked, Inside
<1>4. RemindKept
  BY <1>2, NoPipeType DEF RemindKept, HasMail, RemindedOnce
<1> QED
  BY <1>1, <1>3, <1>4 DEF PipeIInv

(* Rounds of any number of processes, daily ones and those a user asked for, *)
(* with their overrides and crashes: mail moves only where the configuration *)
(* or the round's own request says so (runEmailPipeline).                    *)
THEOREM MovesAsAsked == PipeSpec => []MovesOnlyIfAsked
<1>1. PipeIInv => MovesOnlyIfAsked
  BY DEF PipeIInv
<1> QED
  BY PipeStart, PipeStep, <1>1, PTL DEF PipeSpec

(* The advisory lock, the lock of the process and the mark keep a reminder   *)
(* from being repeated, unless a round ran beside another without the lock   *)
(* or the mark was lost (TryLockDailyPipeline, notifyImportant).             *)
THEOREM RemindersOnce == PipeSpec => []RemindedOnce
<1>1. PipeIInv => RemindedOnce
  BY DEF PipeIInv, RemindKept
<1> QED
  BY PipeStart, PipeStep, <1>1, PTL DEF PipeSpec

(* What rounds have in work was classified.                                  *)
PipeHeld ==
    /\ notified \subseteq due /\ repeatable \subseteq due
    /\ dailyLock \in PipePods \cup {NoPod}
    /\ movedUnasked \in BOOLEAN
    /\ pipeFaults \in 0 .. PipeFaults
    /\ \A r \in PipeRounds : pipe[r].todo \subseteq due /\ pipe[r].sent \subseteq due

LEMMA PipeFaultBound ==
    ASSUME pipeFaults \in 0 .. PipeFaults, PipeFault \/ UNCHANGED pipeFaults
    PROVE  pipeFaults' \in 0 .. PipeFaults
BY PipeAssumption DEF PipeFault

(* A round is replaced by one whose mails were classified.                   *)
LEMMA HeldMoved ==
    ASSUME PipeIInv, PipeHeld, NEW r \in PipeRounds, NEW n \in PipeRec,
           pipe' = [pipe EXCEPT ![r] = n], due' = due,
           n.todo \subseteq due, n.sent \subseteq due
    PROVE  \A q \in PipeRounds : pipe'[q].todo \subseteq due' /\ pipe'[q].sent \subseteq due'
<1>1. pipe'[r] = n /\ \A q \in PipeRounds \ {r} : pipe'[q] = pipe[q]
  BY Moved DEF PipeIInv, PipeRows
<1> QED
  BY <1>1 DEF PipeHeld

LEMMA HeldQueued ==
    ASSUME PipeIInv, PipeHeld, NEW r \in PipeRounds, NEW l \in BOOLEAN,
           NEW o \in SUBSET BOOLEAN, Queue(r, l, o), due' = due
    PROVE  \A q \in PipeRounds : pipe'[q].todo \subseteq due' /\ pipe'[q].sent \subseteq due'
<1> DEFINE n == [NoPipe EXCEPT !.step = "queued", !.locked = l, !.override = o]
<1>1. n \in PipeRec /\ n.todo = {} /\ n.sent = {}
  BY QueueFields
<1>2. pipe' = [pipe EXCEPT ![r] = n]
  BY DEF Queue
<1> HIDE DEF n
<1> QED
  BY <1>1, <1>2, HeldMoved

LEMMA HeldGoes ==
    ASSUME PipeIInv, PipeHeld, NEW r \in PipeRounds, NEW from, NEW to \in Steps,
           Goes(r, from, to), due' = due
    PROVE  \A q \in PipeRounds : pipe'[q].todo \subseteq due' /\ pipe'[q].sent \subseteq due'
<1> DEFINE n == [pipe[r] EXCEPT !.step = to]
<1>1. pipe[r] \in PipeRec
  BY DEF PipeIInv, PipeRows
<1>2. n \in PipeRec /\ n.todo = pipe[r].todo /\ n.sent = pipe[r].sent
  BY <1>1, StepFields
<1>3. pipe' = [pipe EXCEPT ![r] = n]
  BY DEF Goes
<1> HIDE DEF n
<1> QED
  BY <1>2, <1>3, HeldMoved DEF PipeHeld

LEMMA HeldRemind ==
    ASSUME PipeIInv, PipeHeld, NEW r \in PipeRounds, NEW e \in Important, Remind(r, e)
    PROVE  PipeHeld'
<1> DEFINE k == pipe[r]
<1>1. k \in PipeRec /\ k.todo \subseteq due /\ k.sent \subseteq due /\ e \in k.todo /\ due' = due
  BY DEF PipeIInv, PipeRows, PipeHeld, Remind
<1>2. \A q \in PipeRounds : pipe'[q].todo \subseteq due' /\ pipe'[q].sent \subseteq due'
  <2>1. \/ pipe' = [pipe EXCEPT ![r].todo = @ \ {e}, ![r].sent = @ \cup {e}]
        \/ pipe' = [pipe EXCEPT ![r].todo = @ \ {e}]
    BY DEF Remind
  <2>2. pipe \in [PipeRounds -> PipeRec]
    BY DEF PipeIInv, PipeRows
  <2>3. CASE pipe' = [pipe EXCEPT ![r].todo = @ \ {e}, ![r].sent = @ \cup {e}]
    <3> DEFINE n == [k EXCEPT !.todo = @ \ {e}, !.sent = @ \cup {e}]
    <3>1. n \in PipeRec /\ n.todo = k.todo \ {e} /\ n.sent = k.sent \cup {e}
      BY <1>1 DEF PipeRec
    <3>2. pipe' = [pipe EXCEPT ![r] = n]
      BY <2>3, <2>2
    <3> HIDE DEF n
    <3> QED
      BY <1>1, <3>1, <3>2, HeldMoved
  <2>4. CASE pipe' = [pipe EXCEPT ![r].todo = @ \ {e}]
    <3> DEFINE n == [k EXCEPT !.todo = @ \ {e}]
    <3>1. n \in PipeRec /\ n.todo = k.todo \ {e} /\ n.sent = k.sent
      BY <1>1 DEF PipeRec
    <3>2. pipe' = [pipe EXCEPT ![r] = n]
      BY <2>4, <2>2
    <3> HIDE DEF n
    <3> QED
      BY <1>1, <3>1, <3>2, HeldMoved
  <2> QED
    BY <2>1, <2>3, <2>4
<1>3. pipeFaults' \in 0 .. PipeFaults
  BY PipeFaultBound DEF Remind, PipeHeld
<1> QED
  BY <1>2, <1>3 DEF Remind, PipeHeld

LEMMA HeldRound ==
    ASSUME PipeIInv, PipeHeld, NEW r \in PipeRounds, RoundGoesOn(r)
    PROVE  PipeHeld'
<1> USE DEF PipeHeld
<1>r. pipe[r] \in PipeRec /\ r[1] \in PipePods /\ r[2] \in RoundKinds
  BY RoundParts DEF PipeIInv, PipeRows
<1>1. CASE EnterRound(r)
  <2> DEFINE f == dryRun[r[1]]
             n == [pipe[r] EXCEPT !.step = "cleaning", !.former = f]
  <2>1. f \in BOOLEAN
    BY <1>r DEF PipeIInv, PipeRows
  <2>2. n \in PipeRec /\ n.todo = pipe[r].todo /\ n.sent = pipe[r].sent
    BY <1>r, <2>1, EnterFields
  <2>3. pipe' = [pipe EXCEPT ![r] = n]
    BY <1>1 DEF EnterRound, PipeIInv, PipeRows
  <2> HIDE DEF n
  <2>4. \A q \in PipeRounds : pipe'[q].todo \subseteq due' /\ pipe'[q].sent \subseteq due'
    BY <1>1, <2>2, <2>3, HeldMoved DEF EnterRound
  <2> QED
    BY <1>1, <2>4 DEF EnterRound
<1>2. CASE CleanSpam(r)
  <2>1. \A q \in PipeRounds : pipe'[q].todo \subseteq due' /\ pipe'[q].sent \subseteq due'
    BY <1>2, HeldGoes DEF CleanSpam, Steps
  <2> QED
    BY <1>2, <2>1 DEF CleanSpam
<1>3. CASE ListReminders(r)
  <2> DEFINE open == due \ notified
             n == [pipe[r] EXCEPT !.step = "telling", !.todo = open]
  <2>1. open \in SUBSET Important
    BY DEF PipeIInv, PipeRows
  <2>2. n \in PipeRec /\ n.todo = open /\ n.sent = pipe[r].sent
    BY <1>r, <2>1, ListingFields
  <2>3. pipe' = [pipe EXCEPT ![r] = n]
    BY <1>3 DEF ListReminders, PipeIInv, PipeRows
  <2> HIDE DEF n
  <2>4. \A q \in PipeRounds : pipe'[q].todo \subseteq due' /\ pipe'[q].sent \subseteq due'
    BY <1>3, <2>2, <2>3, HeldMoved DEF ListReminders
  <2> QED
    BY <1>3, <2>4 DEF ListReminders
<1>4. CASE MarkNotified(r)
  <2> DEFINE n == [pipe[r] EXCEPT !.step = "leaving", !.sent = {}]
  <2>1. n \in PipeRec /\ n.todo = pipe[r].todo /\ n.sent = {}
    BY <1>r, MarkFields
  <2>2. pipe' = [pipe EXCEPT ![r] = n]
    BY <1>4 DEF MarkNotified, PipeIInv, PipeRows
  <2> HIDE DEF n
  <2>3. \A q \in PipeRounds : pipe'[q].todo \subseteq due' /\ pipe'[q].sent \subseteq due'
    BY <1>4, <2>1, <2>2, HeldMoved DEF MarkNotified
  <2>4. pipeFaults' \in 0 .. PipeFaults
    BY <1>4, PipeFaultBound DEF MarkNotified
  <2> QED
    BY <1>4, <2>3, <2>4 DEF MarkNotified
<1>5. CASE LeaveRound(r)
  <2>1. (IF r[2] = "daily" THEN "unlocking" ELSE "idle") \in Steps
    BY DEF Steps
  <2>2. \A q \in PipeRounds : pipe'[q].todo \subseteq due' /\ pipe'[q].sent \subseteq due'
    BY <1>5, <2>1, HeldGoes DEF LeaveRound
  <2> QED
    BY <1>5, <2>2 DEF LeaveRound
<1>6. CASE ReleaseLock(r)
  <2>1. \A q \in PipeRounds : pipe'[q].todo \subseteq due' /\ pipe'[q].sent \subseteq due'
    BY <1>6, HeldGoes DEF ReleaseLock, Steps
  <2> QED
    BY <1>6, <2>1 DEF ReleaseLock
<1> QED
  BY <1>1, <1>2, <1>3, <1>4, <1>5, <1>6, HeldRemind DEF RoundGoesOn

LEMMA PipeHeldStep == PipeIInv /\ PipeHeld /\ [PipeNext]_pipeVars => PipeHeld'
<1> SUFFICES ASSUME PipeIInv, PipeHeld, [PipeNext]_pipeVars PROVE PipeHeld'
  OBVIOUS
<1> USE DEF PipeHeld
<1>1. CASE UNCHANGED pipeVars \/ Classify
  BY <1>1 DEF pipeVars, Classify
<1>2. ASSUME NEW p \in PipePods, StartDaily(p) \/ StartManual(p) PROVE PipeHeld'
  <2>1. <<p, "daily">> \in PipeRounds /\ <<p, "manual">> \in PipeRounds
    BY RoundParts
  <2>2. PICK k \in RoundKinds, l \in BOOLEAN, o \in SUBSET BOOLEAN : Queue(<<p, k>>, l, o)
    BY <1>2 DEF StartDaily, StartManual, RoundKinds
  <2>3. \A q \in PipeRounds : pipe'[q].todo \subseteq due' /\ pipe'[q].sent \subseteq due'
    BY <1>2, <2>1, <2>2, HeldQueued DEF StartDaily, StartManual, RoundKinds
  <2>4. pipeFaults' \in 0 .. PipeFaults
    BY <1>2, PipeFaultBound DEF StartDaily, StartManual
  <2> QED
    BY <1>2, <2>3, <2>4 DEF StartDaily, StartManual
<1>3. ASSUME NEW p \in PipePods, LockIsLost(p) PROVE PipeHeld'
  <2> DEFINE r == <<p, "daily">>
             n == [pipe[r] EXCEPT !.locked = FALSE]
  <2>1. r \in PipeRounds /\ pipe[r] \in PipeRec
    BY RoundParts DEF PipeIInv, PipeRows
  <2>2. n \in PipeRec /\ n.todo = pipe[r].todo /\ n.sent = pipe[r].sent
    BY <2>1, UnlockFields
  <2>3. pipe' = [pipe EXCEPT ![r] = n]
    BY <1>3 DEF LockIsLost
  <2> HIDE DEF n, r
  <2>4. \A q \in PipeRounds : pipe'[q].todo \subseteq due' /\ pipe'[q].sent \subseteq due'
    BY <1>3, <2>1, <2>2, <2>3, HeldMoved DEF LockIsLost
  <2>5. pipeFaults' \in 0 .. PipeFaults
    BY <1>3, PipeFaultBound DEF LockIsLost
  <2> QED
    BY <1>3, <2>4, <2>5 DEF LockIsLost
<1>4. ASSUME NEW p \in PipePods, PipeCrash(p) PROVE PipeHeld'
  <2>1. \A q \in PipeRounds : pipe'[q].todo \subseteq due' /\ pipe'[q].sent \subseteq due'
    <3>1. \A q \in PipeRounds : pipe'[q] = IF q[1] = p THEN NoPipe ELSE pipe[q]
      BY <1>4 DEF PipeCrash
    <3> QED
      BY <1>4, <3>1, NoPipeType DEF PipeCrash
  <2>2. repeatable' \subseteq due'
    <3>1. \A k \in RoundKinds : pipe[<<p, k>>].sent \subseteq due
      BY RoundParts DEF RoundKinds
    <3>2. repeatable' = repeatable \cup UNION {pipe[<<p, k>>].sent : k \in RoundKinds}
      BY <1>4 DEF PipeCrash
    <3> QED
      BY <1>4, <3>1, <3>2 DEF PipeCrash
  <2>3. pipeFaults' \in 0 .. PipeFaults
    BY <1>4, PipeFaultBound DEF PipeCrash
  <2> QED
    BY <1>4, <2>1, <2>2, <2>3 DEF PipeCrash
<1> QED
  BY <1>1, <1>2, <1>3, <1>4, HeldRound DEF PipeNext

(* Locks, switches and rounds keep their types.                              *)
THEOREM PipeTypeCorrect == PipeSpec => []PipeTypeOK
<1>1. PipeInit => PipeHeld
  <2>1. 0 \in 0 .. PipeFaults
    BY PipeAssumption
  <2>2. PipeInit => \A r \in PipeRounds : pipe[r] = NoPipe
    BY DEF PipeInit
  <2> QED
    BY <2>1, <2>2, NoPipeType DEF PipeInit, PipeHeld
<1>2. PipeIInv /\ PipeHeld => PipeTypeOK
  <2> SUFFICES ASSUME PipeIInv, PipeHeld PROVE PipeTypeOK
    OBVIOUS
  <2>1. ASSUME NEW r \in PipeRounds
        PROVE  pipe[r] \in [step : Steps, locked : BOOLEAN, override : SUBSET BOOLEAN,
                            former : BOOLEAN, todo : SUBSET due, sent : SUBSET due]
    BY DEF PipeIInv, PipeHeld, PipeRows, PipeRec
  <2>2. pipe \in [PipeRounds -> [step : Steps, locked : BOOLEAN, override : SUBSET BOOLEAN,
                                 former : BOOLEAN, todo : SUBSET due, sent : SUBSET due]]
    BY <2>1 DEF PipeIInv, PipeRows
  <2> QED
    BY <2>2 DEF PipeIInv, PipeHeld, PipeRows, PipeTypeOK
<1> QED
  BY <1>1, <1>2, PipeStart, PipeStep, PipeHeldStep, PTL DEF PipeSpec
-----------------------------------------------------------------------------
(* ActionIntents *)

Marks == {"applied", "failed", "skipped"}

OutcomeRow == [intent : Intents \cup {"none"}, mark : Marks \cup {"none"}]

IntentRows ==
    /\ status \in [Intents -> {"none", "pending"} \cup Marks]
    /\ batch \in [Executors -> SUBSET Intents]
    /\ outcome \in [Executors -> OutcomeRow]
    /\ effects \in [Intents -> 0 .. 2]

(* The foreign key; and who holds a row that is gone is excused.             *)
RowsKept ==
    /\ \A i \in Intents : status[i] # "none" => mailStored
    /\ \A p \in Executors, i \in Intents : <<p, i>> \in gone => i \in excused

(* What an executor holds was not carried out by anybody, or is excused; an  *)
(* intent that was is marked, or about to be.                                *)
HoldsKept ==
    /\ \A p, q \in Executors, i \in Intents :
          p # q /\ i \in Holds(p) /\ i \in Holds(q) => i \in excused
    /\ \A p \in Executors : \A i \in batch[p] : effects[i] = 0 \/ i \in excused
    /\ \A i \in Intents : effects[i] > 0 =>
          \/ i \in excused \/ status[i] \in Marks
          \/ \E p \in Executors : outcome[p].intent = i
    /\ \A i \in Intents : status[i] = "none" =>
          /\ effects[i] = 0 \/ i \in excused
          /\ \A p \in Executors : i \in Holds(p) => <<p, i>> \in gone

OutcomeKept ==
    \A p \in Executors :
        \/ outcome[p] = Idle
        \/ /\ outcome[p].intent \in Intents \ batch[p]
           /\ outcome[p].mark \in Marks
           /\ outcome[p].mark = "applied" =>
                 effects[outcome[p].intent] > 0 \/ <<p, outcome[p].intent>> \in gone
           /\ outcome[p].mark # "applied" => outcome[p].intent \in excused

IntentIInv == IntentRows /\ RowsKept /\ HoldsKept /\ OutcomeKept /\ IntentOutcome

(* A round begins, ends, stores the mail or a row of the table.              *)
LEMMA FetcherKeeps ==
    ASSUME IntentIInv, NEW f \in Fetchers, FetcherStep(f)
    PROVE  IntentIInv'
<1> USE DEF IntentIInv
<1>1. UNCHANGED <<batch, outcome, gone, effects, excused>>
  BY DEF FetcherStep, FetchMail, EndFetch, RecordIntent, rowVars
<1>2. mailStored => mailStored'
  BY DEF FetcherStep, FetchMail, EndFetch, RecordIntent
<1>3. /\ status' \in [Intents -> {"none", "pending"} \cup Marks]
      /\ \A i \in Intents : status'[i] # status[i] =>
            status[i] = "none" /\ status'[i] = "pending" /\ mailStored
  BY DEF FetcherStep, FetchMail, EndFetch, RecordIntent, InsertRow, IntentRows
<1>4. IntentRows' /\ RowsKept'
  BY <1>1, <1>2, <1>3 DEF IntentRows, RowsKept
<1>5. HoldsKept'
  BY <1>1, <1>3 DEF HoldsKept, Holds, Marks
<1>6. OutcomeKept' /\ IntentOutcome'
  BY <1>1, <1>3 DEF OutcomeKept, IntentOutcome
<1> QED
  BY <1>4, <1>5, <1>6

(* The mail is deleted, and its rows with it.                                *)
LEMMA DeleteKeeps ==
    ASSUME IntentIInv, DeleteMail
    PROVE  IntentIInv'
<1> USE DEF IntentIInv
<1>1. /\ UNCHANGED <<batch, outcome>>
      /\ status' = [i \in Intents |-> "none"] /\ effects' = [i \in Intents |-> 0]
      /\ gone' = gone \cup {h \in Executors \X Intents : h[2] \in Holds(h[1])}
      /\ excused' = excused \cup UNION {Holds(p) : p \in Executors}
  BY DEF DeleteMail
<1>2. \A p \in Executors : Holds(p)' = Holds(p)
  BY <1>1 DEF Holds
<1>3. \A p \in Executors, i \in Intents : i \in Holds(p) => <<p, i>> \in gone' /\ i \in excused'
  BY <1>1
<1>4. IntentRows' /\ IntentOutcome'
  BY <1>1 DEF IntentRows, IntentOutcome
<1>5. RowsKept'
  <2>1. ASSUME NEW p \in Executors, NEW i \in Intents, <<p, i>> \in gone' PROVE i \in excused'
    <3>1. <<p, i>> \in gone \/ i \in Holds(p)
      BY <2>1, <1>1
    <3> QED
      BY <3>1, <1>1, <1>3 DEF RowsKept
  <2> QED
    BY <2>1, <1>1 DEF RowsKept
<1>6. HoldsKept'
  <2>1. \A i \in Intents : effects'[i] = 0
    BY <1>1
  <2>2. \A p \in Executors : \A i \in batch'[p] : effects'[i] = 0
    BY <2>1, <1>1 DEF IntentRows
  <2>3. \A p, q \in Executors, i \in Intents :
          p # q /\ i \in Holds(p)' /\ i \in Holds(q)' => i \in excused'
    BY <1>2, <1>3
  <2>4. \A p \in Executors, i \in Intents : i \in Holds(p)' => <<p, i>> \in gone'
    BY <1>2, <1>3
  <2> QED
    BY <2>1, <2>2, <2>3, <2>4 DEF HoldsKept
<1>7. OutcomeKept'
  <2>1. ASSUME NEW p \in Executors, outcome[p] # Idle
        PROVE  /\ outcome[p].intent \in Intents \ batch[p] /\ outcome[p].mark \in Marks
               /\ <<p, outcome[p].intent>> \in gone' /\ outcome[p].intent \in excused'
    <3>1. outcome[p].intent \in Intents \ batch[p] /\ outcome[p].mark \in Marks
      BY <2>1 DEF OutcomeKept
    <3>2. outcome[p].intent \in Holds(p)
      BY <3>1 DEF Holds
    <3> QED
      BY <3>1, <3>2, <1>3
  <2> QED
    BY <2>1, <1>1 DEF OutcomeKept
<1> QED
  BY <1>4, <1>5, <1>6, <1>7

LEMMA ReadStep ==
    ASSUME IntentIInv, NEW p \in Executors, ReadBatch(p)
    PROVE  IntentIInv'
<1> USE DEF IntentIInv
<1>1. PICK b \in SUBSET Pending :
         /\ batch' = [batch EXCEPT ![p] = b]
         /\ excused' = excused \cup {i \in b : \E q \in Executors \ {p} : i \in Holds(q)}
  BY DEF ReadBatch
<1>2. /\ batch[p] = {} /\ outcome[p] = Idle
      /\ UNCHANGED <<mailStored, status, outcome, gone, effects>>
  BY DEF ReadBatch
<1>3. b \subseteq Intents /\ \A i \in b : status[i] = "pending"
  BY <1>1 DEF Pending
<1>4. batch'[p] = b /\ \A q \in Executors \ {p} : batch'[q] = batch[q]
  BY <1>1 DEF IntentRows
<1>5. IntentRows'
  BY <1>1, <1>2, <1>3 DEF IntentRows
<1>6. \A q \in Executors \ {p} : Holds(q)' = Holds(q)
  BY <1>2, <1>4 DEF Holds
<1>7. Holds(p)' = b
  BY <1>2, <1>4, IntentAssumption DEF Holds, Idle
<1>8. \A q, o \in Executors, i \in Intents :
         q # o /\ i \in Holds(q)' /\ i \in Holds(o)' => i \in excused'
  BY <1>1, <1>6, <1>7 DEF HoldsKept
<1>9. ASSUME NEW i \in b, i \notin excused' PROVE effects'[i] = 0
  <2>1. \A q \in Executors : outcome[q].intent # i
    <3>1. ASSUME NEW q \in Executors, outcome[q].intent = i PROVE FALSE
      <4>1. q # p
        BY <3>1, <1>2, <1>3, IntentAssumption DEF Idle
      <4>2. i \in Holds(q)
        BY <3>1, <1>3 DEF Holds
      <4> QED
        BY <4>1, <4>2, <1>1, <1>9
    <3> QED
      BY <3>1
  <2>2. status[i] \notin Marks /\ i \notin excused
    BY <1>1, <1>3, <1>9 DEF Marks
  <2> QED
    BY <2>1, <2>2, <1>2, <1>3 DEF HoldsKept, IntentRows
<1>10. HoldsKept'
  <2>1. \A q \in Executors : \A i \in batch'[q] : effects'[i] = 0 \/ i \in excused'
    BY <1>1, <1>2, <1>4, <1>9 DEF HoldsKept
  <2>2. \A i \in Intents : effects'[i] > 0 =>
          \/ i \in excused' \/ status'[i] \in Marks
          \/ \E q \in Executors : outcome'[q].intent = i
    BY <1>1, <1>2 DEF HoldsKept
  <2>3. \A i \in Intents : status'[i] = "none" =>
          /\ effects'[i] = 0 \/ i \in excused'
          /\ \A q \in Executors : i \in Holds(q)' => <<q, i>> \in gone'
    BY <1>1, <1>2, <1>3, <1>6, <1>7 DEF HoldsKept
  <2> QED
    BY <1>8, <2>1, <2>2, <2>3 DEF HoldsKept
<1>11. RowsKept' /\ OutcomeKept' /\ IntentOutcome'
  BY <1>1, <1>2 DEF RowsKept, OutcomeKept, IntentOutcome
<1> QED
  BY <1>5, <1>10, <1>11

(* What an execution came to, for each of its outcomes.                      *)
LEMMA ExecuteCases ==
    ASSUME IntentIInv, NEW p \in Executors, NEW i \in Intents, Execute(p, i)
    PROVE  /\ i \in batch[p] /\ outcome[p] = Idle
           /\ UNCHANGED <<status, mailStored, gone>>
           /\ batch' = [batch EXCEPT ![p] = @ \ {i}]
           /\ excused \subseteq excused'
           /\ effects' \in [Intents -> 0 .. 2]
           /\ \A j \in Intents \ {i} : effects'[j] = effects[j]
           /\ effects[i] <= effects'[i] /\ effects'[i] <= effects[i] + 1
           /\ \E mark \in Marks :
                 /\ outcome' = [outcome EXCEPT ![p] = [intent |-> i, mark |-> mark]]
                 /\ mark = "applied" => effects'[i] > 0
                 /\ mark # "applied" => i \in excused'
<1> USE DEF IntentIInv, IntentRows
<1>1. /\ i \in batch[p] /\ outcome[p] = Idle
      /\ UNCHANGED <<status, mailStored, gone>>
  BY DEF Execute
<1>2. CASE /\ ~mailStored /\ Finish(p, i, "skipped") /\ UNCHANGED <<effects, excused>>
  <2>1. i \in Holds(p) /\ status[i] = "none"
    BY <1>1, <1>2 DEF Holds, RowsKept
  <2>2. i \in excused
    BY <2>1 DEF HoldsKept, RowsKept
  <2>3. effects[i] \in 0 .. 2
    OBVIOUS
  <2> QED
    BY <1>1, <1>2, <2>2, <2>3 DEF Finish, Marks
<1>3. CASE /\ effects' = CarriedOut(i) /\ Finish(p, i, "applied") /\ UNCHANGED excused
  BY <1>1, <1>3 DEF Finish, CarriedOut, Marks
<1>4. CASE /\ \E mark \in {"failed", "skipped"} : Finish(p, i, mark)
           /\ excused' = excused \cup {i}
           /\ effects' = effects \/ effects' = CarriedOut(i)
  <2>1. PICK mark \in {"failed", "skipped"} : Finish(p, i, mark)
    BY <1>4
  <2>2. /\ batch' = [batch EXCEPT ![p] = @ \ {i}]
        /\ outcome' = [outcome EXCEPT ![p] = [intent |-> i, mark |-> mark]]
        /\ mark \in Marks /\ mark # "applied"
    BY <2>1 DEF Finish, Marks
  <2>3. /\ effects' \in [Intents -> 0 .. 2]
        /\ \A j \in Intents \ {i} : effects'[j] = effects[j]
        /\ effects[i] <= effects'[i] /\ effects'[i] <= effects[i] + 1
    BY <1>4 DEF CarriedOut
  <2> QED
    BY <1>1, <1>4, <2>2, <2>3
<1>5. \/ /\ ~mailStored /\ Finish(p, i, "skipped") /\ UNCHANGED <<effects, excused>>
      \/ /\ effects' = CarriedOut(i) /\ Finish(p, i, "applied") /\ UNCHANGED excused
      \/ /\ \E mark \in {"failed", "skipped"} : Finish(p, i, mark)
         /\ excused' = excused \cup {i}
         /\ effects' = effects \/ effects' = CarriedOut(i)
  BY DEF Execute
<1> QED
  BY <1>2, <1>3, <1>4, <1>5

LEMMA ExecuteStep ==
    ASSUME IntentIInv, NEW p \in Executors, NEW i \in Intents, Execute(p, i)
    PROVE  IntentIInv'
<1> USE DEF IntentIInv
<1>1. /\ i \in batch[p] /\ outcome[p] = Idle
      /\ UNCHANGED <<status, mailStored, gone>>
      /\ batch' = [batch EXCEPT ![p] = @ \ {i}]
      /\ excused \subseteq excused'
      /\ effects' \in [Intents -> 0 .. 2]
      /\ \A j \in Intents \ {i} : effects'[j] = effects[j]
      /\ effects[i] <= effects'[i] /\ effects'[i] <= effects[i] + 1
  BY ExecuteCases
<1>2. PICK mark \in Marks :
         /\ outcome' = [outcome EXCEPT ![p] = [intent |-> i, mark |-> mark]]
         /\ mark = "applied" => effects'[i] > 0
         /\ mark # "applied" => i \in excused'
  BY ExecuteCases
<1>3. /\ outcome'[p] = [intent |-> i, mark |-> mark] /\ batch'[p] = batch[p] \ {i}
      /\ \A q \in Executors \ {p} : outcome'[q] = outcome[q] /\ batch'[q] = batch[q]
  BY <1>1, <1>2 DEF IntentRows
<1>4. IntentRows'
  <2>1. [intent |-> i, mark |-> mark] \in OutcomeRow
    BY DEF OutcomeRow
  <2> QED
    BY <2>1, <1>1, <1>2 DEF IntentRows
<1>5. \A q \in Executors : Holds(q)' = Holds(q)
  <2>1. Holds(p)' = Holds(p)
    BY <1>1, <1>3, IntentAssumption DEF Holds, Idle
  <2> QED
    BY <2>1, <1>3 DEF Holds
<1>6. i \in Holds(p) /\ (effects[i] = 0 \/ i \in excused)
  BY <1>1 DEF Holds, HoldsKept
<1>s. status[i] = "none" => i \in excused
  BY <1>6 DEF HoldsKept, RowsKept
<1>e. effects \in [Intents -> 0 .. 2]
  BY DEF IntentRows
<1>7. HoldsKept'
  <2>1. \A q, o \in Executors, j \in Intents :
          q # o /\ j \in Holds(q)' /\ j \in Holds(o)' => j \in excused'
    BY <1>1, <1>5 DEF HoldsKept
  <2>2. ASSUME NEW q \in Executors, NEW j \in batch'[q] PROVE effects'[j] = 0 \/ j \in excused'
    <3>1. j \in Intents /\ j \in batch[q]
      BY <1>1, <1>3, <1>4 DEF IntentRows
    <3>2. CASE j # i
      BY <3>1, <3>2, <1>1 DEF HoldsKept
    <3>3. CASE j = i
      <4>1. q # p
        BY <3>3, <1>3
      <4>2. i \in Holds(q)
        BY <3>1, <3>3 DEF Holds
      <4> QED
        BY <3>3, <4>1, <4>2, <1>1, <1>6 DEF HoldsKept
    <3> QED
      BY <3>2, <3>3
  <2>3. ASSUME NEW j \in Intents, effects'[j] > 0
        PROVE  \/ j \in excused' \/ status'[j] \in Marks
               \/ \E q \in Executors : outcome'[q].intent = j
    <3>1. CASE j = i
      BY <3>1, <1>3
    <3>2. CASE j # i
      <4>1. \/ j \in excused \/ status[j] \in Marks
            \/ \E q \in Executors : outcome[q].intent = j
        BY <3>2, <2>3, <1>1 DEF HoldsKept
      <4>2. \A q \in Executors : outcome[q].intent = j => outcome'[q].intent = j
        BY <1>1, <1>3, IntentAssumption DEF Idle
      <4> QED
        BY <4>1, <4>2, <1>1
    <3> QED
      BY <3>1, <3>2
  <2>4. \A j \in Intents : status'[j] = "none" =>
          /\ effects'[j] = 0 \/ j \in excused'
          /\ \A q \in Executors : j \in Holds(q)' => <<q, j>> \in gone'
    BY <1>1, <1>5, <1>s DEF HoldsKept
  <2> QED
    BY <2>1, <2>2, <2>3, <2>4 DEF HoldsKept
<1>8. \A j \in Intents : effects[j] <= effects'[j]
  BY <1>1, <1>e
<1>9. OutcomeKept'
  <2>1. ASSUME NEW q \in Executors \ {p}, outcome[q] # Idle
        PROVE  /\ outcome'[q].intent \in Intents \ batch'[q]
               /\ outcome'[q].mark \in Marks
               /\ outcome'[q].mark = "applied" =>
                     effects'[outcome'[q].intent] > 0 \/ <<q, outcome'[q].intent>> \in gone'
               /\ outcome'[q].mark # "applied" => outcome'[q].intent \in excused'
    <3>1. /\ outcome'[q] = outcome[q] /\ outcome[q].intent \in Intents \ batch[q]
          /\ batch'[q] = batch[q]
          /\ outcome[q].mark \in Marks
          /\ outcome[q].mark = "applied" =>
                effects[outcome[q].intent] > 0 \/ <<q, outcome[q].intent>> \in gone
          /\ outcome[q].mark # "applied" => outcome[q].intent \in excused
      BY <2>1, <1>3 DEF OutcomeKept
    <3>2. effects[outcome[q].intent] <= effects'[outcome[q].intent]
      BY <3>1, <1>8
    <3>3. effects[outcome[q].intent] \in 0 .. 2 /\ effects'[outcome[q].intent] \in 0 .. 2
      BY <3>1, <1>1, <1>e
    <3> QED
      BY <3>1, <3>2, <3>3, <1>1
  <2> QED
    BY <2>1, <1>2, <1>3 DEF OutcomeKept
<1>10. IntentOutcome'
  <2>1. ASSUME NEW j \in Intents
        PROVE  /\ status'[j] = "applied" => effects'[j] > 0
               /\ status'[j] \in {"failed", "skipped"} => j \in excused'
               /\ effects'[j] > 1 => j \in excused'
    <3>1. effects[j] \in 0 .. 2 /\ effects'[j] \in 0 .. 2 /\ effects[j] <= effects'[j]
      BY <1>1, <1>e, <1>8
    <3>2. CASE j # i
      BY <3>1, <3>2, <1>1 DEF IntentOutcome
    <3>3. CASE j = i
      BY <3>1, <3>3, <1>1, <1>6 DEF IntentOutcome
    <3> QED
      BY <3>2, <3>3
  <2> QED
    BY <2>1 DEF IntentOutcome
<1>11. RowsKept'
  BY <1>1 DEF RowsKept
<1> QED
  BY <1>4, <1>7, <1>9, <1>10, <1>11

(* An executor marks what it has executed, or fails to, or dies.             *)
LEMMA EndStep ==
    ASSUME IntentIInv, NEW p \in Executors, MarkIntent(p) \/ ExecutorCrash(p)
    PROVE  IntentIInv'
<1> USE DEF IntentIInv
<1>i. Idle \in OutcomeRow /\ Idle.intent \notin Intents
  BY IntentAssumption DEF Idle, OutcomeRow
<1>1. /\ outcome' = [outcome EXCEPT ![p] = Idle] /\ UNCHANGED <<effects, mailStored>>
      /\ excused \subseteq excused'
      /\ batch' = batch \/ batch' = [batch EXCEPT ![p] = {}]
  BY DEF MarkIntent, ExecutorCrash
<1>2. /\ outcome'[p] = Idle /\ \A q \in Executors \ {p} : outcome'[q] = outcome[q]
      /\ \A q \in Executors : batch'[q] \subseteq batch[q]
      /\ batch' \in [Executors -> SUBSET Intents]
  BY <1>1 DEF IntentRows
<1>3. \A q \in Executors : Holds(q)' \subseteq Holds(q)
  BY <1>i, <1>2 DEF Holds
<1>o. outcome[p] = Idle \/ outcome[p].intent \in Holds(p)
  BY DEF OutcomeKept, Holds
<1>g. \A q \in Executors, j \in Intents :
         /\ <<q, j>> \in gone' => <<q, j>> \in gone
         /\ q # p /\ <<q, j>> \in gone => <<q, j>> \in gone'
         /\ <<q, j>> \in gone /\ j \in Holds(q)' => <<q, j>> \in gone'
  <2>1. CASE MarkIntent(p)
    <3>1. outcome[p] # Idle /\ gone' = gone \ {<<p, outcome[p].intent>>} /\ batch' = batch
      BY <2>1 DEF MarkIntent
    <3>2. outcome[p].intent \notin batch[p]
      BY <3>1 DEF OutcomeKept
    <3> QED
      BY <3>1, <3>2, <1>i, <1>2 DEF Holds
  <2>2. CASE ExecutorCrash(p)
    <3>1. gone' = gone \ ({p} \X Intents) /\ Holds(p)' = {}
      BY <2>2, <1>i, <1>2 DEF ExecutorCrash, Holds, IntentRows
    <3> QED
      BY <3>1
  <2> QED
    BY <2>1, <2>2
<1>4. /\ status' \in [Intents -> {"none", "pending"} \cup Marks]
      /\ \A j \in Intents : \/ status'[j] = status[j]
                            \/ /\ j = outcome[p].intent /\ outcome[p] # Idle
                               /\ <<p, j>> \notin gone /\ status[j] = "pending"
                               /\ status'[j] = outcome[p].mark /\ status'[j] \in Marks
      /\ \/ outcome[p] = Idle \/ outcome[p].intent \in excused'
         \/ status'[outcome[p].intent] \in Marks
  <2>1. CASE ExecutorCrash(p)
    BY <2>1, <1>o DEF ExecutorCrash, IntentRows
  <2>2. CASE MarkIntent(p)
    <3> DEFINE i == outcome[p].intent
    <3>1. i \in Intents /\ outcome[p].mark \in Marks /\ outcome[p] # Idle
      BY <2>2 DEF MarkIntent, OutcomeKept
    <3>2. status[i] = "none" \/ <<p, i>> \in gone => i \in excused
      BY <3>1, <1>o DEF HoldsKept, RowsKept
    <3>3. \/ status' = [status EXCEPT ![i] =
                IF @ = "pending" /\ <<p, i>> \notin gone THEN outcome[p].mark ELSE @]
          \/ excused' = excused \cup {i} /\ status' = status
      BY <2>2 DEF MarkIntent
    <3> HIDE DEF i
    <3>4. CASE status' = [status EXCEPT ![i] =
                IF @ = "pending" /\ <<p, i>> \notin gone THEN outcome[p].mark ELSE @]
      <4>1. CASE status[i] = "pending" /\ <<p, i>> \notin gone
        BY <3>1, <3>4, <4>1 DEF IntentRows, i
      <4>2. CASE ~(status[i] = "pending" /\ <<p, i>> \notin gone)
        BY <3>1, <3>2, <3>4, <4>2, <1>1 DEF IntentRows, i
      <4> QED
        BY <4>1, <4>2
    <3>5. CASE excused' = excused \cup {i} /\ status' = status
      BY <3>1, <3>5 DEF IntentRows, i
    <3> QED
      BY <3>3, <3>4, <3>5
  <2> QED
    BY <2>1, <2>2
<1>5. IntentRows'
  BY <1>i, <1>1, <1>2, <1>4 DEF IntentRows
<1>6. HoldsKept'
  <2>1. \A q, o \in Executors, j \in Intents :
          q # o /\ j \in Holds(q)' /\ j \in Holds(o)' => j \in excused'
    BY <1>1, <1>3 DEF HoldsKept
  <2>2. \A q \in Executors : \A j \in batch'[q] : effects'[j] = 0 \/ j \in excused'
    BY <1>1, <1>2 DEF HoldsKept
  <2>3. ASSUME NEW j \in Intents, effects'[j] > 0
        PROVE  \/ j \in excused' \/ status'[j] \in Marks
               \/ \E q \in Executors : outcome'[q].intent = j
    <3>1. \/ j \in excused \/ status[j] \in Marks
          \/ \E q \in Executors : outcome[q].intent = j
      BY <2>3, <1>1 DEF HoldsKept
    <3>2. CASE outcome[p].intent = j
      <4>1. outcome[p] # Idle
        BY <3>2, <1>i
      <4> QED
        BY <4>1, <3>2, <1>4
    <3>3. CASE outcome[p].intent # j
      BY <3>1, <3>3, <1>1, <1>2, <1>4
    <3> QED
      BY <3>2, <3>3
  <2>4. \A j \in Intents : status'[j] = "none" =>
          /\ effects'[j] = 0 \/ j \in excused'
          /\ \A q \in Executors : j \in Holds(q)' => <<q, j>> \in gone'
    BY <1>1, <1>3, <1>4, <1>g DEF HoldsKept, Marks
  <2> QED
    BY <2>1, <2>2, <2>3, <2>4 DEF HoldsKept
<1>7. OutcomeKept' /\ RowsKept'
  <2>1. RowsKept'
    BY <1>1, <1>4, <1>g DEF RowsKept
  <2>2. ASSUME NEW q \in Executors \ {p}, outcome[q] # Idle
        PROVE  /\ outcome'[q].intent \in Intents \ batch'[q]
               /\ outcome'[q].mark \in Marks
               /\ outcome'[q].mark = "applied" =>
                     effects'[outcome'[q].intent] > 0 \/ <<q, outcome'[q].intent>> \in gone'
               /\ outcome'[q].mark # "applied" => outcome'[q].intent \in excused'
    BY <2>2, <1>1, <1>2, <1>g DEF OutcomeKept
  <2> QED
    BY <2>1, <2>2, <1>1, <1>2 DEF OutcomeKept
<1>8. IntentOutcome'
  <2>1. ASSUME NEW j \in Intents
        PROVE  /\ status'[j] = "applied" => effects'[j] > 0
               /\ status'[j] \in {"failed", "skipped"} => j \in excused'
               /\ effects'[j] > 1 => j \in excused'
    <3>1. CASE status'[j] = status[j]
      BY <3>1, <1>1 DEF IntentOutcome
    <3>2. CASE /\ j = outcome[p].intent /\ outcome[p] # Idle /\ <<p, j>> \notin gone
               /\ status'[j] = outcome[p].mark
      BY <3>2, <1>1 DEF IntentOutcome, OutcomeKept
    <3> QED
      BY <3>1, <3>2, <1>4
  <2> QED
    BY <2>1 DEF IntentOutcome
<1> QED
  BY <1>5, <1>6, <1>7, <1>8

LEMMA IntentStart == IntentInit => IntentIInv
<1> SUFFICES ASSUME IntentInit PROVE IntentIInv
  OBVIOUS
<1> USE DEF IntentInit
<1>1. IntentRows
  BY DEF IntentRows, Idle, OutcomeRow
<1>2. RowsKept /\ HoldsKept /\ OutcomeKept /\ IntentOutcome
  BY IntentAssumption DEF RowsKept, HoldsKept, Holds, OutcomeKept, IntentOutcome, Idle
<1> QED
  BY <1>1, <1>2 DEF IntentIInv

LEMMA IntentStep == IntentIInv /\ [IntentNext]_intentVars => IntentIInv'
<1> SUFFICES ASSUME IntentIInv, [IntentNext]_intentVars PROVE IntentIInv'
  OBVIOUS
<1>1. CASE UNCHANGED intentVars
  BY <1>1 DEF intentVars, rowVars, IntentIInv, IntentRows, RowsKept, HoldsKept, Holds,
     OutcomeKept, IntentOutcome
<1> QED
  BY <1>1, FetcherKeeps, DeleteKeeps, ReadStep, ExecuteStep, EndStep DEF IntentNext, ExecutorStep

(* However rounds, deletions and executors interleave, fail and die: an      *)
(* intent is marked as applied only where it was carried out, given up only  *)
(* where a failure met it, and carried out twice only where executors        *)
(* overlapped, one was cut off, or held it while its mail was deleted        *)
(* (processScopedIntents, Execute, UpdateActionIntentStatus).                *)
THEOREM IntentsTold == IntentSpec => []IntentOutcome
<1>1. IntentIInv => IntentOutcome
  BY DEF IntentIInv
<1> QED
  BY <1>1, IntentStart, IntentStep, PTL DEF IntentSpec

IntentHeld ==
    /\ fetching \in [Fetchers -> {"none", "sync", "backfill"}]
    /\ untried \in [Fetchers -> SUBSET Intents] /\ mailStored \in BOOLEAN
    /\ gone \subseteq Executors \X Intents /\ excused \subseteq Intents
    /\ intentFaults \in 0 .. IntentFaults

LEMMA IntentFaultBound ==
    ASSUME intentFaults \in 0 .. IntentFaults, IntentFault \/ UNCHANGED intentFaults
    PROVE  intentFaults' \in 0 .. IntentFaults
BY IntentAssumption DEF IntentFault

LEMMA IntentHeldStep == IntentIInv /\ IntentHeld /\ [IntentNext]_intentVars => IntentHeld'
<1> SUFFICES ASSUME IntentIInv, IntentHeld, [IntentNext]_intentVars PROVE IntentHeld'
  OBVIOUS
<1> USE DEF IntentHeld
<1>1. CASE UNCHANGED intentVars
  BY <1>1 DEF intentVars, rowVars
<1>h. \A p \in Executors : Holds(p) \subseteq Intents
  BY DEF Holds, IntentIInv, IntentRows
<1>2. ASSUME NEW f \in Fetchers, FetcherStep(f) PROVE IntentHeld'
  <2>1. intentFaults' \in 0 .. IntentFaults
    BY <1>2, IntentFaultBound DEF FetcherStep, FetchMail, EndFetch, RecordIntent
  <2>2. fetching' \in [Fetchers -> {"none", "sync", "backfill"}] /\ mailStored' \in BOOLEAN
    BY <1>2 DEF FetcherStep, FetchMail, EndFetch, RecordIntent
  <2>3. untried' \in [Fetchers -> SUBSET Intents] /\ UNCHANGED <<gone, excused>>
    BY <1>2 DEF FetcherStep, FetchMail, EndFetch, RecordIntent, rowVars
  <2> QED
    BY <2>1, <2>2, <2>3
<1>d. CASE DeleteMail
  BY <1>d, <1>h DEF DeleteMail
<1>3. ASSUME NEW p \in Executors, ReadBatch(p) PROVE IntentHeld'
  <2>1. PICK b \in SUBSET Pending :
          excused' = excused \cup {i \in b : \E q \in Executors \ {p} : i \in Holds(q)}
    BY <1>3 DEF ReadBatch
  <2>2. excused' \subseteq Intents
    BY <2>1 DEF Pending
  <2> QED
    BY <1>3, <2>2 DEF ReadBatch
<1>4. ASSUME NEW p \in Executors, NEW i \in Intents, Execute(p, i) PROVE IntentHeld'
  <2>1. intentFaults' \in 0 .. IntentFaults
    BY <1>4, IntentFaultBound DEF Execute
  <2> QED
    BY <1>4, <2>1 DEF Execute
<1>5. ASSUME NEW p \in Executors, MarkIntent(p) \/ ExecutorCrash(p) PROVE IntentHeld'
  <2>1. intentFaults' \in 0 .. IntentFaults
    BY <1>5, IntentFaultBound DEF MarkIntent, ExecutorCrash
  <2>3. outcome[p] # Idle => outcome[p].intent \in Intents
    BY DEF IntentIInv, OutcomeKept
  <2> QED
    BY <1>5, <1>h, <2>1, <2>3 DEF MarkIntent, ExecutorCrash
<1> QED
  BY <1>1, <1>2, <1>d, <1>3, <1>4, <1>5 DEF IntentNext, ExecutorStep

(* Intents, batches and outcomes keep their types.                           *)
THEOREM IntentTypeCorrect == IntentSpec => []IntentTypeOK
<1>1. IntentInit => IntentHeld
  <2>1. 0 \in 0 .. IntentFaults
    BY IntentAssumption
  <2> QED
    BY <2>1 DEF IntentInit, IntentHeld
<1>2. IntentIInv /\ IntentHeld => IntentTypeOK
  <2>1. OutcomeRow = [intent : Intents \cup {"none"},
                      mark : {"none", "applied", "failed", "skipped"}]
    <3>1. Marks \cup {"none"} = {"none", "applied", "failed", "skipped"}
      BY DEF Marks
    <3> QED
      BY <3>1 DEF OutcomeRow
  <2>2. {"none", "pending"} \cup Marks = {"none", "pending", "applied", "failed", "skipped"}
    BY DEF Marks
  <2> QED
    BY <2>1, <2>2 DEF IntentIInv, IntentHeld, IntentTypeOK, IntentRows
<1> QED
  BY <1>1, <1>2, IntentStart, IntentStep, IntentHeldStep, PTL DEF IntentSpec
=============================================================================

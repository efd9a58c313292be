--------------------------- MODULE VacationReplies ---------------------------
(***************************************************************************)
(* Automatic replies during a vacation (backend/internal/email/store.go,   *)
(* ClaimNextVacationDelivery and its marks; scheduler.go,                  *)
(* runVacationReplies).  The schedulers of several processes claim the     *)
(* oldest mail that wants a reply, send, and mark the delivery.  A sender  *)
(* is to have one reply in 24 hours, and a delivery whose process died is  *)
(* to be taken up again.  Times are ages: they grow until they matter no   *)
(* more.  One active vacation.                                             *)
(***************************************************************************)
EXTENDS Naturals, FiniteSets

CONSTANTS
    Senders,        \* processes with a scheduler
    Letters,        \* mails that want a reply, 1, 2, ... in the order of creation
    RecipientOf,    \* who is to be answered
    Nobody,
    Day, Retry,     \* 24 hours and retryAfter, in ticks
    VacFaults       \* bound on failures and crashes

ASSUME VacAssumption ==
    /\ Letters \subseteq Nat /\ DOMAIN RecipientOf = Letters
    /\ Day \in Nat \ {0} /\ Retry \in 1 .. Day /\ VacFaults \in Nat
    /\ Nobody \notin Letters

VARIABLES
    letters,        \* mails that came in
    delivery,       \* email_vacation_deliveries
    chosen,         \* the mail whose row a process has locked
    sending,        \* the mail a process claimed and sends the reply to
    replied,        \* history: mails that were answered
    vacFaults

vacVars == <<letters, delivery, chosen, sending, replied, vacFaults>>

NoDelivery == [status |-> "none", claimed |-> Day, updated |-> Day]

VacInit ==
    /\ letters = {}
    /\ delivery = [e \in Letters |-> NoDelivery]
    /\ chosen = [p \in Senders |-> Nobody]
    /\ sending = [p \in Senders |-> Nobody]
    /\ replied = {}
    /\ vacFaults = 0

VacFault == vacFaults < VacFaults /\ vacFaults' = vacFaults + 1

LetterArrives ==
    /\ \E e \in Letters \ letters :
          (\A d \in Letters : d < e => d \in letters) /\ letters' = letters \cup {e}
    /\ UNCHANGED <<delivery, chosen, sending, replied, vacFaults>>

Older(age) == IF age < Day THEN age + 1 ELSE age

(* A send ends before its claim could be taken up again.                   *)
VacTick ==
    /\ \A p \in Senders : sending[p] # Nobody => delivery[sending[p]].updated + 1 < Retry
    /\ delivery' = [e \in Letters |->
          [delivery[e] EXCEPT !.claimed = Older(@), !.updated = Older(@)]]
    /\ UNCHANGED <<letters, chosen, sending, replied, vacFaults>>
-----------------------------------------------------------------------------
(* ClaimNextVacationDelivery *)

TakesPart(d) == d.status \in {"claimed", "sent"} /\ d.claimed < Day

Unanswered(e) ==
    \/ delivery[e].status = "none"
    \/ delivery[e].status \in {"claimed", "failed"} /\ delivery[e].updated >= Retry

IsCandidate(e) ==
    /\ e \in letters /\ Unanswered(e)
    /\ \A d \in Letters \ {e} :
          RecipientOf[d] = RecipientOf[e] => ~TakesPart(delivery[d])

(* The oldest candidate whose row nobody has locked (SKIP LOCKED).         *)
ChooseLetter(p) ==
    LET open == {e \in Letters : IsCandidate(e) /\ \A q \in Senders : chosen[q] # e}
    IN  /\ chosen[p] = Nobody /\ sending[p] = Nobody
        /\ \E e \in open : (\A d \in open : e <= d) /\ chosen' = [chosen EXCEPT ![p] = e]
        /\ UNCHANGED <<letters, delivery, sending, replied, vacFaults>>

(* Variant: a claim of any age.                                            *)
RecentlyClaimedEver(e) ==
    \E d \in Letters : RecipientOf[d] = RecipientOf[e]
                       /\ delivery[d].status \in {"claimed", "sent"}

(* Variant: the check is left to the query.                                *)
NeverRecent(e) == FALSE

(* Under the advisory lock of the recipient.  A delivery that was claimed  *)
(* and never marked counts against itself.                                 *)
RecentlyClaimed(e) ==
    \E d \in Letters : RecipientOf[d] = RecipientOf[e] /\ TakesPart(delivery[d])

ClaimDelivery(p) ==
    LET e == chosen[p]
    IN  /\ e # Nobody
        /\ chosen' = [chosen EXCEPT ![p] = Nobody]
        /\ IF RecentlyClaimed(e) \/ ~Unanswered(e)
           THEN UNCHANGED <<delivery, sending>>
           ELSE /\ delivery' = [delivery EXCEPT ![e] =
                      [status |-> "claimed", claimed |-> 0, updated |-> 0]]
                /\ sending' = [sending EXCEPT ![p] = e]
        /\ UNCHANGED <<letters, replied, vacFaults>>
-----------------------------------------------------------------------------
(* runVacationReplies *)

Mark(e, status) ==
    delivery' = IF delivery[e].status = "claimed"
                THEN [delivery EXCEPT ![e].status = status, ![e].updated = 0] ELSE delivery

(* The reply goes out; MarkVacationDeliverySent follows, whose failure is  *)
(* logged                                                                  *)
ReplySent(p) ==
    LET e == sending[p]
    IN  /\ e # Nobody
        /\ sending' = [sending EXCEPT ![p] = Nobody]
        /\ replied' = replied \cup {e}
        /\ \/ Mark(e, "sent") /\ UNCHANGED vacFaults
           \/ VacFault /\ UNCHANGED delivery
        /\ UNCHANGED <<letters, chosen>>

ReplyFails(p) ==
    LET e == sending[p]
    IN  /\ e # Nobody /\ VacFault
        /\ sending' = [sending EXCEPT ![p] = Nobody]
        /\ Mark(e, "failed") \/ UNCHANGED delivery
        /\ UNCHANGED <<letters, chosen, replied>>

(* A crash, before or after the reply went out.                            *)
SenderCrash(p) ==
    /\ chosen[p] # Nobody \/ sending[p] # Nobody
    /\ VacFault
    /\ chosen' = [chosen EXCEPT ![p] = Nobody]
    /\ sending' = [sending EXCEPT ![p] = Nobody]
    /\ replied' \in {replied, replied \cup ({sending[p]} \ {Nobody})}
    /\ UNCHANGED <<letters, delivery>>
-----------------------------------------------------------------------------
SenderStep(p) == ChooseLetter(p) \/ ClaimDelivery(p) \/ ReplySent(p)

VacNext ==
    \/ LetterArrives \/ VacTick
    \/ \E p \in Senders : SenderStep(p) \/ ReplyFails(p) \/ SenderCrash(p)

VacSpec == VacInit /\ [][VacNext]_vacVars

(* The loops tick for ever, and time passes.                               *)
VacFairness == WF_vacVars(VacTick) /\ \A p \in Senders : WF_vacVars(SenderStep(p))
-----------------------------------------------------------------------------
(* Properties *)

(* Deliveries and processes have their types.                              *)
VacTypeOK ==
    /\ letters \subseteq Letters
    /\ delivery \in [Letters -> [status : {"none", "claimed", "sent", "failed"},
                                 claimed : 0 .. Day, updated : 0 .. Day]]
    /\ chosen \in [Senders -> Letters \cup {Nobody}]
    /\ sending \in [Senders -> Letters \cup {Nobody}]
    /\ replied \subseteq letters
    /\ vacFaults \in 0 .. VacFaults

(* Processes that choose different mails of one sender at a time, and      *)
(* deliveries taken up again after a crash or a failure: no two deliveries *)
(* of a sender are claimed or sent within 24 hours                         *)
(* (ClaimNextVacationDelivery).                                            *)
OneReplyADay ==
    \A d, e \in Letters :
        RecipientOf[d] = RecipientOf[e] /\ TakesPart(delivery[d]) /\ TakesPart(delivery[e])
            => d = e

(* Every mail is answered in the end, even where a delivery that was never *)
(* marked stands at the head of the queue, where it holds up every sender  *)
(* until it is a day old (ClaimNextVacationDelivery, runVacationReplies).  *)
LetterIsAnswered == <>[](letters \subseteq replied)
=============================================================================

----------------------------- MODULE EmailCodes -----------------------------
(***************************************************************************)
(* Verification codes sent by mail (backend/internal/auth/email_codes.go,  *)
(* Generate and Verify, for one address and purpose).  Both read first and *)
(* write later, in statements of their own, and requests overlap.          *)
(***************************************************************************)
EXTENDS Naturals, FiniteSets

CONSTANTS
    Requests,       \* requests for a code
    Verifiers,      \* requests that present one
    CodeInterval,   \* codeMinInterval
    CodeTTL,        \* codeTTL
    CodeDailyMax,   \* codeDailyMax
    CodeTime        \* bound on the clock, within one day

ASSUME CodeAssumption ==
    {CodeInterval, CodeTTL, CodeDailyMax, CodeTime} \subseteq Nat

(* A request makes one code, so the code is named by it.                     *)
VARIABLES
    codeClock,
    sentAt,         \* created_at of the row of each code
    usedCodes,      \* codes with used_at
    generating,     \* where each request is
    verifying,      \* the code a verifier found
    accepted        \* history: how often a code was accepted

codeVars == <<codeClock, sentAt, usedCodes, generating, verifying, accepted>>

Codes  == {r \in Requests : sentAt[r] <= CodeTime}
Unsent == CodeTime + 1

CodeInit ==
    /\ codeClock = 0 /\ usedCodes = {}
    /\ sentAt = [r \in Requests |-> Unsent]
    /\ generating = [r \in Requests |-> "idle"]
    /\ verifying = [v \in Verifiers |-> {}]
    /\ accepted = [r \in Requests |-> 0]

CodeTick ==
    /\ codeClock < CodeTime /\ codeClock' = codeClock + 1
    /\ UNCHANGED <<sentAt, usedCodes, generating, verifying, accepted>>

(* The two limits, read before the code is made.                             *)
CheckLimits(r) ==
    LET allowed == /\ \A c \in Codes : codeClock - sentAt[c] >= CodeInterval
                   /\ Cardinality(Codes) < CodeDailyMax
    IN  /\ generating[r] = "idle"
        /\ generating' = [generating EXCEPT ![r] = IF allowed THEN "allowed" ELSE "refused"]
        /\ UNCHANGED <<codeClock, sentAt, usedCodes, verifying, accepted>>

InsertCode(r) ==
    /\ generating[r] = "allowed"
    /\ generating' = [generating EXCEPT ![r] = "sent"]
    /\ sentAt' = [sentAt EXCEPT ![r] = codeClock]
    /\ UNCHANGED <<codeClock, usedCodes, verifying, accepted>>

(* Verify, first part: the row whose hash fits, among the unused and fresh.  *)
FindCode(v, c) ==
    /\ verifying[v] = {} /\ c \in Codes \ usedCodes /\ codeClock < sentAt[c] + CodeTTL
    /\ verifying' = [verifying EXCEPT ![v] = {c}]
    /\ UNCHANGED <<codeClock, sentAt, usedCodes, generating, accepted>>

(* Variant: the update does not ask for used_at IS NULL.                     *)
MarkUsedBlindly(v) ==
    /\ verifying[v] # {}
    /\ usedCodes' = usedCodes \cup verifying[v]
    /\ accepted' = [c \in Requests |-> accepted[c] + Cardinality(verifying[v] \cap {c})]
    /\ verifying' = [verifying EXCEPT ![v] = {}]
    /\ UNCHANGED <<codeClock, sentAt, generating>>

(* Second part: accepted if the update found the row still unused.           *)
MarkUsed(v) ==
    /\ verifying[v] # {}
    /\ usedCodes' = usedCodes \cup verifying[v]
    /\ accepted' = [c \in Requests |->
                      accepted[c] + Cardinality((verifying[v] \ usedCodes) \cap {c})]
    /\ verifying' = [verifying EXCEPT ![v] = {}]
    /\ UNCHANGED <<codeClock, sentAt, generating>>

CodeNext ==
    \/ CodeTick
    \/ \E r \in Requests : CheckLimits(r) \/ InsertCode(r)
    \/ \E v \in Verifiers : MarkUsed(v) \/ \E c \in Requests : FindCode(v, c)

CodeSpec == CodeInit /\ [][CodeNext]_codeVars
-----------------------------------------------------------------------------
(* Properties *)

(* Rows and requests have their types.                                       *)
CodeTypeOK ==
    /\ codeClock \in 0 .. CodeTime
    /\ sentAt \in [Requests -> 0 .. Unsent]
    /\ usedCodes \subseteq Codes
    /\ generating \in [Requests -> {"idle", "allowed", "refused", "sent"}]
    /\ verifying \in [Verifiers -> SUBSET Codes]
    /\ accepted \in [Requests -> Nat]

(* However many requests present a code at once, it is accepted once         *)
(* (Verify's conditional update).                                            *)
AcceptedOnce == \A c \in Requests : accepted[c] <= 1
=============================================================================

---------------------------- MODULE ActionIntents ----------------------------
(***************************************************************************)
(* The actions that a mail rule asks for, on the server's side of the mail *)
(* (backend/internal/email: fetcher.go recordActionIntent, backfill.go,    *)
(* store.go *ActionIntent*, scheduler.go processScopedIntents;             *)
(* server/intent_executor.go).  The row of an intent refers to the row of  *)
(* its mail.  A synchronisation round records the intents of a mail and    *)
(* then inserts the mail, a backfill inserts the mail first.  Once a       *)
(* minute the scheduler of every process reads a batch of pending intents, *)
(* executes each and marks it.  Reading does not reserve: two processes    *)
(* may execute one intent.  One mail, which may be deleted.                *)
(***************************************************************************)
EXTENDS Naturals, FiniteSets

CONSTANTS
    Fetchers,       \* what may fetch the mail: a Sync or a backfill of a process
    Executors,      \* processes with a scheduler
    Intents,        \* the intents of the mail, of one user and workspace
    BatchSize,
    IntentFaults    \* bound on failures and crashes

ASSUME IntentAssumption ==
    BatchSize \in Nat \ {0} /\ IntentFaults \in Nat /\ "none" \notin Intents

VARIABLES
    fetching,       \* what a fetcher is at with the mail
    untried,        \* the intents its round has not tried to record yet
    mailStored,     \* the row of the mail exists
    status,         \* email_action_intents.status, "none" without a row
    batch,          \* what a process has read and not executed yet
    outcome,        \* what the execution under way of a process came to
    gone,           \* what a process read in a row deleted since
    effects,        \* how often an intent was carried out, since its mail is stored
    excused,        \* history: intents met by a failure, a crash, an overlap or a deletion
    intentFaults

rowVars == <<batch, outcome, gone, effects, excused>>
intentVars == <<fetching, untried, mailStored, status, rowVars, intentFaults>>

Idle == [intent |-> "none", mark |-> "none"]
Holds(p) == batch[p] \cup ({outcome[p].intent} \cap Intents)

IntentInit ==
    /\ fetching = [f \in Fetchers |-> "none"] /\ untried = [f \in Fetchers |-> {}]
    /\ mailStored = FALSE
    /\ status = [i \in Intents |-> "none"]
    /\ batch = [p \in Executors |-> {}]
    /\ outcome = [p \in Executors |-> Idle]
    /\ gone = {} /\ excused = {}
    /\ effects = [i \in Intents |-> 0]
    /\ intentFaults = 0

IntentFault == intentFaults < IntentFaults /\ intentFaults' = intentFaults + 1
-----------------------------------------------------------------------------
(* The mail is fetched *)

(* The mail is in the window of a Sync; or of a BackfillHistory, which has   *)
(* inserted it (it skips a mail whose insert failed).                        *)
FetchMail(f) ==
    /\ fetching[f] = "none"
    /\ \/ fetching' = [fetching EXCEPT ![f] = "sync"] /\ UNCHANGED mailStored
       \/ fetching' = [fetching EXCEPT ![f] = "backfill"] /\ mailStored' = TRUE
    /\ untried' = [untried EXCEPT ![f] = Intents]
    /\ UNCHANGED <<status, rowVars, intentFaults>>

(* Variant: the insert is an upsert.                                         *)
UpsertRow(i) == [status EXCEPT ![i] = IF mailStored THEN "pending" ELSE @]

(* InsertActionIntent: the table refuses an intent without its mail, and     *)
(* does nothing where the key of the intent exists.                          *)
InsertRow(i) == [status EXCEPT ![i] = IF mailStored /\ @ = "none" THEN "pending" ELSE @]

(* recordActionIntent: a failed or refused insert is logged, the round goes  *)
(* on.                                                                       *)
RecordIntent(f, i) ==
    /\ i \in untried[f]
    /\ untried' = [untried EXCEPT ![f] = @ \ {i}]
    /\ \/ status' = InsertRow(i) /\ UNCHANGED intentFaults
       \/ IntentFault /\ UNCHANGED status
    /\ UNCHANGED <<fetching, mailStored, rowVars>>

(* Then a Sync inserts the mail (InsertEmailIfNew), or fails to.             *)
EndFetch(f) ==
    /\ fetching[f] # "none" /\ untried[f] = {}
    /\ fetching' = [fetching EXCEPT ![f] = "none"]
    /\ \/ mailStored' = (mailStored \/ fetching[f] = "sync") /\ UNCHANGED intentFaults
       \/ fetching[f] = "sync" /\ IntentFault /\ UNCHANGED mailStored
    /\ UNCHANGED <<untried, status, rowVars>>

(* DeleteEmailsByIDsScoped, and the cascade when an account is deleted.      *)
DeleteMail ==
    /\ mailStored /\ mailStored' = FALSE
    /\ status' = [i \in Intents |-> "none"]
    /\ gone' = gone \cup {h \in Executors \X Intents : h[2] \in Holds(h[1])}
    /\ excused' = excused \cup UNION {Holds(p) : p \in Executors}
    /\ effects' = [i \in Intents |-> 0]
    /\ UNCHANGED <<fetching, untried, batch, outcome, intentFaults>>
-----------------------------------------------------------------------------
(* A process *)

Pending == {i \in Intents : status[i] = "pending"}

(* ClaimActionIntents, a SELECT.                                             *)
ReadBatch(p) ==
    /\ batch[p] = {} /\ outcome[p] = Idle
    /\ \E b \in SUBSET Pending \ {{}} :
          /\ Cardinality(b) = IF Cardinality(Pending) < BatchSize
                              THEN Cardinality(Pending) ELSE BatchSize
          /\ batch' = [batch EXCEPT ![p] = b]
          /\ excused' = excused \cup {i \in b : \E q \in Executors \ {p} : i \in Holds(q)}
    /\ UNCHANGED <<fetching, untried, mailStored, status, outcome, gone, effects,
                   intentFaults>>

Finish(p, i, mark) ==
    /\ outcome' = [outcome EXCEPT ![p] = [intent |-> i, mark |-> mark]]
    /\ batch' = [batch EXCEPT ![p] = @ \ {i}]

CarriedOut(i) == [effects EXCEPT ![i] = IF @ < 2 THEN @ + 1 ELSE @]

(* Execute: a mail that was deleted meanwhile is skipped.  The attempt may   *)
(* fail, which does not tell whether it had its effect, or find nothing to   *)
(* move or nobody to answer.                                                 *)
Execute(p, i) ==
    /\ i \in batch[p] /\ outcome[p] = Idle
    /\ \/ ~mailStored /\ Finish(p, i, "skipped")
          /\ UNCHANGED <<effects, excused, intentFaults>>
       \/ mailStored /\ Finish(p, i, "applied")
          /\ effects' = CarriedOut(i) /\ UNCHANGED <<excused, intentFaults>>
       \/ /\ IntentFault /\ excused' = excused \cup {i}
          /\ \/ Finish(p, i, "failed") /\ effects' = effects
             \/ mailStored /\ Finish(p, i, "failed") /\ effects' = CarriedOut(i)
             \/ mailStored /\ Finish(p, i, "skipped") /\ effects' = effects
    /\ UNCHANGED <<fetching, untried, mailStored, status, gone>>

(* UpdateActionIntentStatus: only the row that was read is marked, and only  *)
(* while it is pending.  A failure is logged, and the intent stays pending.  *)
MarkIntent(p) ==
    LET i == outcome[p].intent
    IN  /\ outcome[p] # Idle
        /\ outcome' = [outcome EXCEPT ![p] = Idle]
        /\ gone' = gone \ {<<p, i>>}
        /\ \/ /\ status' = [status EXCEPT ![i] =
                    IF @ = "pending" /\ <<p, i>> \notin gone THEN outcome[p].mark ELSE @]
              /\ UNCHANGED <<excused, intentFaults>>
           \/ IntentFault /\ excused' = excused \cup {i} /\ UNCHANGED status
        /\ UNCHANGED <<fetching, untried, mailStored, batch, effects>>

ExecutorCrash(p) ==
    /\ Holds(p) # {} /\ IntentFault
    /\ excused' = excused \cup Holds(p)
    /\ batch' = [batch EXCEPT ![p] = {}]
    /\ outcome' = [outcome EXCEPT ![p] = Idle]
    /\ gone' = gone \ ({p} \X Intents)
    /\ UNCHANGED <<fetching, untried, mailStored, status, effects>>
-----------------------------------------------------------------------------
FetcherStep(f) == FetchMail(f) \/ EndFetch(f) \/ \E i \in Intents : RecordIntent(f, i)
ExecutorStep(p) == ReadBatch(p) \/ MarkIntent(p) \/ \E i \in Intents : Execute(p, i)

IntentNext ==
    \/ DeleteMail \/ \E f \in Fetchers : FetcherStep(f)
    \/ \E p \in Executors : ExecutorStep(p) \/ ExecutorCrash(p)

IntentSpec == IntentInit /\ [][IntentNext]_intentVars
-----------------------------------------------------------------------------
(* Properties *)

(* Rows, rounds and batches have their types.                                *)
IntentTypeOK ==
    /\ fetching \in [Fetchers -> {"none", "sync", "backfill"}]
    /\ untried \in [Fetchers -> SUBSET Intents]
    /\ mailStored \in BOOLEAN
    /\ status \in [Intents -> {"none", "pending", "applied", "failed", "skipped"}]
    /\ batch \in [Executors -> SUBSET Intents]
    /\ outcome \in [Executors -> [intent : Intents \cup {"none"},
                                  mark : {"none", "applied", "failed", "skipped"}]]
    /\ gone \subseteq Executors \X Intents
    /\ effects \in [Intents -> 0 .. 2]
    /\ excused \subseteq Intents
    /\ intentFaults \in 0 .. IntentFaults

(* What the table says of an intent is what happened to the mail, for all    *)
(* interleavings of rounds that meet the mail again, deletions and           *)
(* executors: it is applied only if carried out since its mail is stored,    *)
(* given up only if a failure met it, and carried out twice only if          *)
(* executors overlapped, one was cut off, or the mail was deleted and came   *)
(* back while one held it (recordActionIntent, Execute,                      *)
(* UpdateActionIntentStatus, the foreign key of email_action_intents).       *)
IntentOutcome ==
    \A i \in Intents :
        /\ status[i] = "applied" => effects[i] > 0
        /\ status[i] \in {"failed", "skipped"} => i \in excused
        /\ effects[i] > 1 => i \in excused

(* What fetcher.go:940-941 says, that the actions of a rule land in the      *)
(* table of intents: a mail that its rounds have stored without any failure  *)
(* has the rows of its intents.  The insert of every intent of a new mail    *)
(* comes before the insert of the mail, and the foreign key refuses it.      *)
IntentsLand ==
    mailStored /\ intentFaults = 0 /\ (\A f \in Fetchers : fetching[f] = "none")
        => \A i \in Intents : status[i] # "none"
=============================================================================

------------------------------ MODULE MailSync ------------------------------
(***************************************************************************)
(* Synchronisation of one mail account (backend/internal/email/fetcher.go, *)
(* Sync and syncPOP3Fallback, with the store operations they call).  A     *)
(* round reads last_synced_uid, asks the server for what lies above it,    *)
(* inserts the oldest part of that, and writes last_synced_uid back.       *)
(* Poll loop, pipeline and handlers start rounds; a process runs one round *)
(* of an account at a time, other processes know nothing of it.            *)
(*                                                                         *)
(* Mail is identified by its IMAP uid.  The names are prefixed so that     *)
(* small components can be checked by one run.                             *)
(***************************************************************************)
EXTENDS Naturals, FiniteSets

CONSTANTS
    MailPods,       \* processes that share the database
    MaxUid,         \* bound on the mails that arrive
    UidWindow,      \* syncUIDWindow
    Headerless,     \* mails without a Message-ID header
    MailFaults      \* bound on faults

Uids == 1 .. MaxUid

ASSUME MailAssumption ==
    /\ MaxUid \in Nat /\ UidWindow \in Nat \ {0} /\ MailFaults \in Nat
    /\ Headerless \subseteq Uids

VARIABLES
    arrived,        \* mails of the mailbox: uids 1 .. arrived
    mailRows,       \* rows of emails for each mail, by the path of their id
    lastSyncedUid,  \* email_accounts.last_synced_uid
    seenUidls,      \* email_pop3_seen
    round,          \* the round of each process
    mailFaults,     \* how many faults there were
    insertFailed    \* history: mails whose insert failed

mailVars == <<arrived, mailRows, lastSyncedUid, seenUidls, round, mailFaults,
              insertFailed>>

MailRound == [pc   : {"idle", "imap", "pop3", "inserting", "marking", "stamping"},
              path : {"imap", "pop3"}, from : 0 .. MaxUid, high : 0 .. MaxUid,
              todo : SUBSET Uids, got : SUBSET Uids]

NoRound == [pc |-> "idle", path |-> "imap", from |-> 0, high |-> 0,
            todo |-> {}, got |-> {}]

InMailbox(u) == u <= arrived
IsStored(u)  == mailRows[u] # {}

MailInit ==
    /\ arrived = 0
    /\ mailRows = [u \in Uids |-> {}]
    /\ lastSyncedUid = 0
    /\ seenUidls = {}
    /\ round = [p \in MailPods |-> NoRound]
    /\ mailFaults = 0
    /\ insertFailed = {}

MailFault == mailFaults < MailFaults /\ mailFaults' = mailFaults + 1

MailArrives ==
    /\ arrived < MaxUid
    /\ arrived' = arrived + 1
    /\ UNCHANGED <<mailRows, lastSyncedUid, seenUidls, round, mailFaults, insertFailed>>
-----------------------------------------------------------------------------
(* A round *)

Goto(p, r) == round' = [round EXCEPT ![p] = r]

(* The guard of the process (inflight) and the account as it is now.       *)
StartRound(p) ==
    /\ round[p].pc = "idle"
    /\ Goto(p, [NoRound EXCEPT !.pc = "imap",
                    !.from = lastSyncedUid, !.high = lastSyncedUid])
    /\ UNCHANGED <<arrived, mailRows, lastSyncedUid, seenUidls, mailFaults, insertFailed>>

(* Dial, login or SELECT is refused: the round goes on with POP3.          *)
RefuseIMAP(p) ==
    /\ round[p].pc = "imap"
    /\ Goto(p, [round[p] EXCEPT !.pc = "pop3", !.path = "pop3"])
    /\ UNCHANGED <<arrived, mailRows, lastSyncedUid, seenUidls, mailFaults, insertFailed>>

(* Another error of either protocol, a panic, or the end of the process.   *)
AbortRound(p) ==
    /\ round[p].pc # "idle" /\ MailFault
    /\ Goto(p, NoRound)
    /\ UNCHANGED <<arrived, mailRows, lastSyncedUid, seenUidls, insertFailed>>

(* Variant: the newest part.                                               *)
SelectNewest(uids) == {u \in uids : Cardinality({v \in uids : v > u}) < UidWindow}

(* selectUIDWindow: the oldest part.                                       *)
SelectUIDWindow(uids) == {u \in uids : Cardinality({v \in uids : v < u}) < UidWindow}

(* UID SEARCH from + 1 : uidNext.  Without mail the round only stamps the  *)
(* account, with the uid it read.                                          *)
SearchIMAP(p) ==
    LET new == {u \in Uids : InMailbox(u) /\ u > round[p].from}
    IN  /\ round[p].pc = "imap"
        /\ Goto(p, [round[p] EXCEPT
              !.pc = IF new = {} THEN "stamping" ELSE "inserting",
              !.todo = SelectUIDWindow(new)])
        /\ UNCHANGED <<arrived, mailRows, lastSyncedUid, seenUidls, mailFaults, insertFailed>>

(* UIDL and RETR of what was not seen yet; a RETR that fails is left out.  *)
ListPOP3(p) ==
    LET new == {u \in Uids : InMailbox(u)} \ seenUidls
    IN  /\ round[p].pc = "pop3"
        /\ \E fetched \in SUBSET new :
              /\ IF fetched = new THEN UNCHANGED mailFaults ELSE MailFault
              /\ Goto(p, [round[p] EXCEPT
                    !.pc = IF fetched = {} THEN "stamping" ELSE "inserting",
                    !.todo = fetched])
        /\ UNCHANGED <<arrived, mailRows, lastSyncedUid, seenUidls, insertFailed>>

(* InsertEmailIfNew: a row of the same id, or of the same Message-ID, is   *)
(* refreshed in place.  The ids of the two paths differ; the ids that stand*)
(* in for a missing Message-ID do too.                                     *)
Inserted(rows, u, path) ==
    IF rows = {} \/ u \in Headerless THEN rows \cup {path} ELSE rows

(* One message of the server's answer, which may come in any order.        *)
InsertEmail(p, u) ==
    /\ round[p].pc = "inserting" /\ u \in round[p].todo
    /\ mailRows' = [mailRows EXCEPT ![u] = Inserted(@, u, round[p].path)]
    /\ Goto(p, [round[p] EXCEPT
          !.todo = @ \ {u},
          !.got  = @ \cup {u},
          !.high = IF round[p].path = "imap" /\ u > @ THEN u ELSE @])
    /\ UNCHANGED <<arrived, lastSyncedUid, seenUidls, mailFaults, insertFailed>>

(* An insert that fails is logged, and the loop goes on; a message without *)
(* an envelope is left out the same way.                                   *)
InsertFails(p, u) ==
    /\ round[p].pc = "inserting" /\ u \in round[p].todo
    /\ MailFault
    /\ insertFailed' = insertFailed \cup {u}
    /\ Goto(p, [round[p] EXCEPT !.todo = @ \ {u}])
    /\ UNCHANGED <<arrived, mailRows, lastSyncedUid, seenUidls>>

EndInserts(p) ==
    /\ round[p].pc = "inserting" /\ round[p].todo = {}
    /\ Goto(p, [round[p] EXCEPT
          !.pc = IF round[p].path = "pop3" THEN "marking" ELSE "stamping"])
    /\ UNCHANGED <<arrived, mailRows, lastSyncedUid, seenUidls, mailFaults, insertFailed>>

(* MarkPOP3UIDLSeen, one transaction; its failure is logged.               *)
MarkSeen(p) ==
    /\ round[p].pc = "marking"
    /\ Goto(p, [round[p] EXCEPT !.pc = "stamping"])
    /\ \/ seenUidls' = seenUidls \cup round[p].got /\ UNCHANGED mailFaults
       \/ MailFault /\ UNCHANGED seenUidls
    /\ UNCHANGED <<arrived, mailRows, lastSyncedUid, insertFailed>>

(* Variant: the time alone is written.                                     *)
UpdateSyncedAt(p) ==
    /\ round[p].pc = "stamping"
    /\ Goto(p, NoRound)
    /\ UNCHANGED <<arrived, mailRows, lastSyncedUid, seenUidls, mailFaults, insertFailed>>

(* UpdateSyncState writes the uid whatever the row holds now; its failure  *)
(* is logged.  A POP3 round writes the uid it read.                        *)
UpdateSyncState(p) ==
    /\ round[p].pc = "stamping"
    /\ Goto(p, NoRound)
    /\ \/ lastSyncedUid' = round[p].high /\ UNCHANGED mailFaults
       \/ MailFault /\ UNCHANGED lastSyncedUid
    /\ UNCHANGED <<arrived, mailRows, seenUidls, insertFailed>>
-----------------------------------------------------------------------------
RoundStep(p) ==
    \/ SearchIMAP(p) \/ ListPOP3(p) \/ EndInserts(p)
    \/ MarkSeen(p) \/ UpdateSyncState(p)
    \/ \E u \in Uids : InsertEmail(p, u)

MailNext ==
    \/ MailArrives
    \/ \E p \in MailPods :
          \/ StartRound(p) \/ RoundStep(p)
          \/ RefuseIMAP(p) \/ AbortRound(p) \/ \E u \in Uids : InsertFails(p, u)

MailSpec == MailInit /\ [][MailNext]_mailVars

(* The poll loop starts rounds for ever, and the budgets of Sync end every *)
(* one of them: each protocol step returns or is cut off.                  *)
MailFairness ==
    \A p \in MailPods : WF_mailVars(StartRound(p)) /\ WF_mailVars(RoundStep(p))
-----------------------------------------------------------------------------
(* Properties *)

(* The columns and the rounds have their types.                            *)
MailTypeOK ==
    /\ arrived \in 0 .. MaxUid
    /\ mailRows \in [Uids -> SUBSET {"imap", "pop3"}]
    /\ lastSyncedUid \in 0 .. MaxUid
    /\ seenUidls \subseteq Uids
    /\ round \in [MailPods -> MailRound]
    /\ mailFaults \in 0 .. MailFaults
    /\ insertFailed \subseteq Uids

(* Whatever rounds of several processes overlap, fall back to POP3, are cut*)
(* off or write an old uid back: no mail that a later round will not look  *)
(* for is missing, unless its insert failed (Sync, selectUIDWindow).       *)
SkippedOnlyIfFailed ==
    \A u \in Uids :
        u <= lastSyncedUid \/ u \in seenUidls => IsStored(u) \/ u \in insertFailed

(* In the end every mail that arrived is stored, unless its insert failed: *)
(* the window defers mail and never gives it up, and rounds of several     *)
(* processes cannot keep each other from going on.                         *)
MailIsStored ==
    <>[](\A u \in Uids : InMailbox(u) => IsStored(u) \/ u \in insertFailed)

(* What a comment of the code says, and the code does not do.              *)

(* fetcher.go:885-887, 1221: the window of the oldest mails "guarantees    *)
(* convergence", for last_synced_uid goes no further than what was handled,*)
(* "so nothing is lost for good".                                          *)
NeverSkipped == \A u \in Uids : u <= lastSyncedUid => IsStored(u)
=============================================================================

---------------------------- MODULE MailPipeline ----------------------------
(***************************************************************************)
(* Rounds of the mail pipeline (backend/internal/server/                   *)
(* server_email_pipeline.go, email/pipeline.go, email/pipeline_lock.go).   *)
(* The daily round of a process takes the advisory lock of the database,   *)
(* and goes on without it where the lock itself fails; a round that a user *)
(* asks for does not take it and may override the preview of the spam      *)
(* clean-up for itself.  Inside a process the rounds exclude each other.   *)
(* Of the steps of a round: the clean-up, and the reminders of important   *)
(* mail, which are marked after all of them were sent.                     *)
(***************************************************************************)
EXTENDS Naturals

CONSTANTS
    PipePods,       \* processes
    Asked,          \* processes that users ask for a round
    Important,      \* mails that are classified as important
    ConfiguredDry,  \* cfg.EmailSpamDryRun
    NoPod,
    PipeFaults      \* bound on failures and crashes

ASSUME PipeAssumption ==
    /\ Asked \subseteq PipePods /\ ConfiguredDry \in BOOLEAN
    /\ NoPod \notin PipePods /\ PipeFaults \in Nat

RoundKinds == {"daily", "manual"}
PipeRounds == PipePods \X RoundKinds

VARIABLES
    due,            \* important mails that were classified so far
    notified,       \* mails with notified_at
    dailyLock,      \* the process whose session holds the advisory lock
    pipelineMu,     \* emailPipelineMu of a process: the round inside
    dryRun,         \* Pipeline.SpamDryRun of a process
    pipe,           \* where a round is, what it is to remind of and has reminded of
    reminded,       \* history: how often a mail was reminded of, up to two
    repeatable,     \* history: mails whose mark was lost, or that were contested
    movedUnasked,   \* history: a clean-up moved mail nobody wanted moved
    pipeFaults

pipeVars == <<due, notified, dailyLock, pipelineMu, dryRun, pipe, reminded,
              repeatable, movedUnasked, pipeFaults>>

Steps == {"idle", "queued", "cleaning", "listing", "telling", "leaving", "unlocking"}

(* override is empty where a round leaves the switch as it is.               *)
NoPipe == [step |-> "idle", locked |-> FALSE, override |-> {}, former |-> ConfiguredDry,
           todo |-> {}, sent |-> {}]

WantsPreview(r) == IF pipe[r].override = {} THEN ConfiguredDry
                                            ELSE CHOOSE b \in pipe[r].override : TRUE

PipeInit ==
    /\ due = {} /\ notified = {} /\ repeatable = {}
    /\ dailyLock = NoPod
    /\ pipelineMu = [p \in PipePods |-> "free"]
    /\ dryRun = [p \in PipePods |-> ConfiguredDry]
    /\ pipe = [r \in PipeRounds |-> NoPipe]
    /\ reminded = [e \in Important |-> 0]
    /\ movedUnasked = FALSE
    /\ pipeFaults = 0

PipeFault == pipeFaults < PipeFaults /\ pipeFaults' = pipeFaults + 1

Classify ==
    /\ \E e \in Important \ due : due' = due \cup {e}
    /\ UNCHANGED <<notified, dailyLock, pipelineMu, dryRun, pipe, reminded, repeatable,
                   movedUnasked, pipeFaults>>
-----------------------------------------------------------------------------
(* The start of a round *)

Queue(r, locked, override) ==
    pipe' = [pipe EXCEPT ![r] = [NoPipe EXCEPT !.step = "queued", !.locked = locked,
                                               !.override = override]]

(* Variant: the answer of the lock is not looked at.                         *)
StartDailyAnyway(p) ==
    /\ pipe[<<p, "daily">>].step = "idle"
    /\ dailyLock' = p /\ UNCHANGED pipeFaults
    /\ Queue(<<p, "daily">>, TRUE, {})
    /\ UNCHANGED <<due, notified, pipelineMu, dryRun, reminded, repeatable, movedUnasked>>

(* RunEmailPipeline.  Where another process holds the lock the round is      *)
(* skipped; where the lock cannot be asked for, it runs without.             *)
StartDaily(p) ==
    /\ pipe[<<p, "daily">>].step = "idle"
    /\ \/ /\ dailyLock = NoPod /\ dailyLock' = p
          /\ Queue(<<p, "daily">>, TRUE, {})
          /\ UNCHANGED pipeFaults
       \/ /\ PipeFault
          /\ Queue(<<p, "daily">>, FALSE, {})
          /\ UNCHANGED dailyLock
    /\ UNCHANGED <<due, notified, pipelineMu, dryRun, reminded, repeatable, movedUnasked>>

(* handleEmailPipelineRun, with or without an override.                      *)
StartManual(p) ==
    /\ p \in Asked /\ pipe[<<p, "manual">>].step = "idle"
    /\ \E override \in {{}, {TRUE}, {FALSE}} : Queue(<<p, "manual">>, FALSE, override)
    /\ UNCHANGED <<due, notified, dailyLock, pipelineMu, dryRun, reminded, repeatable,
                   movedUnasked, pipeFaults>>

Goes(r, from, to) == pipe[r].step = from /\ pipe' = [pipe EXCEPT ![r].step = to]

(* runEmailPipeline: the lock of the process, then the override.             *)
EnterRound(r) ==
    /\ pipe[r].step = "queued" /\ pipelineMu[r[1]] = "free"
    /\ pipelineMu' = [pipelineMu EXCEPT ![r[1]] = r[2]]
    /\ pipe' = [pipe EXCEPT ![r].step = "cleaning", ![r].former = dryRun[r[1]]]
    /\ dryRun' = IF pipe[r].override = {} THEN dryRun
                 ELSE [dryRun EXCEPT ![r[1]] = WantsPreview(r)]
    /\ UNCHANGED <<due, notified, dailyLock, reminded, repeatable, movedUnasked, pipeFaults>>
-----------------------------------------------------------------------------
(* Run *)

(* cleanSpam moves mail unless the switch says preview.                      *)
CleanSpam(r) ==
    /\ Goes(r, "cleaning", "listing")
    /\ movedUnasked' = (movedUnasked \/ (~dryRun[r[1]] /\ WantsPreview(r)))
    /\ UNCHANGED <<due, notified, dailyLock, pipelineMu, dryRun, reminded, repeatable,
                   pipeFaults>>

(* Another process has the mail in work as well, and not both rounds of the  *)
(* two hold, or held, the lock.                                              *)
Contested(r) ==
    {e \in Important : \E q \in PipeRounds :
        /\ q[1] # r[1] /\ ~(pipe[q].locked /\ pipe[r].locked)
        /\ e \in pipe[q].todo \cup pipe[q].sent}

(* notifyImportant: what is important and was not reminded of.               *)
ListReminders(r) ==
    LET open == due \ notified
    IN  /\ pipe[r].step = "listing"
        /\ pipe' = [pipe EXCEPT ![r].step = "telling", ![r].todo = open]
        /\ repeatable' = repeatable \cup (open \cap Contested(r))
        /\ UNCHANGED <<due, notified, dailyLock, pipelineMu, dryRun, reminded, movedUnasked,
                       pipeFaults>>

(* A reminder that fails is left for the next round.                         *)
Remind(r, e) ==
    /\ pipe[r].step = "telling" /\ e \in pipe[r].todo
    /\ \/ /\ pipe' = [pipe EXCEPT ![r].todo = @ \ {e}, ![r].sent = @ \cup {e}]
          /\ reminded' = [reminded EXCEPT ![e] = IF @ < 2 THEN @ + 1 ELSE @]
          /\ UNCHANGED pipeFaults
       \/ /\ PipeFault
          /\ pipe' = [pipe EXCEPT ![r].todo = @ \ {e}]
          /\ UNCHANGED reminded
    /\ UNCHANGED <<due, notified, dailyLock, pipelineMu, dryRun, repeatable, movedUnasked>>

(* MarkEmailsNotified, under the context of the round, which may be over.    *)
MarkNotified(r) ==
    /\ pipe[r].step = "telling" /\ pipe[r].todo = {}
    /\ pipe' = [pipe EXCEPT ![r].step = "leaving", ![r].sent = {}]
    /\ \/ notified' = notified \cup pipe[r].sent /\ UNCHANGED <<repeatable, pipeFaults>>
       \/ PipeFault /\ repeatable' = repeatable \cup pipe[r].sent /\ UNCHANGED notified
    /\ UNCHANGED <<due, dailyLock, pipelineMu, dryRun, reminded, movedUnasked>>

(* Variant: the override stays.                                              *)
LeaveOverridden(r) ==
    /\ Goes(r, "leaving", IF r[2] = "daily" THEN "unlocking" ELSE "idle")
    /\ pipelineMu' = [pipelineMu EXCEPT ![r[1]] = "free"]
    /\ UNCHANGED <<due, notified, dailyLock, dryRun, reminded, repeatable, movedUnasked,
                   pipeFaults>>

(* The switch has its former value before the lock of the process is free.   *)
LeaveRound(r) ==
    /\ Goes(r, "leaving", IF r[2] = "daily" THEN "unlocking" ELSE "idle")
    /\ dryRun' = [dryRun EXCEPT ![r[1]] = pipe[r].former]
    /\ pipelineMu' = [pipelineMu EXCEPT ![r[1]] = "free"]
    /\ UNCHANGED <<due, notified, dailyLock, reminded, repeatable, movedUnasked, pipeFaults>>

(* The lock, or with it the connection whose session holds it.               *)
ReleaseLock(r) ==
    /\ Goes(r, "unlocking", "idle")
    /\ dailyLock' = IF pipe[r].locked THEN NoPod ELSE dailyLock
    /\ UNCHANGED <<due, notified, pipelineMu, dryRun, reminded, repeatable, movedUnasked,
                   pipeFaults>>

(* The connection of the lock breaks, and the round does not notice.         *)
LockIsLost(p) ==
    /\ dailyLock = p /\ PipeFault
    /\ dailyLock' = NoPod
    /\ pipe' = [pipe EXCEPT ![<<p, "daily">>].locked = FALSE]
    /\ UNCHANGED <<due, notified, pipelineMu, dryRun, reminded, repeatable, movedUnasked>>

(* The rounds of a process end with it, and its session gives the lock up.   *)
PipeCrash(p) ==
    /\ PipeFault
    /\ pipe' = [r \in PipeRounds |-> IF r[1] = p THEN NoPipe ELSE pipe[r]]
    /\ repeatable' = repeatable \cup UNION {pipe[<<p, k>>].sent : k \in RoundKinds}
    /\ dailyLock' = IF dailyLock = p THEN NoPod ELSE dailyLock
    /\ pipelineMu' = [pipelineMu EXCEPT ![p] = "free"]
    /\ dryRun' = [dryRun EXCEPT ![p] = ConfiguredDry]
    /\ UNCHANGED <<due, notified, reminded, movedUnasked>>
-----------------------------------------------------------------------------
RoundGoesOn(r) ==
    \/ EnterRound(r) \/ CleanSpam(r) \/ ListReminders(r)
    \/ \E e \in Important : Remind(r, e)
    \/ MarkNotified(r) \/ LeaveRound(r) \/ ReleaseLock(r)

PipeNext ==
    \/ Classify
    \/ \E p \in PipePods : StartDaily(p) \/ StartManual(p) \/ LockIsLost(p) \/ PipeCrash(p)
    \/ \E r \in PipeRounds : RoundGoesOn(r)

PipeSpec == PipeInit /\ [][PipeNext]_pipeVars
-----------------------------------------------------------------------------
(* Properties *)

(* Locks, switches and rounds have their types.                              *)
PipeTypeOK ==
    /\ due \subseteq Important /\ notified \subseteq due /\ repeatable \subseteq due
    /\ dailyLock \in PipePods \cup {NoPod}
    /\ pipelineMu \in [PipePods -> RoundKinds \cup {"free"}]
    /\ dryRun \in [PipePods -> BOOLEAN]
    /\ pipe \in [PipeRounds -> [step : Steps, locked : BOOLEAN, override : SUBSET BOOLEAN,
                                former : BOOLEAN, todo : SUBSET due, sent : SUBSET due]]
    /\ reminded \in [Important -> 0 .. 2]
    /\ movedUnasked \in BOOLEAN
    /\ pipeFaults \in 0 .. PipeFaults

(* Daily rounds of several processes, crashes and retries never repeat a     *)
(* reminder: only a round that was asked for or ran without the lock beside  *)
(* another, or a mark that was lost, does (RunEmailPipeline,                 *)
(* TryLockDailyPipeline, notifyImportant).                                   *)
RemindedOnce == \A e \in Important : reminded[e] > 1 => e \in repeatable

(* A round moves mail only where the configuration or its own request says   *)
(* so, never because another round of the process asked for it               *)
(* (runEmailPipeline's lock and reset).                                      *)
MovesOnlyIfAsked == ~movedUnasked
=============================================================================

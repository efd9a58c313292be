----------------------------- MODULE MCServices -----------------------------
(***************************************************************************)
(* The services that work beside one another and share no state: one run   *)
(* checks them all, one per behaviour, the others at rest.                 *)
(***************************************************************************)
EXTENDS MailSync, VacationReplies, ActionIntents, MailPipeline, EventCursor,
        Idempotency, AppHub, PluginHub, StdioCalls, RunProjection, EmailCodes

VARIABLE part   \* the service that moves

Parts == {"mail", "vacation", "intents", "pipeline", "cursor", "idempotency", "hub",
          "plugins", "stdio", "runs", "codes"}

allVars == <<mailVars, vacVars, intentVars, pipeVars, busVars, idemVars, hubVars,
             plugVars, stdioVars, runVars, codeVars, part>>

MCInit ==
    /\ part \in Parts
    /\ MailInit /\ VacInit /\ IntentInit /\ PipeInit /\ BusInit /\ IdemInit
    /\ HubInit /\ PlugInit /\ StdioInit /\ RunInit /\ CodeInit
    /\ part # "stdio" => forwarder = "returned"   \* at rest, one initial state is enough

BesideMail     == UNCHANGED <<vacVars, intentVars, pipeVars, busVars, idemVars, hubVars,
                              plugVars, stdioVars, runVars, codeVars, part>>
BesideVacation == UNCHANGED <<mailVars, intentVars, pipeVars, busVars, idemVars, hubVars,
                              plugVars, stdioVars, runVars, codeVars, part>>
BesideIntents  == UNCHANGED <<mailVars, vacVars, pipeVars, busVars, idemVars, hubVars,
                              plugVars, stdioVars, runVars, codeVars, part>>
BesidePipeline == UNCHANGED <<mailVars, vacVars, intentVars, busVars, idemVars, hubVars,
                              plugVars, stdioVars, runVars, codeVars, part>>
BesideCursor   == UNCHANGED <<mailVars, vacVars, intentVars, pipeVars, idemVars, hubVars,
                              plugVars, stdioVars, runVars, codeVars, part>>
BesideIdem     == UNCHANGED <<mailVars, vacVars, intentVars, pipeVars, busVars, hubVars,
                              plugVars, stdioVars, runVars, codeVars, part>>
BesideHub      == UNCHANGED <<mailVars, vacVars, intentVars, pipeVars, busVars, idemVars,
                              plugVars, stdioVars, runVars, codeVars, part>>
BesidePlugins  == UNCHANGED <<mailVars, vacVars, intentVars, pipeVars, busVars, idemVars,
                              hubVars, stdioVars, runVars, codeVars, part>>
BesideStdio    == UNCHANGED <<mailVars, vacVars, intentVars, pipeVars, busVars, idemVars,
                              hubVars, plugVars, runVars, codeVars, part>>
BesideRuns     == UNCHANGED <<mailVars, vacVars, intentVars, pipeVars, busVars, idemVars,
                              hubVars, plugVars, stdioVars, codeVars, part>>
BesideCodes    == UNCHANGED <<mailVars, vacVars, intentVars, pipeVars, busVars, idemVars,
                              hubVars, plugVars, stdioVars, runVars, part>>

MCNext ==
    \/ part = "mail"        /\ MailNext   /\ BesideMail
    \/ part = "vacation"    /\ VacNext    /\ BesideVacation
    \/ part = "intents"     /\ IntentNext /\ BesideIntents
    \/ part = "pipeline"    /\ PipeNext   /\ BesidePipeline
    \/ part = "cursor"      /\ BusNext    /\ BesideCursor
    \/ part = "idempotency" /\ IdemNext   /\ BesideIdem
    \/ part = "hub"         /\ HubNext    /\ BesideHub
    \/ part = "plugins"     /\ PlugNext   /\ BesidePlugins
    \/ part = "stdio"       /\ StdioNext  /\ BesideStdio
    \/ part = "runs"        /\ RunNext    /\ BesideRuns
    \/ part = "codes"       /\ CodeNext   /\ BesideCodes

(* The fairness of each module, for the service that moves.                  *)
MCFairness ==
    /\ \A p \in MailPods :
          /\ WF_mailVars(part = "mail" /\ StartRound(p))
          /\ WF_mailVars(part = "mail" /\ RoundStep(p))
    /\ WF_vacVars(part = "vacation" /\ VacTick)
    /\ \A p \in Senders : WF_vacVars(part = "vacation" /\ SenderStep(p))
    /\ WF_hubVars(part = "hub" /\ HubRun)
    /\ \A c \in Consumers :
          /\ WF_busVars(part = "cursor" /\ flight[c] = {} /\ Reconnect(c))
          /\ \A s \in Seqs :
                /\ WF_busVars(part = "cursor" /\ Ack(c, s))
                /\ WF_busVars(part = "cursor" /\ Deliver(c, s) /\ s \notin flight'[c])
    /\ \A c \in Callers : WF_stdioVars(part = "stdio" /\ CallStep(c))
    /\ WF_stdioVars(part = "stdio" /\ ReaderStep)
    /\ WF_stdioVars(part = "stdio" /\ ForwardEnd)
    /\ WF_stdioVars(part = "stdio" /\ CloserStep)

MCSpec == MCInit /\ [][MCNext]_allVars /\ MCFairness
-----------------------------------------------------------------------------
CONSTANTS p1, p2, k1, k2, k3, pA, pB, pC, pM, pX

MCRecipientOf == [e \in Letters |-> IF e = 3 THEN "b" ELSE "a"]
MCBodyOf      == [c \in Calls |-> IF c = k3 THEN "other" ELSE "same"]
MCConnId      == [c \in Conns |-> "i"]
MCConnKind    == [c \in Conns |-> CASE c \in {pA, pB, pX} -> "plugin"
                                    [] c = pM -> "manager" [] OTHER -> "client"]
MCConnSpace   == [c \in Conns |-> IF c = pX THEN "w2" ELSE "w1"]
MCCreatedOf   == [t \in RunTasks |-> IF t = k1 THEN 1 ELSE 2]

(* Every service keeps the types of its state.                               *)
TypesOK ==
    /\ MailTypeOK /\ VacTypeOK /\ IntentTypeOK /\ PipeTypeOK /\ BusTypeOK /\ IdemTypeOK
    /\ HubTypeOK /\ PlugTypeOK /\ StdioTypeOK /\ RunTypeOK /\ CodeTypeOK
=============================================================================

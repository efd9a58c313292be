--------------------------- MODULE ServicesProofs ---------------------------
(* What is proved of each service holds where they are put beside one        *)
(* another: a step of the composition is a step of one service, and leaves   *)
(* the state of the others alone.                                            *)
EXTENDS MCServices, MailSyncProofs, MailServicesProofs, ConnectionProofs, GatewayProofs

(* The service that moves, and those beside it.                              *)
LEMMA OneMoves ==
    ASSUME [MCNext]_allVars
    PROVE  /\ [MailNext]_mailVars /\ [VacNext]_vacVars /\ [IntentNext]_intentVars
           /\ [PipeNext]_pipeVars /\ [BusNext]_busVars /\ [IdemNext]_idemVars
           /\ [HubNext]_hubVars /\ [PlugNext]_plugVars /\ [StdioNext]_stdioVars
           /\ [RunNext]_runVars /\ [CodeNext]_codeVars
<1>1. CASE UNCHANGED allVars
  BY <1>1 DEF allVars
<1>2. CASE MCNext
  BY <1>2 DEF MCNext, BesideMail, BesideVacation, BesideIntents, BesidePipeline,
     BesideCursor, BesideIdem, BesideHub, BesidePlugins, BesideStdio, BesideRuns,
     BesideCodes
<1> QED
  BY <1>1, <1>2

(* So the composition implements every service.                              *)
LEMMA Projections ==
    MCSpec => /\ MailSpec /\ VacSpec /\ IntentSpec /\ PipeSpec /\ BusSpec /\ IdemSpec
              /\ HubSpec /\ PlugSpec /\ StdioSpec /\ RunSpec /\ CodeSpec
<1>1. MCInit => /\ MailInit /\ VacInit /\ IntentInit /\ PipeInit /\ BusInit /\ IdemInit
                /\ HubInit /\ PlugInit /\ StdioInit /\ RunInit /\ CodeInit
  BY DEF MCInit
<1> QED
  BY <1>1, OneMoves, PTL DEF MCSpec, MailSpec, VacSpec, IntentSpec, PipeSpec, BusSpec,
     IdemSpec, HubSpec, PlugSpec, StdioSpec, RunSpec, CodeSpec

(* Every service keeps the types of its state, whichever moves.              *)
THEOREM AllTypesCorrect == MCSpec => []TypesOK
<1>1. MailTypeOK /\ VacTypeOK /\ IntentTypeOK /\ PipeTypeOK /\ BusTypeOK /\ IdemTypeOK /\
      HubTypeOK /\ PlugTypeOK /\ StdioTypeOK /\ RunTypeOK /\ CodeTypeOK
      => TypesOK
  BY DEF TypesOK
<1> QED
  BY <1>1, Projections, MailTypeCorrect, VacTypeCorrect, IntentTypeCorrect,
     PipeTypeCorrect, BusTypeCorrect, IdemTypeCorrect, HubTypeCorrect, PlugTypeCorrect,
     StdioTypeCorrect, RunTypeCorrect, CodeTypeCorrect, PTL

(* What the services promise they keep beside one another, for any instance: *)
(* the invariants that the composition is checked for, and the abstract feed *)
(* of events.                                                                *)
THEOREM ServicesAreSafe ==
    MCSpec =>
        /\ []SkippedOnlyIfFailed /\ []OneReplyADay /\ []IntentOutcome
        /\ []RemindedOnce /\ []MovesOnlyIfAsked /\ []OneExecution
        /\ []NothingMissed /\ []ConnectedIsListed /\ []ClientsAgree
        /\ []CursorIsBacked /\ []AcceptedOnce
        /\ ImplementsFeed
BY Projections, NothingSkipped, OneReply, IntentsTold, RemindersOnce, MovesAsAsked,
   ExecutedOnce, HubMissesNothing, Listed, Agreement, CursorBacked, CodeAcceptedOnce,
   CursorImplementsFeed, PTL
=============================================================================

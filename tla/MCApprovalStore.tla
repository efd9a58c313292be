--------------------------- MODULE MCApprovalStore ---------------------------
(* TLC instances of ApprovalStore. *)
EXTENDS ApprovalStore, TLC

CONSTANTS t1, t2, s1, s2, r1, r2

OneSession  == [r \in Requests |-> s1]
TwoSessions == [r \in Requests |-> IF r = r1 THEN s1 ELSE s2]

BoardStatus == {"active", "cancelled", "completed"}
NoRemote    == {}

(* One question at a time: two requests of two sessions for a task of this   *)
(* server, or one request for a task of it and one of the board.             *)
OneQuestion ==
    \/ ~task[t2].stored /\ t2 \notin deleting /\ \A l \in link : l[1] # t2
    \/ obs[r2] = Unseen /\ \A l \in link : l[2] # s2
=============================================================================

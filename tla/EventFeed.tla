------------------------------ MODULE EventFeed ------------------------------
(***************************************************************************)
(* What the event bus promises the consumers of an aggregate               *)
(* (services/zagent-gateway/internal/eventbus/cursor.go, the contract at   *)
(* the head of the file): events are handed over in the order of their     *)
(* numbers, none twice, and an event that is passed over is reported.      *)
(***************************************************************************)
EXTENDS Naturals

CONSTANT Numbers    \* the numbers events can have, positive

VARIABLES
    last,       \* number of the newest event handed over
    handed,     \* the events handed over
    missed      \* the events reported as lost

feedVars == <<last, handed, missed>>

FeedInit == last = 0 /\ handed = {} /\ missed = {}

(* The first event sets the start of the feed; a later one that jumps        *)
(* reports what it passed over.                                              *)
HandOver(s) ==
    /\ s > last
    /\ last' = s
    /\ handed' = handed \cup {s}
    /\ missed' = IF last = 0 THEN missed ELSE missed \cup (last + 1 .. s - 1)

FeedNext == \E s \in Numbers : HandOver(s)

FeedSpec == FeedInit /\ [][FeedNext]_feedVars

(* From the first event on, every number up to the newest was handed over or *)
(* reported as lost, and none was both.                                      *)
Accounted ==
    /\ handed \cap missed = {}
    /\ \E first \in 0 .. last : handed \cup missed = {n \in 1 .. last : n >= first}
=============================================================================

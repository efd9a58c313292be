----------------------------- MODULE Idempotency -----------------------------
(***************************************************************************)
(* The idempotency store of the gateway                                    *)
(* (services/zagent-gateway/internal/idempotency/store.go) for one key of  *)
(* one tenant and actor: requests reserve the key, execute, and complete   *)
(* the entry with their response, which later requests of the same body    *)
(* are given.  An execution may outlast the entry, and its caller may die. *)
(***************************************************************************)
EXTENDS Naturals

CONSTANTS
    Calls,          \* the requests that carry the key
    BodyOf,         \* the hash of the body of each
    NoCall,
    TTL,
    IdemTime        \* bound on the clock

ASSUME IdemAssumption ==
    /\ NoCall \notin Calls /\ TTL \in Nat \ {0} /\ IdemTime \in Nat \ {0}
    /\ DOMAIN BodyOf = Calls

VARIABLES
    idemNow,        \* the clock
    entry,          \* the entry of the key
    call,           \* what became of each request
    began           \* history: when a request began to execute

idemVars == <<idemNow, entry, call, began>>

(* by: the request that reserved it.                                       *)
NoEntry == [status |-> "none", by |-> NoCall, expires |-> 0]

IdemInit ==
    /\ idemNow = 1
    /\ entry = NoEntry
    /\ call = [c \in Calls |-> "new"]
    /\ began = [c \in Calls |-> 0]

IsPast(e)    == idemNow > e.expires
IsTaken      == entry # NoEntry /\ ~IsPast(entry)
SameBody(c)  == BodyOf[entry.by] = BodyOf[c]

IdemTick ==
    /\ idemNow < IdemTime
    /\ idemNow' = idemNow + 1
    /\ UNCHANGED <<entry, call, began>>

(* Reserve, where nothing is stored or what is stored has expired.         *)
ReserveFresh(c) ==
    /\ call[c] = "new" /\ ~IsTaken
    /\ entry' = [status |-> "in_flight", by |-> c, expires |-> idemNow + TTL]
    /\ call' = [call EXCEPT ![c] = "executing"]
    /\ began' = [began EXCEPT ![c] = idemNow]
    /\ UNCHANGED <<idemNow>>

(* ErrBodyMismatch.                                                        *)
ReserveOther(c) ==
    /\ call[c] = "new" /\ IsTaken /\ ~SameBody(c)
    /\ call' = [call EXCEPT ![c] = "mismatch"]
    /\ UNCHANGED <<idemNow, entry, began>>

(* The recorded response is given.  ErrInFlight changes nothing: the client*)
(* retries.                                                                *)
Replay(c) ==
    /\ call[c] = "new" /\ IsTaken /\ SameBody(c) /\ entry.status = "complete"
    /\ call' = [call EXCEPT ![c] = "answered"]
    /\ UNCHANGED <<idemNow, entry, began>>

(* Complete: the entry may be another by now, of a request that reserved   *)
(* the key after the first entry expired; it is refused only where there is*)
(* no entry or one of another body.                                        *)
CompleteCall(c) ==
    /\ call[c] = "executing"
    /\ call' = [call EXCEPT ![c] = "answered"]
    /\ entry' = IF entry # NoEntry /\ SameBody(c)
                THEN [entry EXCEPT !.status = "complete"] ELSE entry
    /\ UNCHANGED <<idemNow, began>>

(* The handler dies: nobody completes its entry.                           *)
Die(c) ==
    /\ call[c] = "executing"
    /\ call' = [call EXCEPT ![c] = "dead"]
    /\ UNCHANGED <<idemNow, entry, began>>

(* Variant: at the moment of the expiry.                                   *)
SweepEarly ==
    /\ entry # NoEntry /\ idemNow >= entry.expires
    /\ entry' = NoEntry
    /\ UNCHANGED <<idemNow, call, began>>

(* Sweep, and Lookup where it finds an expired entry.                      *)
Sweep ==
    /\ entry # NoEntry /\ IsPast(entry)
    /\ entry' = NoEntry
    /\ UNCHANGED <<idemNow, call, began>>
-----------------------------------------------------------------------------
IdemNext ==
    \/ IdemTick \/ Sweep
    \/ \E c \in Calls :
          ReserveFresh(c) \/ ReserveOther(c) \/ Replay(c) \/ CompleteCall(c) \/ Die(c)

IdemSpec == IdemInit /\ [][IdemNext]_idemVars
-----------------------------------------------------------------------------
(* Properties *)

(* The entry and the requests have their types.                            *)
IdemTypeOK ==
    /\ idemNow \in 1 .. IdemTime
    /\ entry \in [status : {"none", "in_flight", "complete"}, by : Calls \cup {NoCall},
                  expires : 0 .. IdemTime + TTL]
    /\ call \in [Calls -> {"new", "executing", "answered", "mismatch", "dead"}]
    /\ began \in [Calls -> 0 .. IdemTime]

(* Two requests of one key execute only further apart than the lifetime of *)
(* an entry, whatever completes late, dies or is swept in between (Reserve,*)
(* Sweep).                                                                 *)
OneExecution ==
    \A c, d \in Calls :
        c # d /\ began[c] > 0 /\ began[d] > 0 =>
            began[c] > began[d] + TTL \/ began[d] > began[c] + TTL
=============================================================================

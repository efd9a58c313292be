----------------------------- MODULE StdioCalls -----------------------------
(***************************************************************************)
(* Calls to an agent that runs as a child process                          *)
(* (backend/internal/agent/transport_stdio.go, PendingCalls of             *)
(* jsonrpc.go).  Calls register a slot, write their request and wait; one  *)
(* scanner takes the frames of the child, fills the slots, and hands every *)
(* frame on to whoever may call Recv; where there is a logger, another one *)
(* forwards the lines of stderr.  Close ends it all, in five steps.        *)
(***************************************************************************)
EXTENDS Naturals, Sequences

CONSTANTS
    Callers,    \* calls, each with its own id
    RecvCap,    \* capacity of recvCh
    PipeRoom,   \* frames the pipe of stdout holds
    MaxNotes    \* bound on the notifications of the child

ASSUME StdioAssumption == RecvCap \in Nat /\ PipeRoom \in Nat \ {0} /\ MaxNotes \in Nat

Note == "note"
ASSUME NoteAssumption == Note \notin Callers

VARIABLES
    stdioClosed,    \* t.closed
    slots,          \* PendingCalls.pending and the channels in it
    calling,        \* where each call is
    requests,       \* requests the child has read
    stdout,         \* frames in the pipe
    notes,          \* how many notifications there were
    child,          \* the process
    stdinOpen,
    scanner,         \* readStdout: scanning, holding a frame, or back
    scannerCancelled,\* recvCtx
    forwarder,      \* forwardStderr: scanning, or back
    recvCount,      \* frames in recvCh
    closer          \* where Close is

stdioVars == <<stdioClosed, slots, calling, requests, stdout, notes, child,
               stdinOpen, scanner, scannerCancelled, forwarder, recvCount, closer>>

StdioInit ==
    /\ stdioClosed = FALSE
    /\ slots = [c \in Callers |-> "none"]
    /\ calling = [c \in Callers |-> "idle"]
    /\ requests = {} /\ stdout = <<>> /\ notes = 0
    /\ child = "running" /\ stdinOpen = TRUE
    /\ scanner = "scanning" /\ scannerCancelled = FALSE /\ recvCount = 0
    /\ forwarder \in {"scanning", "returned"}     \* without a logger there is none
    /\ closer = "idle"
-----------------------------------------------------------------------------
(* Call                                                                    *)

(* Register under the lock of the transport that Close takes for its flag. *)
Register(c) ==
    /\ calling[c] = "idle"
    /\ IF stdioClosed
       THEN calling' = [calling EXCEPT ![c] = "done"] /\ UNCHANGED <<slots>>
       ELSE /\ calling' = [calling EXCEPT ![c] = "registered"]
            /\ slots' = [slots EXCEPT ![c] = "open"]
    /\ UNCHANGED <<stdioClosed, requests, stdout, notes, child, stdinOpen,
                   scanner, scannerCancelled, recvCount, closer, forwarder>>

(* The write fails once the pipe is closed on either side; the slot stays. *)
WriteRequest(c) ==
    /\ calling[c] = "registered"
    /\ IF stdinOpen /\ child = "running"
       THEN /\ calling' = [calling EXCEPT ![c] = "waiting"]
            /\ requests' = requests \cup {c}
       ELSE /\ calling' = [calling EXCEPT ![c] = "done"]
            /\ UNCHANGED requests
    /\ UNCHANGED <<stdioClosed, slots, stdout, notes, child, stdinOpen, scanner,
                   scannerCancelled, recvCount, closer, forwarder>>

TakeAnswer(c) ==
    /\ calling[c] = "waiting" /\ slots[c] \in {"answered", "closed"}
    /\ calling' = [calling EXCEPT ![c] = "done"]
    /\ UNCHANGED <<stdioClosed, slots, requests, stdout, notes, child, stdinOpen,
                   scanner, scannerCancelled, recvCount, closer, forwarder>>

(* The context of the caller ends; the slot stays.                         *)
CallTimesOut(c) ==
    /\ calling[c] = "waiting"
    /\ calling' = [calling EXCEPT ![c] = "done"]
    /\ UNCHANGED <<stdioClosed, slots, requests, stdout, notes, child, stdinOpen,
                   scanner, scannerCancelled, recvCount, closer, forwarder>>
-----------------------------------------------------------------------------
(* The child, and whoever calls Recv                                       *)

ChildWrites(frame) ==
    /\ child = "running" /\ Len(stdout) < PipeRoom
    /\ stdout' = Append(stdout, frame)

ChildAnswers(c) ==
    /\ c \in requests /\ ChildWrites(c)
    /\ requests' = requests \ {c}
    /\ UNCHANGED <<stdioClosed, slots, calling, notes, child, stdinOpen, scanner,
                   scannerCancelled, recvCount, closer, forwarder>>

ChildNotifies ==
    /\ notes < MaxNotes /\ ChildWrites(Note)
    /\ notes' = notes + 1
    /\ UNCHANGED <<stdioClosed, slots, calling, requests, child, stdinOpen, scanner,
                   scannerCancelled, recvCount, closer, forwarder>>

(* At the end of its input, by a crash, or with the context it was started *)
(* under.                                                                  *)
ChildExits ==
    /\ child = "running" /\ child' = "exited"
    /\ UNCHANGED <<stdioClosed, slots, calling, requests, stdout, notes, stdinOpen,
                   scanner, scannerCancelled, recvCount, closer, forwarder>>

Recv ==
    /\ recvCount > 0 /\ recvCount' = recvCount - 1
    /\ UNCHANGED <<stdioClosed, slots, calling, requests, stdout, notes, child,
                   stdinOpen, scanner, scannerCancelled, closer, forwarder>>
-----------------------------------------------------------------------------
(* readStdout                                                              *)

FillSlot(c) == IF slots[c] = "open" THEN [slots EXCEPT ![c] = "answered"] ELSE slots

(* An answer fills its slot, and is dropped for Recv where it has no room. *)
ReadAnswer ==
    /\ scanner = "scanning" /\ stdout # <<>> /\ Head(stdout) # Note
    /\ stdout' = Tail(stdout)
    /\ slots' = FillSlot(Head(stdout))
    /\ \/ recvCount < RecvCap /\ recvCount' = recvCount + 1 /\ UNCHANGED scanner
       \/ recvCount = RecvCap /\ ~scannerCancelled /\ UNCHANGED <<recvCount, scanner>>
       \/ scannerCancelled /\ scanner' = "returned" /\ UNCHANGED recvCount
    /\ UNCHANGED <<stdioClosed, calling, requests, notes, child, stdinOpen,
                   scannerCancelled, closer, forwarder>>

(* A notification waits for room.                                          *)
ReadNote ==
    /\ scanner = "scanning" /\ stdout # <<>> /\ Head(stdout) = Note
    /\ stdout' = Tail(stdout)
    /\ scanner' = "holding"
    /\ UNCHANGED <<stdioClosed, slots, calling, requests, notes, child, stdinOpen,
                   scannerCancelled, recvCount, closer, forwarder>>

HandOn ==
    /\ scanner = "holding"
    /\ \/ recvCount < RecvCap /\ recvCount' = recvCount + 1 /\ scanner' = "scanning"
       \/ scannerCancelled /\ scanner' = "returned" /\ UNCHANGED recvCount
    /\ UNCHANGED <<stdioClosed, slots, calling, requests, stdout, notes, child,
                   stdinOpen, scannerCancelled, closer, forwarder>>

(* The pipe ends with the child, and Wait closes this side of it.          *)
ReadEnd ==
    /\ scanner = "scanning" /\ child = "exited"
    /\ stdout = <<>> \/ closer \in {"awaiting", "joining"}
    /\ scanner' = "returned"
    /\ UNCHANGED <<stdioClosed, slots, calling, requests, stdout, notes, child,
                   stdinOpen, scannerCancelled, recvCount, closer, forwarder>>

(* forwardStderr, whose pipe ends in the same ways; or at a line that is   *)
(* too long, long before.                                                  *)
Forwarded ==
    /\ forwarder = "scanning" /\ forwarder' = "returned"
    /\ UNCHANGED <<stdioClosed, slots, calling, requests, stdout, notes, child, stdinOpen,
                   scanner, scannerCancelled, recvCount, closer>>

ForwardEnd   == child = "exited" /\ Forwarded
ForwardStops == child = "running" /\ Forwarded
-----------------------------------------------------------------------------
(* Close                                                                   *)

BeginClose ==
    /\ closer = "idle"
    /\ stdioClosed' = TRUE /\ closer' = "cancelling"
    /\ UNCHANGED <<slots, calling, requests, stdout, notes, child, stdinOpen,
                   scanner, scannerCancelled, recvCount, forwarder>>

(* PendingCalls.Cancel.                                                    *)
CancelPending ==
    /\ closer = "cancelling"
    /\ slots' = [c \in Callers |-> IF slots[c] = "open" THEN "closed" ELSE slots[c]]
    /\ closer' = "signalling"
    /\ UNCHANGED <<stdioClosed, calling, requests, stdout, notes, child, stdinOpen, scanner,
                   scannerCancelled, recvCount, forwarder>>

(* Variant: the scanner is left to the end of the pipe.                    *)
SignalChildOnly ==
    /\ closer = "signalling"
    /\ stdinOpen' = FALSE /\ closer' = "awaiting"
    /\ UNCHANGED <<stdioClosed, slots, calling, requests, stdout, notes, child,
                   scanner, scannerCancelled, recvCount, forwarder>>

(* The scanner's context, then the input of the child.                     *)
SignalEnd ==
    /\ closer = "signalling"
    /\ scannerCancelled' = TRUE /\ stdinOpen' = FALSE /\ closer' = "awaiting"
    /\ UNCHANGED <<stdioClosed, slots, calling, requests, stdout, notes, child,
                   scanner, recvCount, forwarder>>

(* Wait, or Kill after five seconds.                                       *)
AwaitChild ==
    /\ closer = "awaiting"
    /\ child' = "exited" /\ closer' = "joining"
    /\ UNCHANGED <<stdioClosed, slots, calling, requests, stdout, notes, stdinOpen,
                   scanner, scannerCancelled, recvCount, forwarder>>

JoinReaders ==
    /\ closer = "joining" /\ scanner = "returned" /\ forwarder = "returned"
    /\ closer' = "done"
    /\ UNCHANGED <<stdioClosed, slots, calling, requests, stdout, notes, child,
                   stdinOpen, scanner, scannerCancelled, recvCount, forwarder>>
-----------------------------------------------------------------------------
CallStep(c) == WriteRequest(c) \/ TakeAnswer(c)
ReaderStep  == ReadAnswer \/ ReadNote \/ HandOn \/ ReadEnd
CloserStep  == CancelPending \/ SignalEnd \/ AwaitChild \/ JoinReaders

StdioNext ==
    \/ \E c \in Callers :
          Register(c) \/ CallStep(c) \/ CallTimesOut(c) \/ ChildAnswers(c)
    \/ ChildNotifies \/ ChildExits \/ Recv
    \/ ForwardEnd \/ ForwardStops \/ ReaderStep \/ BeginClose \/ CloserStep

StdioSpec == StdioInit /\ [][StdioNext]_stdioVars

(* Goroutines that can run do. Nobody has to close, to call Recv, or to end*)
(* a context, and the child need not do anything.                          *)
StdioFairness ==
    /\ \A c \in Callers : WF_stdioVars(CallStep(c))
    /\ WF_stdioVars(ReaderStep) /\ WF_stdioVars(ForwardEnd) /\ WF_stdioVars(CloserStep)
-----------------------------------------------------------------------------
(* Properties                                                              *)

(* Slots, calls and goroutines have their types.                           *)
StdioTypeOK ==
    /\ {stdioClosed, stdinOpen, scannerCancelled} \subseteq BOOLEAN
    /\ slots \in [Callers -> {"none", "open", "answered", "closed"}]
    /\ calling \in [Callers -> {"idle", "registered", "waiting", "done"}]
    /\ requests \subseteq Callers
    /\ stdout \in Seq(Callers \cup {Note}) /\ Len(stdout) <= PipeRoom
    /\ notes \in 0 .. MaxNotes /\ recvCount \in 0 .. RecvCap
    /\ child \in {"running", "exited"}
    /\ scanner \in {"scanning", "holding", "returned"}
    /\ forwarder \in {"scanning", "returned"}
    /\ closer \in {"idle", "cancelling", "signalling", "awaiting", "joining", "done"}

(* Close comes to its end, and by then or soon after no call waits: not for*)
(* a scanner from which nobody takes notes, not for a child that died     *)
(* or hangs, and no call that came in meanwhile is forgotten.              *)
CloseReturns ==
    []<>(\/ closer = "idle"
         \/ closer = "done" /\ \A c \in Callers : calling[c] \in {"idle", "done"})
=============================================================================

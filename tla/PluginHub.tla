------------------------------ MODULE PluginHub ------------------------------
(***************************************************************************)
(* The hub of OpenCode plugins, instance managers and their clients        *)
(* (backend/internal/websocket/plugin_hub.go, server_plugin_ws.go).  The   *)
(* goroutine Run keeps one connection for each kind and id; handlers look  *)
(* a connection up under the read lock and send to it after they released  *)
(* it.  A plugin that reconnects registers again under its id, while the   *)
(* server may still wait for the end of its former connection.  The maps   *)
(* have one entry for an id, whichever workspace its connection is of;     *)
(* notices, lists and commands stay in the workspace.                      *)
(***************************************************************************)
EXTENDS Naturals, FiniteSets

CONSTANTS
    Conns,          \* connections that will be made
    ConnId,         \* the id that each gives
    ConnKind,       \* "plugin", "manager" or "client"
    ConnSpace,      \* the workspace of its token
    NoConn,
    PlugCap,        \* capacity of the channel Send of a connection
    MaxCommands     \* bound on the commands and session events

ConnIds == {ConnId[c] : c \in Conns}
Kinds   == {"plugin", "manager", "client"}
Spaces  == {ConnSpace[c] : c \in Conns}

ASSUME PlugAssumption ==
    /\ ConnKind \in [Conns -> Kinds] /\ NoConn \notin Conns
    /\ PlugCap \in Nat \ {0} /\ MaxCommands \in Nat

VARIABLES
    listed,         \* plugins, managers and clients: the connection of an id
    plugLen,        \* messages in the channel Send of each connection
    plugClosed,     \* connections whose Send is closed
    pump,           \* where the read pump of a connection is
    target,         \* the connection a command handler has looked up
    commands,       \* commands and session events so far
    known,          \* history: the instances a client was told of, once it read all
    deaf,           \* history: clients that missed a message
    overlapped,     \* history: ids that two connections of a kind had at a time
    shared          \* history: ids that plugins of two workspaces had at a time

plugVars == <<listed, plugLen, plugClosed, pump, target, commands, known, deaf, overlapped,
              shared>>

PlugInit ==
    /\ listed = [k \in Kinds |-> [i \in ConnIds |-> NoConn]]
    /\ plugLen = [c \in Conns |-> 0]
    /\ plugClosed = {}
    /\ pump = [c \in Conns |-> "new"]
    /\ target = NoConn
    /\ commands = 0
    /\ known = [c \in Conns |-> {}]
    /\ deaf = {}
    /\ overlapped = {} /\ shared = {}

Entry(c)    == listed[ConnKind[c]][ConnId[c]]
SetEntry(c, d) == listed' = [listed EXCEPT ![ConnKind[c]][ConnId[c]] = d]
IsOf(k, i, w) == listed[k][i] # NoConn /\ ConnSpace[listed[k][i]] = w
Instances(w)  == {i \in ConnIds : IsOf("plugin", i, w)}
Clients     == {listed["client"][i] : i \in ConnIds} \ {NoConn}
Audience(w) == {c \in Clients : ConnSpace[c] = w}
IsDeaf(c)   == plugLen[c] = PlugCap

(* broadcastToClients, to the clients of a workspace: one whose buffer is    *)
(* full misses the message.  `view` is what they know once they read it.     *)
Tell(audience, view) ==
    LET heard == {c \in audience : ~IsDeaf(c)}
    IN  /\ plugLen' = [c \in Conns |-> IF c \in heard THEN plugLen[c] + 1 ELSE plugLen[c]]
        /\ known' = [c \in Conns |-> IF c \in heard THEN view[c] ELSE known[c]]
        /\ deaf' = deaf \cup (audience \ heard)

(* The handler upgrades the connection and registers it.                     *)
Connect(c) ==
    /\ pump[c] = "new"
    /\ pump' = [pump EXCEPT ![c] = "registering"]
    /\ UNCHANGED <<listed, plugLen, plugClosed, target, commands, known, deaf, overlapped,
                   shared>>

IsOpen(d) == pump[d] \in {"reading", "leaving"}
Twins(c)  == {d \in Conns \ {c} : ConnId[d] = ConnId[c] /\ ConnKind[d] = ConnKind[c]}

(* Run takes a registration and overwrites the entry of the id, be it of     *)
(* another workspace.  A plugin is announced to the clients of its own; a    *)
(* client is sent the list of its own.                                       *)
TakeConn(c) ==
    /\ pump[c] = "registering"
    /\ pump' = [pump EXCEPT ![c] = "reading"]
    /\ SetEntry(c, c)
    /\ overlapped' = IF \E d \in Twins(c) : IsOpen(d)
                     THEN overlapped \cup {ConnId[c]} ELSE overlapped
    /\ shared' = IF /\ ConnKind[c] = "plugin"
                    /\ \E d \in Twins(c) : IsOpen(d) /\ ConnSpace[d] # ConnSpace[c]
                 THEN shared \cup {ConnId[c]} ELSE shared
    /\ CASE ConnKind[c] = "plugin"  -> Tell(Audience(ConnSpace[c]),
                                            [d \in Conns |-> known[d] \cup {ConnId[c]}])
         [] ConnKind[c] = "client"  -> Tell({c}, [d \in Conns |-> Instances(ConnSpace[c])])
         [] ConnKind[c] = "manager" -> UNCHANGED <<plugLen, known, deaf>>
    /\ UNCHANGED <<plugClosed, target, commands>>

(* The connection is over, or 60 seconds passed without a pong.              *)
ConnFails(c) ==
    /\ pump[c] = "reading"
    /\ pump' = [pump EXCEPT ![c] = "leaving"]
    /\ UNCHANGED <<listed, plugLen, plugClosed, target, commands, known, deaf, overlapped,
                   shared>>

(* Variant: the channel is closed and the entry stays.                       *)
DropConnCloses(c) ==
    /\ plugClosed' = plugClosed \cup {c}
    /\ UNCHANGED listed

(* Variant: an entry of another connection stays.                            *)
DropConnOwn(c) ==
    IF Entry(c) = c THEN SetEntry(c, NoConn) /\ plugClosed' = plugClosed \cup {c}
                    ELSE UNCHANGED <<listed, plugClosed>>

(* Whatever connection the entry of the id names by now, it is dropped, and  *)
(* the channel of the connection that left is closed.                        *)
DropConn(c) ==
    IF Entry(c) # NoConn THEN SetEntry(c, NoConn) /\ plugClosed' = plugClosed \cup {c}
                         ELSE UNCHANGED <<listed, plugClosed>>

(* Run takes a departure; that of a plugin is announced in either case.      *)
TakeDeparture(c) ==
    /\ pump[c] = "leaving"
    /\ pump' = [pump EXCEPT ![c] = "gone"]
    /\ DropConn(c)
    /\ IF ConnKind[c] = "plugin"
       THEN Tell(Audience(ConnSpace[c]), [d \in Conns |-> known[d] \ {ConnId[c]}])
       ELSE UNCHANGED <<plugLen, known, deaf>>
    /\ UNCHANGED <<target, commands, overlapped, shared>>

(* A session event of a plugin, or the status that a manager sends.          *)
Relay(c) ==
    /\ pump[c] = "reading" /\ ConnKind[c] # "client" /\ commands < MaxCommands
    /\ commands' = commands + 1
    /\ Tell(Audience(ConnSpace[c]), known)
    /\ UNCHANGED <<listed, plugClosed, pump, target, overlapped, shared>>

(* SendCommandToInstance: the plugin of the id in the caller's workspace,    *)
(* else its manager there.                                                   *)
LookUp(i, w) ==
    /\ target = NoConn /\ commands < MaxCommands
    /\ commands' = commands + 1
    /\ target' = IF IsOf("plugin", i, w) THEN listed["plugin"][i]
                 ELSE IF IsOf("manager", i, w) THEN listed["manager"][i] ELSE NoConn
    /\ UNCHANGED <<listed, plugLen, plugClosed, pump, known, deaf, overlapped, shared>>

(* The send after the lock: it panics on a channel closed since, which ends  *)
(* the request, and is refused on a full one.                                *)
SendCommand ==
    /\ target # NoConn
    /\ target' = NoConn
    /\ IF target \in plugClosed \/ IsDeaf(target) THEN UNCHANGED plugLen
       ELSE plugLen' = [plugLen EXCEPT ![target] = @ + 1]
    /\ UNCHANGED <<listed, plugClosed, pump, commands, known, deaf, overlapped, shared>>

WriteOut(c) ==
    /\ plugLen[c] > 0
    /\ plugLen' = [plugLen EXCEPT ![c] = @ - 1]
    /\ UNCHANGED <<listed, plugClosed, pump, target, commands, known, deaf, overlapped,
                   shared>>
-----------------------------------------------------------------------------
PlugNext ==
    \/ \E c \in Conns : \/ Connect(c) \/ TakeConn(c) \/ ConnFails(c) \/ TakeDeparture(c)
                        \/ Relay(c) \/ WriteOut(c)
    \/ \E i \in ConnIds, w \in Spaces : LookUp(i, w)
    \/ SendCommand

PlugSpec == PlugInit /\ [][PlugNext]_plugVars
-----------------------------------------------------------------------------
(* Properties *)

(* The maps and the channels have their types.                               *)
PlugTypeOK ==
    /\ listed \in [Kinds -> [ConnIds -> Conns \cup {NoConn}]]
    /\ plugLen \in [Conns -> 0 .. PlugCap]
    /\ plugClosed \subseteq Conns
    /\ pump \in [Conns -> {"new", "registering", "reading", "leaving", "gone"}]
    /\ target \in Conns \cup {NoConn}
    /\ commands \in 0 .. MaxCommands
    /\ known \in [Conns -> SUBSET ConnIds]
    /\ deaf \subseteq Conns
    /\ overlapped \subseteq ConnIds /\ shared \subseteq ConnIds

(* A connection that is read is the one its id leads to, so that commands    *)
(* reach it and the status page shows it, unless two connections of the id   *)
(* were open at a time; and no entry leads to a closed channel, where a send *)
(* would panic (Run's registrations and departures).                         *)
ConnectedIsListed ==
    /\ \A c \in Conns : pump[c] = "reading" => Entry(c) = c \/ ConnId[c] \in overlapped
    /\ \A c \in Conns : Entry(c) = c => c \notin plugClosed

(* A client that missed no message knows exactly the instances the hub lists *)
(* for its workspace, whatever reconnections, stale departures and           *)
(* overwritten entries of the workspace there were: the notices of Run       *)
(* follow its map.  Not so for an id that plugins of two workspaces had at a *)
(* time: one takes the other's entry, and its clients are not told.          *)
ClientsAgree ==
    \A c \in Clients \ deaf :
        pump[c] = "reading" => known[c] \ shared = Instances(ConnSpace[c]) \ shared
=============================================================================

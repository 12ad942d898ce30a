------------------------------ MODULE Realtime -------------------------------
(***************************************************************************)
(* The realtime server of src/adapters/websocket/bun-websocket-adapter.ts: *)
(* WebSocket connections, the rooms they join, and the broadcasts that     *)
(* agents of this process make or those of others post to /emit.  emitTo   *)
(* only reads a room and is no step; a room without members and an absent  *)
(* room are the same here.                                                 *)
(***************************************************************************)
EXTENDS FiniteSets

CONSTANTS Connections, Rooms

VARIABLES listening,  \* this.server is set
          socket,     \* the state of each connection's socket
          known,      \* allConnections
          rooms,      \* the members of each room
          astray      \* connections dropped from known while still open

realtimeVars == <<listening, socket, known, rooms, astray>>

SocketStates == {"new", "open", "broken", "closed"}

RealtimeInit ==
  /\ listening = FALSE /\ known = {} /\ astray = {}
  /\ socket = [c \in Connections |-> "new"]
  /\ rooms = [r \in Rooms |-> {}]

StartListening == /\ ~listening /\ listening' = TRUE
                  /\ UNCHANGED <<socket, known, rooms, astray>>

\* stop does not close the sockets, but forgets all of them.
StopListening ==
  /\ listening' = FALSE /\ known' = {} /\ rooms' = [r \in Rooms |-> {}]
  /\ astray' = astray \cup {c \in known : socket[c] = "open"}
  /\ UNCHANGED socket

OnOpen(c) ==
  /\ listening /\ socket[c] = "new"
  /\ socket' = [socket EXCEPT ![c] = "open"] /\ known' = known \cup {c}
  /\ UNCHANGED <<listening, rooms, astray>>

\* Fault: the socket's state is not looked at.
JoinsUnchecked(c, r) == socket[c] # "new"

\* joinRoom's guard; the client's join-room message ends in joinRoom, and code
\* of the server may call it for a connection it holds.
Joins(c, r) == socket[c] = "open"

JoinRoom(c, r) ==
  /\ Joins(c, r)
  /\ rooms' = [rooms EXCEPT ![r] = @ \cup {c}]
  /\ UNCHANGED <<listening, socket, known, astray>>

LeaveRoom(c, r) ==
  /\ c \in rooms[r]
  /\ rooms' = [rooms EXCEPT ![r] = @ \ {c}]
  /\ UNCHANGED <<listening, socket, known, astray>>

\* The network goes; the server's close callback has yet to run.
Breaks(c) ==
  /\ socket[c] = "open"
  /\ socket' = [socket EXCEPT ![c] = "broken"]
  /\ UNCHANGED <<listening, known, rooms, astray>>

Forget(dead) ==
  /\ known' = known \ dead
  /\ rooms' = [r \in Rooms |-> rooms[r] \ dead]

OnClose(c) ==
  /\ socket[c] \in {"open", "broken"}
  /\ socket' = [socket EXCEPT ![c] = "closed"]
  /\ Forget({c})
  /\ astray' = astray \ {c}
  /\ UNCHANGED listening

\* A valid event is sent to everybody known.  Whoever is not open, or whose
\* send throws, is forgotten.
Broadcast ==
  \E failing \in SUBSET {c \in known : socket[c] = "open"} :
    /\ Forget({c \in known : socket[c] # "open"} \cup failing)
    /\ astray' = astray \cup failing
    /\ UNCHANGED <<listening, socket>>

\* The timer pings those that are open; whose ping throws is forgotten.
PingAll ==
  \E failing \in SUBSET {c \in known : socket[c] = "open"} :
    /\ Forget(failing)
    /\ astray' = astray \cup failing
    /\ UNCHANGED <<listening, socket>>

RealtimeNext ==
  \/ StartListening \/ StopListening \/ Broadcast \/ PingAll
  \/ \E c \in Connections : \/ OnOpen(c) \/ Breaks(c) \/ OnClose(c)
                            \/ \E r \in Rooms : JoinRoom(c, r) \/ LeaveRoom(c, r)

RealtimeTypeOK ==
  /\ listening \in BOOLEAN /\ socket \in [Connections -> SocketStates]
  /\ known \subseteq Connections /\ astray \subseteq Connections
  /\ rooms \in [Rooms -> SUBSET Connections]

\* A room never keeps a connection whose close was handled: its members are
\* connections the server counts, or lost count of while they were open, by a
\* stop or a failing send (bun-websocket-adapter.ts:334 and 351).
RoomMembersConnected ==
  \A r \in Rooms : \A c \in rooms[r] :
    socket[c] # "closed" /\ c \in known \cup astray
==============================================================================

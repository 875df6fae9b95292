------------------------------- MODULE Client -------------------------------
(***************************************************************************)
(* The session of one page: the parts of web/app.js that open, use and     *)
(* close the WebSocket, between their awaits.  A step is what the browser  *)
(* runs without giving way: the start of a click handler, a continuation   *)
(* after an await, or an event of a socket.                                *)
(*                                                                         *)
(* The WebSocket is external: it opens or fails, delivers messages only    *)
(* while it is open, and reports its end by one close event, later than    *)
(* the close() that asked for it.                                          *)
(*                                                                         *)
(* A participant list is the room it is of.  The field for the room id is  *)
(* the user's: joinRoom and refreshRoom read it, createRoom writes it, and *)
(* nothing ties it to the room of the session.                             *)
(***************************************************************************)
CONSTANTS
  Calls,     \* bound: clicks on create or join, and the automatic join
  Sockets,   \* bound: the sockets these open
  NoSocket,  \* null
  Rooms,     \* room ids
  NoRoom     \* the empty string

ASSUME ClientAssumption == NoSocket \notin Sockets /\ NoRoom \notin Rooms

VARIABLES
  field,     \* els.roomId.value
  call,      \* where the createRoom or joinRoom of a click is
  target,    \* the roomId of the joinRoom of a click, while it runs
  media,     \* whether state.localStream is there
  socket,    \* state.socket
  net,       \* what became of each socket
  roomOf,    \* the room in the URL of each socket
  controls,  \* whether the buttons of a meeting are enabled
  shown,     \* the room whose participants the page shows
  asked,     \* refreshes in flight: the room asked for, the session of the click
  hasty,     \* history: a click came before an earlier action had ended
  late,      \* history: a refresh was answered after its session
  strayed    \* history: a refresh asked for a room other than the session's

callVars == <<call, target>>
netVars == <<socket, net, roomOf>>
refreshVars == <<asked, late, strayed>>

vars == <<field, callVars, media, netVars, controls, shown, refreshVars, hasty>>

(* state.roomId, which openSocket and cleanupSocketState set together with *)
(* state.socket.                                                           *)
RoomId == IF socket = NoSocket THEN NoRoom ELSE roomOf[socket]

Live == {s \in Sockets : net[s] \in {"connecting", "open"}}

InFlight == {k \in Calls : call[k] \in {"creating", "asking", "media"}}

Init ==
  /\ field = NoRoom
  /\ call = [k \in Calls |-> "idle"]
  /\ target = [k \in Calls |-> NoRoom]
  /\ media = FALSE
  /\ socket = NoSocket
  /\ net = [s \in Sockets |-> "unused"]
  /\ roomOf = [s \in Sockets |-> NoRoom]
  /\ controls = FALSE
  /\ shown = NoRoom
  /\ asked = {}
  /\ hasty = FALSE
  /\ late = FALSE
  /\ strayed = FALSE

(* The user starts something although a call is running or a socket is     *)
(* still about to close.                                                   *)
Hurry == hasty' = (hasty \/ InFlight # {} \/ \E s \in Sockets : net[s] = "closing")

Advance(k, from, to, room) ==
  /\ call[k] = from
  /\ call' = [call EXCEPT ![k] = to]
  /\ target' = [target EXCEPT ![k] = room]

-----------------------------------------------------------------------------
(* createRoom and joinRoom. *)

(* The user edits the room id, or the page was opened with one. *)
EditRoom(r) ==
  /\ field' = r
  /\ UNCHANGED <<callVars, media, netVars, controls, shown, refreshVars, hasty>>

ClickCreate(k) ==
  /\ Advance(k, "idle", "creating", NoRoom)
  /\ Hurry
  /\ UNCHANGED <<field, media, netVars, controls, shown, refreshVars>>

(* joinRoom refuses when there is a socket or no room id, and asks for the *)
(* room if not: after a click, on its own, or when it has been created.    *)
EnterJoin(k, from, room) ==
  IF socket = NoSocket /\ room # NoRoom
  THEN Advance(k, from, "asking", room)
  ELSE Advance(k, from, "done", NoRoom)

ClickJoin(k) ==
  /\ EnterJoin(k, "idle", field)
  /\ Hurry
  /\ UNCHANGED <<field, media, netVars, controls, shown, refreshVars>>

(* The new room is none the page knows of. *)
RoomCreated(k) ==
  \E r \in Rooms :
    /\ r \notin {field, shown} \cup {target[l] : l \in Calls} \cup {roomOf[s] : s \in Sockets}
               \cup {a.room : a \in asked}
    /\ field' = r
    /\ EnterJoin(k, "creating", r)
    /\ UNCHANGED <<media, netVars, controls, shown, refreshVars, hasty>>

(* The request for a new room or for the summary fails. *)
RequestFails(k) ==
  /\ Advance(k, "creating", "done", NoRoom) \/ Advance(k, "asking", "done", NoRoom)
  /\ UNCHANGED <<field, media, netVars, controls, shown, refreshVars, hasty>>

(* openSocket does not look whether there is a socket by now. *)
OpenSocket(s, room) ==
  /\ net[s] = "unused"
  /\ net' = [net EXCEPT ![s] = "connecting"]
  /\ roomOf' = [roomOf EXCEPT ![s] = room]
  /\ socket' = s

(* The room exists; with the media there already, the await gives way to   *)
(* nothing.                                                                *)
RoomFound(k) ==
  /\ IF media
     THEN Advance(k, "asking", "done", NoRoom) /\ \E s \in Sockets : OpenSocket(s, target[k])
     ELSE Advance(k, "asking", "media", target[k]) /\ UNCHANGED netVars
  /\ UNCHANGED <<field, media, controls, shown, refreshVars, hasty>>

(* Camera and microphone, or an empty stream in their place. *)
MediaReady(k) ==
  /\ Advance(k, "media", "done", NoRoom)
  /\ \E s \in Sockets : OpenSocket(s, target[k])
  /\ media' = TRUE
  /\ UNCHANGED <<field, controls, shown, refreshVars, hasty>>

-----------------------------------------------------------------------------
(* Events of a socket, whichever state.socket is. *)

(* syncMeetingState. *)
Opens(s) ==
  /\ net[s] = "connecting"
  /\ net' = [net EXCEPT ![s] = "open"]
  /\ controls' = TRUE
  /\ UNCHANGED <<field, callVars, media, socket, roomOf, shown, refreshVars, hasty>>

(* A welcome or a participant list. *)
Lists(s) ==
  /\ net[s] = "open"
  /\ shown' = roomOf[s]
  /\ UNCHANGED <<field, callVars, media, netVars, controls, refreshVars, hasty>>

(* Wrong variant: the state is cleared but keeps the socket. *)
CleanupKeepingSocket ==
  /\ controls' = FALSE
  /\ shown' = NoRoom
  /\ UNCHANGED socket

(* Wrong variant: the participants stay on the page. *)
CleanupWithoutList ==
  /\ socket' = NoSocket
  /\ controls' = FALSE
  /\ UNCHANGED shown

cleanupSocketState ==
  /\ socket' = NoSocket
  /\ controls' = FALSE
  /\ shown' = NoRoom

(* The connection fails, the server or the network ends it, or the close   *)
(* that leaveRoom asked for is done.                                       *)
CloseEvent(s) ==
  /\ net[s] \in {"connecting", "open", "closing"}
  /\ net' = [net EXCEPT ![s] = "closed"]
  /\ cleanupSocketState
  /\ UNCHANGED <<field, callVars, media, roomOf, refreshVars, hasty>>

-----------------------------------------------------------------------------
(* Wrong variant: whatever state.socket holds is closed, null as well. *)
LeaveClosingNull ==
  /\ controls
  /\ net' = [s \in Sockets \cup {socket} |-> IF s = socket THEN "closing" ELSE net[s]]
  /\ cleanupSocketState
  /\ hasty' = (hasty \/ InFlight # {})
  /\ UNCHANGED <<field, callVars, media, roomOf, refreshVars>>

(* Wrong variant: the page forgets the socket without closing it. *)
LeaveWithoutClose ==
  /\ controls
  /\ UNCHANGED net
  /\ cleanupSocketState
  /\ hasty' = (hasty \/ InFlight # {})
  /\ UNCHANGED <<field, callVars, media, roomOf, refreshVars>>

(* leaveRoom; its button is one of the controls. *)
Leave ==
  /\ controls
  /\ net' = IF socket = NoSocket THEN net ELSE [net EXCEPT ![socket] = "closing"]
  /\ cleanupSocketState
  /\ hasty' = (hasty \/ InFlight # {})
  /\ UNCHANGED <<field, callVars, media, roomOf, refreshVars>>

(* refreshRoom asks for the room in the field, whichever that is by now;   *)
(* its button is one of the controls.                                      *)
ClickRefresh ==
  /\ controls
  /\ field # NoRoom
  /\ asked' = asked \cup {[room |-> field, session |-> socket]}
  /\ strayed' = (strayed \/ field # RoomId)
  /\ UNCHANGED <<field, callVars, media, netVars, controls, shown, late, hasty>>

(* syncParticipants with the answer, whatever has happened meanwhile.      *)
RefreshAnswered(a) ==
  /\ asked' = asked \ {a}
  /\ shown' = a.room
  /\ late' = (late \/ a.session # socket)
  /\ UNCHANGED <<field, callVars, media, netVars, controls, strayed, hasty>>

RefreshFails(a) ==
  /\ asked' = asked \ {a}
  /\ UNCHANGED <<field, callVars, media, netVars, controls, shown, late, strayed, hasty>>

(* Every click has been made and every socket has closed: the page rests. *)
AtRest ==
  /\ \A k \in Calls : call[k] = "done"
  /\ \A s \in Sockets : net[s] \in {"unused", "closed"}
  /\ UNCHANGED vars

Next ==
  \/ \E r \in Rooms \cup {NoRoom} : EditRoom(r)
  \/ \E k \in Calls :
       \/ ClickCreate(k) \/ ClickJoin(k)
       \/ RoomCreated(k) \/ RequestFails(k) \/ RoomFound(k) \/ MediaReady(k)
  \/ \E s \in Sockets : Opens(s) \/ Lists(s) \/ CloseEvent(s)
  \/ Leave \/ ClickRefresh
  \/ \E a \in asked : RefreshAnswered(a) \/ RefreshFails(a)
  \/ AtRest

Spec == Init /\ [][Next]_vars

-----------------------------------------------------------------------------
(* Properties. *)

(* Every variable keeps its type. *)
TypeOK ==
  /\ call \in [Calls -> {"idle", "creating", "asking", "media", "done"}]
  /\ net \in [Sockets -> {"unused", "connecting", "open", "closing", "closed"}]
  /\ socket \in Sockets \cup {NoSocket}
  /\ roomOf \in [Sockets -> Rooms \cup {NoRoom}]
  /\ target \in [Calls -> Rooms \cup {NoRoom}]
  /\ {field, shown} \subseteq Rooms \cup {NoRoom}
  /\ asked \subseteq [room : Rooms, session : Sockets \cup {NoSocket}]
  /\ {media, controls, hasty, late, strayed} \subseteq BOOLEAN

(* state.socket is never a socket that has ended or is being closed, so    *)
(* joinRoom never refuses on account of a dead one: whichever socket       *)
(* closes, its event also clears state.socket.                             *)
SocketIsLive == socket # NoSocket => socket \in Live

(* While the current socket is open, the user can leave: no event of       *)
(* another socket takes the buttons away and leaves the socket.            *)
CanLeave == (socket # NoSocket /\ net[socket] = "open") => controls

(* A user who lets every action end before the next click has at most one  *)
(* connection, the page knows it, and the buttons tell the truth about it: *)
(* a click while a call is running or a socket is closing, or leaving      *)
(* while a call is running, are the only ways to a forgotten connection.   *)
NoOrphanUnlessHasty ==
  ~hasty =>
    /\ Live \subseteq {socket}
    /\ controls => socket # NoSocket

(* Such a user is shown the participants of the room of the present        *)
(* session or none, whatever is typed into the field and whatever rooms    *)
(* are created meanwhile, unless a refresh was answered after its session  *)
(* had ended or was clicked with another room in the field.                *)
ShownIsCurrent == ~hasty /\ ~late /\ ~strayed => shown \in {NoRoom, RoomId}

(* joinRoom: whoever is in a meeting already is told so and does not join  *)
(* again.                                                                  *)
OneMeetingAtATime == \A s, t \in Live : s = t
=============================================================================

-------------------------------- MODULE Room --------------------------------
(***************************************************************************)
(* One meeting room: internal/meeting/room.go, with the message types of   *)
(* message.go.  The room is the shared state of every connection handler;  *)
(* each of its methods is one critical section of Room.mu, so each is one  *)
(* step here.  The exception is Broadcast: it holds the lock for reading,  *)
(* and two broadcasts may walk the participants map at the same time, so   *)
(* it is one step per recipient, in any order.                             *)
(*                                                                         *)
(* A connection (one call of handleWebSocket) makes at most one session,   *)
(* hence the session's channel is named after the connection that made it. *)
(***************************************************************************)
EXTENDS Naturals, Sequences

CONSTANTS
  Conns,         \* connections, each one call of handleWebSocket
  Users,         \* the user ids the connections present
  UserOf,        \* the userId of a connection's query string
  NoConn,        \* no session
  QueueCap,      \* capacity of a session's channel (16 in the code)
  HistoryLimit   \* chatHistoryLimit (100 in the code)

ASSUME RoomAssumption ==
  /\ UserOf \in [Conns -> Users]
  /\ NoConn \notin Conns
  /\ QueueCap \in Nat \ {0}
  /\ HistoryLimit \in Nat \ {0}

VARIABLES
  participants,  \* Room.participants: user -> the connection whose session it is
  status,        \* the flags raised in the participant record of a user
  queue,         \* the buffered channel session.send of a connection
  closed,        \* the connections whose channel has been closed
  readers,       \* the connections holding Room.mu for reading in a Broadcast
  todo,          \* the recipients such a Broadcast has not reached yet
  chatHistory,   \* Room.chatHistory
  dropped        \* history: connections whose full channel lost a message

roomVars ==
  <<participants, status, queue, closed, readers, todo, chatHistory, dropped>>

-----------------------------------------------------------------------------
(* Messages: only the fields that the handlers tell apart. *)

StatusFlags == {"audioMuted", "videoMuted", "handRaised", "screenSharing"}

StatusTypes ==
  {"mute-changed", "hand-raised", "screen-share-started", "screen-share-stopped"}

RelayTypes == {"offer", "answer", "ice-candidate"}

(* The flags a status message overwrites, and the values it may give them: *)
(* the set of flags that are up afterwards.                                *)
Governs(t) ==
  CASE t = "mute-changed" -> {"audioMuted", "videoMuted"}
    [] t = "hand-raised"  -> {"handRaised"}
    [] OTHER              -> {"screenSharing"}

Outcomes(t) ==
  CASE t = "screen-share-started" -> {{"screenSharing"}}
    [] t = "screen-share-stopped" -> {{}}
    [] OTHER                      -> SUBSET Governs(t)

(* A chat message: of its sender the code keeps the user id; here it is the *)
(* connection it came over, which tells the connections of one user apart.  *)
Chats == [sender : Conns, id : Nat]

(* A list of participants: the users in it with their flags. *)
Rosters == UNION {[M -> SUBSET StatusFlags] : M \in SUBSET Users}

Messages ==
       [type : {"peer-joined", "peer-left"}, from : Users]
  \cup [type : {"participants"}, list : Rosters]
  \cup [type : StatusTypes, from : Users, on : SUBSET StatusFlags]
  \cup [type : {"chat-message"}, chat : Chats]
  \cup [type : RelayTypes, from : Users]
  \cup [type : {"error"}]

PeerMsg(t, u)       == [type |-> t, from |-> u]
ListMsg(l)          == [type |-> "participants", list |-> l]
StatusMsg(t, u, on) == [type |-> t, from |-> u, on |-> on]
ChatMsg(m)          == [type |-> "chat-message", chat |-> m]
ErrorMsg            == [type |-> "error"]

-----------------------------------------------------------------------------
(* The methods of Room. *)

RoomInit ==
  /\ participants = [u \in Users |-> NoConn]
  /\ status       = [u \in Users |-> {}]
  /\ queue        = [c \in Conns |-> <<>>]
  /\ closed       = {}
  /\ readers      = {}
  /\ todo         = [c \in Conns |-> {}]
  /\ chatHistory  = <<>>
  /\ dropped      = {}

Present(u) == participants[u] # NoConn

Members == {u \in Users : Present(u)}

(* SnapshotParticipants: a copy of the participant records. *)
Snapshot == [u \in Members |-> status[u]]

(* mu.Lock() waits until no Broadcast is walking the map. *)
WriteLock == readers = {}

(* Wrong variant: a user id that is present keeps the session it has. *)
AddIfAbsent(c) ==
  /\ WriteLock
  /\ participants' = [participants EXCEPT ![UserOf[c]] = IF @ = NoConn THEN c ELSE @]
  /\ status' = [status EXCEPT ![UserOf[c]] = {}]
  /\ UNCHANGED <<queue, closed, readers, todo, chatHistory, dropped>>

(* AddParticipant overwrites whatever session the user id had: the channel *)
(* of that session is neither closed nor drained.                          *)
AddParticipant(c) ==
  /\ WriteLock
  /\ participants' = [participants EXCEPT ![UserOf[c]] = c]
  /\ status' = [status EXCEPT ![UserOf[c]] = {}]
  /\ UNCHANGED <<queue, closed, readers, todo, chatHistory, dropped>>

(* Wrong variants: the session is closed and stays in the map; the session *)
(* is removed without the lock.                                            *)
CloseWithoutDelete(u) ==
  /\ WriteLock
  /\ Present(u)
  /\ closed' = closed \cup {participants[u]}
  /\ UNCHANGED <<participants, status, queue, readers, todo, chatHistory, dropped>>

RemoveUnlocked(u) ==
  /\ Present(u)
  /\ participants' = [participants EXCEPT ![u] = NoConn]
  /\ status' = [status EXCEPT ![u] = {}]
  /\ closed' = closed \cup {participants[u]}
  /\ UNCHANGED <<queue, readers, todo, chatHistory, dropped>>

(* RemoveParticipant, when the user id is present: it removes and closes   *)
(* the session found under the id, whichever connection made it.           *)
RemoveParticipant(u) ==
  /\ WriteLock
  /\ Present(u)
  /\ participants' = [participants EXCEPT ![u] = NoConn]
  /\ status' = [status EXCEPT ![u] = {}]
  /\ closed' = closed \cup {participants[u]}
  /\ UNCHANGED <<queue, readers, todo, chatHistory, dropped>>

(* UpdateParticipant fails without effect for an absent user id. *)
UpdateParticipant(u, t, on) ==
  /\ WriteLock
  /\ status' = IF Present(u)
               THEN [status EXCEPT ![u] = (@ \ Governs(t)) \cup on]
               ELSE status
  /\ UNCHANGED <<participants, queue, closed, readers, todo, chatHistory, dropped>>

(* The last chatHistoryLimit elements of a chat log. *)
Window(log) ==
  SubSeq(log, IF Len(log) > HistoryLimit THEN Len(log) - HistoryLimit + 1 ELSE 1,
         Len(log))

AppendChatMessage(m) ==
  /\ WriteLock
  /\ chatHistory' = Window(Append(chatHistory, m))
  /\ UNCHANGED <<participants, status, queue, closed, readers, todo, dropped>>

(* Wrong variant: the channel is not bounded. *)
SendUnbounded(u, m) ==
  /\ queue' = [queue EXCEPT ![participants[u]] = Append(@, m)]
  /\ UNCHANGED dropped

(* select { case s.send <- msg: default: } on the channel of a present user. *)
TrySend(u, m) ==
  LET ch == participants[u]
  IN  IF Len(queue[ch]) < QueueCap
      THEN /\ queue' = [queue EXCEPT ![ch] = Append(@, m)]
           /\ UNCHANGED dropped
      ELSE /\ dropped' = dropped \cup {ch}
           /\ UNCHANGED queue

SendTo(u, m) ==
  /\ IF Present(u) THEN TrySend(u, m) ELSE UNCHANGED <<queue, dropped>>
  /\ UNCHANGED <<participants, status, closed, readers, todo, chatHistory>>

(* The recipients that a Broadcast by the handler of c, to everyone but the *)
(* users in except, has not reached yet.                                   *)
Remaining(c, except) == IF c \in readers THEN todo[c] ELSE Members \ except

(* Wrong variant: whoever cannot keep up is thrown out of the room. *)
BroadcastOrEvict(c, u, m, except) ==
  LET left == Remaining(c, except)
      full == Len(queue[participants[u]]) >= QueueCap
  IN  /\ u \in left
      /\ TrySend(u, m)
      /\ participants' = IF full THEN [participants EXCEPT ![u] = NoConn] ELSE participants
      /\ todo' = [todo EXCEPT ![c] = left \ {u}]
      /\ readers' = IF left = {u} THEN readers \ {c} ELSE readers \cup {c}
      /\ UNCHANGED <<status, closed, chatHistory>>

(* The step of a Broadcast that reaches one recipient.  The read lock is   *)
(* taken with the first and given back with the last: the steps others can *)
(* take while it is held and nothing is sent are the ones that commute     *)
(* with taking and releasing it.                                           *)
BroadcastTo(c, u, m, except) ==
  LET left == Remaining(c, except)
  IN  /\ u \in left
      /\ TrySend(u, m)
      /\ todo' = [todo EXCEPT ![c] = left \ {u}]
      /\ readers' = IF left = {u} THEN readers \ {c} ELSE readers \cup {c}
      /\ UNCHANGED <<participants, status, closed, chatHistory>>

(* The receiving end of a session's channel: msg := <-sendCh. *)
Dequeue(c) ==
  /\ queue[c] # <<>>
  /\ queue' = [queue EXCEPT ![c] = Tail(@)]
  /\ UNCHANGED <<participants, status, closed, readers, todo, chatHistory, dropped>>

RoomTypeOK ==
  /\ participants \in [Users -> Conns \cup {NoConn}]
  /\ status \in [Users -> SUBSET StatusFlags]
  /\ queue \in [Conns -> Seq(Messages)]
  /\ \A c \in Conns : Len(queue[c]) <= QueueCap
  /\ closed \in SUBSET Conns
  /\ readers \in SUBSET Conns
  /\ todo \in [Conns -> SUBSET Users]
  /\ chatHistory \in Seq(Chats)
  /\ Len(chatHistory) <= HistoryLimit
  /\ dropped \in SUBSET Conns
=============================================================================

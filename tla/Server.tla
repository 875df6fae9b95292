------------------------------- MODULE Server -------------------------------
(***************************************************************************)
(* The connection handlers of internal/app/server.go, over one room.       *)
(*                                                                         *)
(* A connection has two goroutines.  Its handler (handleWebSocket) looks   *)
(* the room up, joins it, greets the client, reads messages until the      *)
(* connection fails and then runs the deferred cleanup; pc is where it is. *)
(* Its writer moves messages from the session's channel to the client.     *)
(* Every call into the room or the hub is a step of its own, because the   *)
(* locks are released in between.                                          *)
(*                                                                         *)
(* The step Deliver is the write to the socket and the client's message    *)
(* event in one: TCP keeps the order, a message in flight when the         *)
(* connection breaks is one that was not delivered, and a client that is   *)
(* slow to read is a writer that is slow to deliver.                       *)
(***************************************************************************)
EXTENDS Room, Hub

CONSTANTS
  Inputs,    \* the types of message that clients send in this instance
  MaxReads   \* bound: client messages read in a behavior

ASSUME ServerAssumption ==
  /\ NoSweeper \notin Conns
  /\ Inputs \subseteq StatusTypes \cup RelayTypes \cup {"chat-message", "invalid"}
  /\ MaxReads \in Nat

VARIABLES
  pc,        \* where the handler of a connection is
  pending,   \* the message or participant list it is about to send
  writer,    \* "off", "on" or "done": the writer goroutine of a connection
  reads      \* client messages read so far

handlerVars == <<pc, pending, writer, reads>>

vars == <<roomVars, hubVars, handlerVars>>

NoMsg == [type |-> "none"]

-----------------------------------------------------------------------------
(* The stages of a handler. *)

Fresh == {"idle", "accepted", "refused"}

(* Between AddParticipant and the RemoveParticipant of the deferred call. *)
Joined ==
  {"joined", "welcome", "announce", "snapshot", "publish", "reading", "echo",
   "refuse", "leaving"}

(* After it; the context was cancelled when the handler began to leave. *)
Departed == {"farewell", "lastSnapshot", "lastPublish", "sweep", "delete", "closed"}

Stages == Fresh \cup Joined \cup Departed

Broadcasting == {"announce", "publish", "echo", "farewell", "lastPublish"}

(* Wrong variant: no broadcast returns to its sender. *)
ExceptSelf(c) == {UserOf[c]}

(* peer-joined and peer-left are not sent to the user they are about. *)
Except(c) == IF pc[c] \in {"announce", "farewell"} THEN {UserOf[c]} ELSE {}

(* Wrong variant: nobody looks whether the room is empty. *)
AfterBroadcastNoSweep(c) ==
  CASE pc[c] = "announce" -> "snapshot"
    [] pc[c] = "publish"  -> "reading"
    [] pc[c] = "farewell" -> "lastSnapshot"
    [] pc[c] = "lastPublish" -> "closed"
    [] pc[c] = "echo" ->
         IF pending[c].type = "chat-message" THEN "reading" ELSE "snapshot"

(* Where the handler goes from a broadcast: a status message is followed   *)
(* by the participant list, a chat message is not.                         *)
AfterBroadcast(c) ==
  CASE pc[c] = "announce" -> "snapshot"
    [] pc[c] = "publish"  -> "reading"
    [] pc[c] = "farewell" -> "lastSnapshot"
    [] pc[c] = "lastPublish" -> "sweep"
    [] pc[c] = "echo" ->
         IF pending[c].type = "chat-message" THEN "reading" ELSE "snapshot"

Goto(c, from, to) ==
  /\ pc[c] = from
  /\ pc' = [pc EXCEPT ![c] = to]

Init ==
  /\ RoomInit
  /\ HubInit
  /\ pc = [c \in Conns |-> "idle"]
  /\ pending = [c \in Conns |-> NoMsg]
  /\ writer = [c \in Conns |-> "off"]
  /\ reads = 0

-----------------------------------------------------------------------------
(* handleWebSocket, up to the read loop. *)

(* The room is found and the connection upgraded. *)
Accept(c) ==
  /\ Found
  /\ Goto(c, "idle", "accepted")
  /\ UNCHANGED <<roomVars, hubVars, pending, writer, reads>>

(* The room is not found.  A request refused for its parameters or its     *)
(* headers touches no state and is the same as one that never came.        *)
Refuse(c) ==
  /\ HubLock
  /\ ~Found
  /\ Goto(c, "idle", "refused")
  /\ UNCHANGED <<roomVars, hubVars, pending, writer, reads>>

Join(c) ==
  /\ Goto(c, "accepted", "joined")
  /\ AddParticipant(c)
  /\ UNCHANGED <<hubVars, pending, writer, reads>>

(* room.SnapshotParticipants() for the welcome message. *)
ListForWelcome(c) ==
  /\ Goto(c, "joined", "welcome")
  /\ pending' = [pending EXCEPT ![c] = ListMsg(Snapshot)]
  /\ UNCHANGED <<roomVars, hubVars, writer, reads>>

(* room.ChatHistory(), and the welcome is written with both to the client. *)
Welcome(c) ==
  /\ Goto(c, "welcome", "announce")
  /\ pending' = [pending EXCEPT ![c] = PeerMsg("peer-joined", UserOf[c])]
  /\ UNCHANGED <<roomVars, hubVars, writer, reads>>

(* Wrong variant: the cleanup is deferred only after the welcome. *)
WelcomeFailsForGood(c) ==
  /\ Goto(c, "welcome", "closed")
  /\ pending' = [pending EXCEPT ![c] = NoMsg]
  /\ UNCHANGED <<roomVars, hubVars, writer, reads>>

WelcomeFails(c) ==
  /\ Goto(c, "welcome", "leaving")
  /\ pending' = [pending EXCEPT ![c] = NoMsg]
  /\ UNCHANGED <<roomVars, hubVars, writer, reads>>

-----------------------------------------------------------------------------
(* Broadcasts, whoever makes them: pending is the message, pc says why. *)

(* The first return to the read loop starts the writer. *)
FinishBroadcast(c) ==
  /\ pc' = [pc EXCEPT ![c] = AfterBroadcast(c)]
  /\ pending' = [pending EXCEPT ![c] = NoMsg]
  /\ writer' = IF pc[c] = "publish" /\ writer[c] = "off"
               THEN [writer EXCEPT ![c] = "on"]
               ELSE writer
  /\ UNCHANGED reads

SendOne(c, u) ==
  /\ pc[c] \in Broadcasting
  /\ BroadcastTo(c, u, pending[c], Except(c))
  /\ IF Remaining(c, Except(c)) = {u} THEN FinishBroadcast(c) ELSE UNCHANGED handlerVars
  /\ UNCHANGED hubVars

SendNone(c) ==
  /\ pc[c] \in Broadcasting
  /\ Remaining(c, Except(c)) = {}
  /\ FinishBroadcast(c)
  /\ UNCHANGED <<roomVars, hubVars>>

(* broadcastParticipants takes its snapshot before it broadcasts it. *)
TakeSnapshot(c) ==
  /\ \/ Goto(c, "snapshot", "publish")
     \/ Goto(c, "lastSnapshot", "lastPublish")
  /\ pending' = [pending EXCEPT ![c] = ListMsg(Snapshot)]
  /\ UNCHANGED <<roomVars, hubVars, writer, reads>>

-----------------------------------------------------------------------------
(* handleSignalMessage: one action per kind of message read. *)

Read(c, kinds) ==
  /\ pc[c] = "reading"
  /\ kinds \cap Inputs # {}
  /\ reads < MaxReads
  /\ reads' = reads + 1

(* offer, answer, ice-candidate to a present user. *)
ReadRelay(c, u) ==
  /\ Read(c, RelayTypes)
  /\ Present(u)
  /\ \E t \in RelayTypes \cap Inputs : SendTo(u, PeerMsg(t, UserOf[c]))
  /\ UNCHANGED <<hubVars, pc, pending, writer>>

(* The same with no target, or one that is absent. *)
ReadRelayAstray(c) ==
  /\ Read(c, RelayTypes)
  /\ Goto(c, "reading", "refuse")
  /\ UNCHANGED <<roomVars, hubVars, pending, writer>>

ReadStatus(c, t, on) ==
  /\ Read(c, {t})
  /\ UpdateParticipant(UserOf[c], t, on)
  /\ Goto(c, "reading", "echo")
  /\ pending' = [pending EXCEPT ![c] = StatusMsg(t, UserOf[c], on)]
  /\ UNCHANGED <<hubVars, writer>>

(* The message counter stands for the id: unique, growing along a sender. *)
ReadChat(c) ==
  LET m == [sender |-> c, id |-> reads]
  IN  /\ Read(c, {"chat-message"})
      /\ AppendChatMessage(m)
      /\ Goto(c, "reading", "echo")
      /\ pending' = [pending EXCEPT ![c] = ChatMsg(m)]
      /\ UNCHANGED <<hubVars, writer>>

(* An empty chat message or an unsupported type. *)
ReadInvalid(c) ==
  /\ Read(c, {"invalid"})
  /\ Goto(c, "reading", "refuse")
  /\ UNCHANGED <<roomVars, hubVars, pending, writer>>

(* The error reply goes to whoever now holds the sender's user id. *)
SendError(c) ==
  /\ Goto(c, "refuse", "reading")
  /\ SendTo(UserOf[c], ErrorMsg)
  /\ UNCHANGED <<hubVars, pending, writer, reads>>

-----------------------------------------------------------------------------
(* The end of a connection. *)

(* ReadJSON fails: close frame, broken connection, frame or JSON not valid. *)
Hangup(c) ==
  /\ Goto(c, "reading", "leaving")
  /\ UNCHANGED <<roomVars, hubVars, pending, writer, reads>>

(* Wrong variant: the cleanup waits for the writer goroutine first. *)
DepartAfterWriter(c) ==
  /\ writer[c] # "on"
  /\ Goto(c, "leaving", "farewell")
  /\ RemoveParticipant(UserOf[c])
  /\ pending' = [pending EXCEPT ![c] = PeerMsg("peer-left", UserOf[c])]
  /\ UNCHANGED <<hubVars, writer, reads>>

(* The deferred cleanup: whoever holds the user id now is removed. *)
Depart(c) ==
  /\ Goto(c, "leaving", "farewell")
  /\ RemoveParticipant(UserOf[c])
  /\ pending' = [pending EXCEPT ![c] = PeerMsg("peer-left", UserOf[c])]
  /\ UNCHANGED <<hubVars, writer, reads>>

(* RemoveParticipant returns false: nobody holds the user id any more. *)
DepartUnnoticed(c) ==
  /\ WriteLock
  /\ ~Present(UserOf[c])
  /\ Goto(c, "leaving", "closed")
  /\ UNCHANGED <<roomVars, hubVars, pending, writer, reads>>

(* DeleteRoomIfEmpty. *)
Sweep(c) ==
  /\ \/ DecideToDelete(c, Members = {}) /\ Goto(c, "sweep", "delete")
     \/ DecideToKeep(Members = {}) /\ Goto(c, "sweep", "closed")
  /\ UNCHANGED <<roomVars, pending, writer, reads>>

DeleteRoom(c) ==
  /\ Goto(c, "delete", "closed")
  /\ Delete(c)
  /\ UNCHANGED <<roomVars, pending, writer, reads>>

-----------------------------------------------------------------------------
(* The writer goroutine. *)

Deliver(c) ==
  /\ writer[c] = "on"
  /\ pc[c] # "closed"
  /\ Dequeue(c)
  /\ UNCHANGED <<hubVars, handlerVars>>

(* The write fails: the message is lost and nobody writes again, but the   *)
(* handler, blocked in ReadJSON, does not look at the cancelled context.   *)
WriteFails(c) ==
  /\ writer[c] = "on"
  /\ Dequeue(c)
  /\ writer' = [writer EXCEPT ![c] = "done"]
  /\ UNCHANGED <<hubVars, pc, pending, reads>>

(* The context is cancelled, or the channel is closed and drained. *)
WriterStops(c) ==
  /\ writer[c] = "on"
  /\ pc[c] \in Departed \cup {"leaving"} \/ (c \in closed /\ queue[c] = <<>>)
  /\ writer' = [writer EXCEPT ![c] = "done"]
  /\ UNCHANGED <<roomVars, hubVars, pc, pending, reads>>

-----------------------------------------------------------------------------

(* What a handler does once it is called, without waiting for the client. *)
HandlerStep(c) ==
  \/ Join(c) \/ ListForWelcome(c)
  \/ (\E u \in Users : SendOne(c, u)) \/ SendNone(c)
  \/ TakeSnapshot(c) \/ SendError(c)
  \/ Depart(c) \/ DepartUnnoticed(c) \/ Sweep(c) \/ DeleteRoom(c)

(* The welcome is written to the socket by the handler itself and without  *)
(* a deadline: how long that takes is up to the client.                    *)
WelcomeStep(c) == Welcome(c) \/ WelcomeFails(c)

(* What clients and networks do: connect, send a message, go away. *)
ClientStep(c) ==
  \/ Accept(c) \/ Refuse(c) \/ Hangup(c)
  \/ (\E u \in Users : ReadRelay(c, u)) \/ ReadRelayAstray(c)
  \/ (\E t \in StatusTypes : \E on \in Outcomes(t) : ReadStatus(c, t, on))
  \/ ReadChat(c) \/ ReadInvalid(c)

WriterStep(c) == Deliver(c) \/ WriteFails(c) \/ WriterStops(c)

(* Every connection has ended: the server waits for requests. *)
AllOver ==
  /\ \A c \in Conns : pc[c] \in {"closed", "refused"} /\ writer[c] # "on"
  /\ UNCHANGED vars

Next ==
  \/ CreateRoom /\ UNCHANGED <<roomVars, handlerVars>>
  \/ Expire /\ UNCHANGED <<roomVars, handlerVars>>
  \/ \E c \in Conns : HandlerStep(c) \/ WelcomeStep(c) \/ ClientStep(c) \/ WriterStep(c)
  \/ AllOver

Spec == Init /\ [][Next]_vars

(* The Go scheduler runs every goroutine that can run, and a mutex is      *)
(* granted in the end; time passes.  Neither a client nor a write to its   *)
(* socket, which blocks while the peer reads nothing, owes a step: not the *)
(* writer's, and not the handler's own, the welcome.                       *)
FairSpec ==
  /\ Spec
  /\ WF_vars(Expire /\ UNCHANGED <<roomVars, handlerVars>>)
  /\ \A c \in Conns : WF_vars(HandlerStep(c))

-----------------------------------------------------------------------------
(* Properties. *)

HandlerTypeOK ==
  /\ pc \in [Conns -> Stages]
  /\ pending \in [Conns -> Messages \cup {NoMsg}]
  /\ writer \in [Conns -> {"off", "on", "done"}]
  /\ reads \in 0..MaxReads

(* Every variable keeps its type; no channel holds more than its capacity  *)
(* and the chat history never more than its limit.                         *)
TypeOK == RoomTypeOK /\ HubTypeOK(Conns) /\ HandlerTypeOK

(* No session in the participants map has a closed channel.  A send on a   *)
(* closed channel, or closing it twice, would panic in a handler; several  *)
(* connections of one user id overwrite and remove each other's sessions.  *)
NoSendOnClosed == \A u \in Members : participants[u] \notin closed

(* A Broadcast walking the map only meets users who are still in it: the   *)
(* read lock keeps every removal out until it has finished.                *)
BroadcastReachesPresent == \A c \in readers : todo[c] \subseteq Members

(* Every session in the map was made under its user's id by a handler that *)
(* has yet to run its deferred RemoveParticipant: no session outlives all  *)
(* the handlers that could remove it.                                      *)
RegisteredIsLive ==
  \A u \in Members :
    /\ UserOf[participants[u]] = u
    /\ pc[participants[u]] \in Joined

(* A connection that has joined and is still served is registered, unless  *)
(* another connection with the same user id joined too: taking over an id  *)
(* is the only way to be cut off while connected.                          *)
CutOffOnlyByTakeover ==
  \A c \in Conns :
    (pc[c] \in Joined /\ participants[UserOf[c]] # c) =>
      \E d \in Conns \ {c} : UserOf[d] = UserOf[c] /\ pc[d] \notin Fresh

(* The user ids as the abstract specification sees them. *)
Ids ==
  INSTANCE Presence WITH holder <- participants,
                         came <- {c \in Conns : pc[c] \notin Fresh},
                         left <- {c \in Conns : pc[c] \in Departed}

(* The participants map keeps the promise of Presence: the holder of an id *)
(* changes only when a connection joins or when one that joined leaves,    *)
(* each once; updates, broadcasts, relays and sweeps never disturb it.     *)
ImplementsPresence == Ids!Spec

(* A handler waits for its client in two places, when it writes the        *)
(* welcome and when it reads.  From anywhere else it gets to one of them   *)
(* or to its end, whatever the writers and the other clients do: a client  *)
(* that reads nothing holds up its own handler and nobody else's.          *)
SlowClientsStallNobody ==
  \A c \in Conns :
    pc[c] \in Stages \ {"idle", "welcome", "reading"} ~>
      pc[c] \in {"welcome", "reading", "closed", "refused"}

(* When the last participant goes after the retention time, the room is    *)
(* deleted unless somebody joins first.                                    *)
ExpiredRoomIsSwept ==
  \A c \in Conns :
    (pc[c] = "farewell" /\ expired /\ Members = {}) ~> (life = "deleted" \/ Members # {})

(* README.md: the members of a room can be queried, by its id.             *)
MembersCanBeQueried == Members # {} => life = "listed"
=============================================================================

---------------------------- MODULE ServerProofs ----------------------------
(***************************************************************************)
(* Proofs about Server, for any number of connections and users, however   *)
(* the connections share user ids, any capacity of the channels and any    *)
(* length of the chat history.                                             *)
(*                                                                         *)
(* The first part is the type invariant; it needs to know that a handler   *)
(* in a broadcast has a message to send and that its recipients are there. *)
(* The second part is who holds a user id.  Only three actions move an id  *)
(* or a connection between the stages Fresh, Joined and Departed, and      *)
(* every other step is Quiet; both the invariants of the participants map  *)
(* and its implementation of Presence follow from that.                    *)
(***************************************************************************)
EXTENDS Server, RoomProofs

(* A handler that broadcasts has something to say. *)
PendingIsMessage == \A c \in Conns : pc[c] \in Broadcasting => pending[c] \in Messages

TypeInv == TypeOK /\ PendingIsMessage /\ BroadcastReachesPresent

(* The stages are a partition, and Broadcasting steps lead out of it. *)
LEMMA StagesDisjoint ==
  /\ Fresh \cap Joined = {} /\ Fresh \cap Departed = {} /\ Joined \cap Departed = {}
  /\ Fresh \cup Joined \cup Departed = Stages
  /\ Broadcasting \subseteq Joined \cup Departed
BY DEF Fresh, Joined, Departed, Stages, Broadcasting

LEMMA AfterBroadcastStage ==
  ASSUME NEW c \in Conns, pc[c] \in Broadcasting
  PROVE  /\ AfterBroadcast(c) \in Stages \ Broadcasting
         /\ AfterBroadcast(c) \notin Fresh
         /\ AfterBroadcast(c) \in Joined <=> pc[c] \in Joined
         /\ AfterBroadcast(c) \in Departed <=> pc[c] \in Departed
<1>1. CASE pc[c] = "announce"
  BY <1>1 DEF AfterBroadcast, Broadcasting, Stages, Fresh, Joined, Departed
<1>2. CASE pc[c] = "publish"
  BY <1>2 DEF AfterBroadcast, Broadcasting, Stages, Fresh, Joined, Departed
<1>3. CASE pc[c] = "echo"
  <2>1. AfterBroadcast(c) \in {"reading", "snapshot"}
    BY <1>3 DEF AfterBroadcast
  <2> QED
    BY <1>3, <2>1 DEF Broadcasting, Stages, Fresh, Joined, Departed
<1>4. CASE pc[c] = "farewell"
  BY <1>4 DEF AfterBroadcast, Broadcasting, Stages, Fresh, Joined, Departed
<1>5. CASE pc[c] = "lastPublish"
  BY <1>5 DEF AfterBroadcast, Broadcasting, Stages, Fresh, Joined, Departed
<1> QED
  BY <1>1, <1>2, <1>3, <1>4, <1>5 DEF Broadcasting

(* A handler that goes from one stage to another. *)
LEMMA GotoType ==
  ASSUME pc \in [Conns -> Stages], NEW c \in Conns, NEW from, NEW to \in Stages,
         Goto(c, from, to)
  PROVE  pc' \in [Conns -> Stages]
BY DEF Goto

(* A set of stages that holds both or neither of from and to. *)
LEMMA GotoWithin ==
  ASSUME pc \in [Conns -> Stages], NEW c \in Conns, NEW from, NEW to,
         Goto(c, from, to), NEW K, from \in K <=> to \in K
  PROVE  \A d \in Conns : pc'[d] \in K <=> pc[d] \in K
BY DEF Goto

-----------------------------------------------------------------------------
(* The type invariant. *)

LEMMA InitTypeInv == Init => TypeInv
<1> SUFFICES ASSUME Init PROVE TypeInv
  OBVIOUS
<1>1. RoomTypeOK
  BY RoomInitType DEF Init
<1>2. HubTypeOK(Conns)
  BY DEF Init, HubInit, HubTypeOK
<1>3. pc \in [Conns -> Stages]
  BY DEF Init, Stages, Fresh
<1>4. /\ pending \in [Conns -> Messages \cup {NoMsg}]
      /\ writer \in [Conns -> {"off", "on", "done"}]
  BY DEF Init
<1>5. reads \in 0..MaxReads
  BY ServerAssumption DEF Init
<1>6. PendingIsMessage
  BY DEF Init, PendingIsMessage, Broadcasting
<1>7. BroadcastReachesPresent
  BY DEF Init, RoomInit, BroadcastReachesPresent
<1> QED
  BY <1>1, <1>2, <1>3, <1>4, <1>5, <1>6, <1>7 DEF TypeInv, TypeOK, HandlerTypeOK

(* The hub's part. *)
LEMMA HubTypeStep ==
  ASSUME HubTypeOK(Conns), NEW c \in Conns,
         \/ UNCHANGED hubVars \/ CreateRoom \/ Expire \/ Delete(c)
         \/ DecideToDelete(c, Members = {}) \/ DecideToKeep(Members = {})
  PROVE  HubTypeOK(Conns)'
BY DEF HubTypeOK, hubVars, CreateRoom, Expire, Delete, DecideToDelete, DecideToKeep

(* A step that changes nobody's place in the room keeps every Broadcast    *)
(* among the present, and so does one that takes the lock.                 *)
LEMMA BroadcastStep ==
  ASSUME RoomTypeOK, BroadcastReachesPresent,
         \/ UNCHANGED <<participants, readers, todo>>
         \/ readers = {} /\ UNCHANGED readers
         \/ \E c \in Conns, u \in Users, m \in Messages : \E except :
              BroadcastTo(c, u, m, except)
  PROVE  BroadcastReachesPresent'
<1> SUFFICES ASSUME NEW d \in readers' PROVE todo'[d] \subseteq Members'
  BY DEF BroadcastReachesPresent
<1>1. CASE UNCHANGED <<participants, readers, todo>>
  BY <1>1 DEF BroadcastReachesPresent, Members, Present
<1>2. CASE readers = {} /\ UNCHANGED readers
  BY <1>2
<1>3. ASSUME NEW c \in Conns, NEW u \in Users, NEW m \in Messages, NEW except,
             BroadcastTo(c, u, m, except)
      PROVE  todo'[d] \subseteq Members'
  <2>1. Members' = Members
    BY <1>3 DEF BroadcastTo, Members, Present
  <2>2. todo' = [todo EXCEPT ![c] = Remaining(c, except) \ {u}] /\ todo \in [Conns -> SUBSET Users]
    BY <1>3 DEF BroadcastTo, RoomTypeOK
  <2>3. Remaining(c, except) \subseteq Members
    BY RemainingArePresent DEF BroadcastReachesPresent
  <2>4. CASE d = c
    BY <2>1, <2>2, <2>3, <2>4
  <2>5. CASE d # c
    <3>1. d \in readers /\ d \in Conns
      BY <1>3, <2>5 DEF BroadcastTo, RoomTypeOK
    <3> QED
      BY <2>1, <2>2, <2>5, <3>1 DEF BroadcastReachesPresent
  <2> QED
    BY <2>4, <2>5
<1> QED
  BY <1>1, <1>2, <1>3

(* A handler that moves to a stage where it broadcasts nothing, and one    *)
(* that moves with a message to say.                                       *)
LEMMA MoveSilently ==
  ASSUME HandlerTypeOK, PendingIsMessage, NEW c \in Conns, NEW from,
         NEW to \in Stages \ Broadcasting, Goto(c, from, to),
         pending' = pending \/ pending' = [pending EXCEPT ![c] = NoMsg]
  PROVE  /\ pc' \in [Conns -> Stages]
         /\ pending' \in [Conns -> Messages \cup {NoMsg}]
         /\ PendingIsMessage'
BY DEF HandlerTypeOK, PendingIsMessage, Goto

LEMMA MoveToSay ==
  ASSUME HandlerTypeOK, PendingIsMessage, NEW c \in Conns, NEW from, NEW to \in Stages,
         NEW m \in Messages, Goto(c, from, to), pending' = [pending EXCEPT ![c] = m]
  PROVE  /\ pc' \in [Conns -> Stages]
         /\ pending' \in [Conns -> Messages \cup {NoMsg}]
         /\ PendingIsMessage'
BY DEF HandlerTypeOK, PendingIsMessage, Goto

LEMMA FinishBroadcastType ==
  ASSUME HandlerTypeOK, PendingIsMessage, NEW c \in Conns, pc[c] \in Broadcasting,
         FinishBroadcast(c)
  PROVE  HandlerTypeOK' /\ PendingIsMessage'
<1>1. Goto(c, pc[c], AfterBroadcast(c)) /\ AfterBroadcast(c) \in Stages \ Broadcasting
  BY AfterBroadcastStage DEF FinishBroadcast, Goto
<1>2. pending' = [pending EXCEPT ![c] = NoMsg] /\ reads' = reads
  BY DEF FinishBroadcast
<1>3. /\ pc' \in [Conns -> Stages]
      /\ pending' \in [Conns -> Messages \cup {NoMsg}]
      /\ PendingIsMessage'
  BY <1>1, <1>2, MoveSilently
<1>4. writer' \in [Conns -> {"off", "on", "done"}]
  BY DEF FinishBroadcast, HandlerTypeOK
<1> QED
  BY <1>2, <1>3, <1>4 DEF HandlerTypeOK

LEMMA ReadCounts ==
  ASSUME HandlerTypeOK, NEW c, NEW kinds, Read(c, kinds)
  PROVE  reads' \in 0..MaxReads /\ reads \in Nat
BY ServerAssumption DEF Read, HandlerTypeOK

(* The stages at which a handler broadcasts nothing. *)
LEMMA SilentStages ==
  {"idle", "accepted", "refused", "joined", "welcome", "snapshot", "reading", "refuse",
   "leaving", "lastSnapshot", "sweep", "delete", "closed"} \subseteq Stages \ Broadcasting
BY DEF Stages, Fresh, Joined, Departed, Broadcasting

LEMMA RoomIdleType ==
  ASSUME RoomTypeOK, UNCHANGED roomVars
  PROVE  RoomTypeOK'
BY DEF RoomTypeOK, roomVars

(* A step that moves one handler silently and does not touch the writers   *)
(* or the hub.                                                             *)
LEMMA SilentStep ==
  ASSUME TypeInv, NEW c \in Conns, NEW from, NEW to \in Stages \ Broadcasting,
         Goto(c, from, to), pending' = pending \/ pending' = [pending EXCEPT ![c] = NoMsg],
         writer' = writer, reads' \in 0..MaxReads, HubTypeOK(Conns)',
         RoomTypeOK', BroadcastReachesPresent'
  PROVE  TypeInv'
<1>1. /\ pc' \in [Conns -> Stages]
      /\ pending' \in [Conns -> Messages \cup {NoMsg}]
      /\ PendingIsMessage'
  BY MoveSilently DEF TypeInv, TypeOK
<1> QED
  BY <1>1 DEF TypeInv, TypeOK, HandlerTypeOK

(* The same for one that moves with something to say. *)
LEMMA SayingStep ==
  ASSUME TypeInv, NEW c \in Conns, NEW from, NEW to \in Stages, NEW m \in Messages,
         Goto(c, from, to), pending' = [pending EXCEPT ![c] = m],
         writer' = writer, reads' \in 0..MaxReads, HubTypeOK(Conns)',
         RoomTypeOK', BroadcastReachesPresent'
  PROVE  TypeInv'
<1>1. /\ pc' \in [Conns -> Stages]
      /\ pending' \in [Conns -> Messages \cup {NoMsg}]
      /\ PendingIsMessage'
  BY MoveToSay DEF TypeInv, TypeOK
<1> QED
  BY <1>1 DEF TypeInv, TypeOK, HandlerTypeOK

(* The same for one that moves no handler. *)
LEMMA StillStep ==
  ASSUME TypeInv, pc' = pc, pending' = pending,
         writer' \in [Conns -> {"off", "on", "done"}], reads' \in 0..MaxReads,
         HubTypeOK(Conns)', RoomTypeOK', BroadcastReachesPresent'
  PROVE  TypeInv'
BY DEF TypeInv, TypeOK, HandlerTypeOK, PendingIsMessage

(* Every step keeps the type invariant. *)
LEMMA TypeInvStep == TypeInv /\ [Next]_vars => TypeInv'
<1> SUFFICES ASSUME TypeInv, [Next]_vars PROVE TypeInv'
  OBVIOUS
<1>0. RoomTypeOK /\ HubTypeOK(Conns) /\ HandlerTypeOK /\ PendingIsMessage /\ BroadcastReachesPresent
  BY DEF TypeInv, TypeOK
<1>r. reads \in 0..MaxReads /\ writer \in [Conns -> {"off", "on", "done"}]
  BY <1>0 DEF HandlerTypeOK
<1>h. ASSUME UNCHANGED hubVars PROVE HubTypeOK(Conns)'
  BY <1>0, <1>h DEF HubTypeOK, hubVars
<1>q. ASSUME UNCHANGED roomVars PROVE RoomTypeOK' /\ BroadcastReachesPresent'
  BY <1>0, <1>q, RoomIdleType, BroadcastStep DEF roomVars
<1>1. ASSUME NEW c \in Conns, Accept(c) PROVE TypeInv'
  <2>1. Goto(c, "idle", "accepted") /\ UNCHANGED <<roomVars, hubVars, writer, reads>>
    BY <1>1 DEF Accept
  <2>2. pending' = pending \/ pending' = [pending EXCEPT ![c] = NoMsg]
    BY <1>1 DEF Accept
  <2> QED
    BY <1>r, <1>h, <1>q, <2>1, <2>2, SilentStages, SilentStep
<1>2. ASSUME NEW c \in Conns, Refuse(c) PROVE TypeInv'
  <2>1. Goto(c, "idle", "refused") /\ UNCHANGED <<roomVars, hubVars, writer, reads>>
    BY <1>2 DEF Refuse
  <2>2. pending' = pending \/ pending' = [pending EXCEPT ![c] = NoMsg]
    BY <1>2 DEF Refuse
  <2> QED
    BY <1>r, <1>h, <1>q, <2>1, <2>2, SilentStages, SilentStep
<1>3. ASSUME NEW c \in Conns, WelcomeFails(c) PROVE TypeInv'
  <2>1. Goto(c, "welcome", "leaving") /\ UNCHANGED <<roomVars, hubVars, writer, reads>>
    BY <1>3 DEF WelcomeFails
  <2>2. pending' = pending \/ pending' = [pending EXCEPT ![c] = NoMsg]
    BY <1>3 DEF WelcomeFails
  <2> QED
    BY <1>r, <1>h, <1>q, <2>1, <2>2, SilentStages, SilentStep
<1>4. ASSUME NEW c \in Conns, Hangup(c) PROVE TypeInv'
  <2>1. Goto(c, "reading", "leaving") /\ UNCHANGED <<roomVars, hubVars, writer, reads>>
    BY <1>4 DEF Hangup
  <2>2. pending' = pending \/ pending' = [pending EXCEPT ![c] = NoMsg]
    BY <1>4 DEF Hangup
  <2> QED
    BY <1>r, <1>h, <1>q, <2>1, <2>2, SilentStages, SilentStep
<1>5. ASSUME NEW c \in Conns, DepartUnnoticed(c) PROVE TypeInv'
  <2>1. Goto(c, "leaving", "closed") /\ UNCHANGED <<roomVars, hubVars, writer, reads>>
    BY <1>5 DEF DepartUnnoticed
  <2>2. pending' = pending \/ pending' = [pending EXCEPT ![c] = NoMsg]
    BY <1>5 DEF DepartUnnoticed
  <2> QED
    BY <1>r, <1>h, <1>q, <2>1, <2>2, SilentStages, SilentStep
<1>6. ASSUME NEW c \in Conns, ReadRelayAstray(c) \/ ReadInvalid(c) PROVE TypeInv'
  <2>1. /\ Goto(c, "reading", "refuse")
        /\ UNCHANGED <<roomVars, hubVars, writer, pending>>
        /\ \E kinds : Read(c, kinds)
    BY <1>6 DEF ReadRelayAstray, ReadInvalid
  <2>2. reads' \in 0..MaxReads
    BY <1>0, <2>1, ReadCounts
  <2> QED
    BY <1>h, <1>q, <2>1, <2>2, SilentStages, SilentStep
<1>7. ASSUME NEW c \in Conns, Join(c) PROVE TypeInv'
  <2>1. /\ Goto(c, "accepted", "joined") /\ AddParticipant(c)
        /\ UNCHANGED <<hubVars, pending, writer, reads>>
    BY <1>7 DEF Join
  <2>2. RoomTypeOK'
    BY <1>0, <2>1, AddParticipantType
  <2>3. BroadcastReachesPresent'
    BY <1>0, <2>1, BroadcastStep DEF AddParticipant, WriteLock
  <2> QED
    BY <1>r, <1>h, <2>1, <2>2, <2>3, SilentStages, SilentStep
<1>8. ASSUME NEW c \in Conns, Depart(c) PROVE TypeInv'
  <2>1. /\ Goto(c, "leaving", "farewell") /\ RemoveParticipant(UserOf[c])
        /\ pending' = [pending EXCEPT ![c] = PeerMsg("peer-left", UserOf[c])]
        /\ UNCHANGED <<hubVars, writer, reads>>
    BY <1>8 DEF Depart
  <2>2. UserOf[c] \in Users /\ PeerMsg("peer-left", UserOf[c]) \in Messages
    BY RoomAssumption, PeerMsgType
  <2>3. RoomTypeOK'
    BY <1>0, <2>1, <2>2, RemoveParticipantType
  <2>4. BroadcastReachesPresent'
    BY <1>0, <2>1, BroadcastStep DEF RemoveParticipant, WriteLock
  <2>5. "farewell" \in Stages
    BY DEF Stages, Departed
  <2> QED
    BY <1>r, <1>h, <2>1, <2>2, <2>3, <2>4, <2>5, SayingStep
<1>9. ASSUME NEW c \in Conns, ListForWelcome(c) \/ TakeSnapshot(c) PROVE TypeInv'
  <2>1. /\ UNCHANGED <<roomVars, hubVars, writer, reads>>
        /\ pending' = [pending EXCEPT ![c] = ListMsg(Snapshot)]
    BY <1>9 DEF ListForWelcome, TakeSnapshot
  <2>2. PICK from \in {"joined", "snapshot", "lastSnapshot"}, to \in {"welcome", "publish", "lastPublish"} :
             Goto(c, from, to)
    BY <1>9 DEF ListForWelcome, TakeSnapshot
  <2>3. to \in Stages
    BY DEF Stages, Joined, Departed
  <2>4. ListMsg(Snapshot) \in Messages
    BY <1>0, SnapshotType
  <2> QED
    BY <1>r, <1>h, <1>q, <2>1, <2>2, <2>3, <2>4, SayingStep
<1>10. ASSUME NEW c \in Conns, Welcome(c) PROVE TypeInv'
  <2>1. /\ Goto(c, "welcome", "announce")
        /\ UNCHANGED <<roomVars, hubVars, writer, reads>>
        /\ pending' = [pending EXCEPT ![c] = PeerMsg("peer-joined", UserOf[c])]
    BY <1>10 DEF Welcome
  <2>2. PeerMsg("peer-joined", UserOf[c]) \in Messages /\ "announce" \in Stages
    BY RoomAssumption, PeerMsgType DEF Stages, Joined
  <2> QED
    BY <1>r, <1>h, <1>q, <2>1, <2>2, SayingStep
<1>11. ASSUME NEW c \in Conns, NEW u \in Users, SendOne(c, u) PROVE TypeInv'
  <2>1. pc[c] \in Broadcasting /\ BroadcastTo(c, u, pending[c], Except(c)) /\ UNCHANGED hubVars
    BY <1>11 DEF SendOne
  <2>2. pending[c] \in Messages
    BY <1>0, <2>1 DEF PendingIsMessage
  <2>3. RoomTypeOK'
    BY <1>0, <2>1, <2>2, BroadcastToType DEF BroadcastReachesPresent
  <2>4. BroadcastReachesPresent'
    BY <1>0, <2>1, <2>2, BroadcastStep
  <2>5. FinishBroadcast(c) \/ UNCHANGED handlerVars
    BY <1>11 DEF SendOne
  <2>6. CASE FinishBroadcast(c)
    BY <1>0, <1>h, <2>1, <2>3, <2>4, <2>6, FinishBroadcastType DEF TypeInv, TypeOK
  <2>7. CASE UNCHANGED handlerVars
    BY <1>r, <1>h, <2>1, <2>3, <2>4, <2>7, StillStep DEF handlerVars
  <2> QED
    BY <2>5, <2>6, <2>7
<1>12. ASSUME NEW c \in Conns, SendNone(c) PROVE TypeInv'
  <2>1. pc[c] \in Broadcasting /\ FinishBroadcast(c) /\ UNCHANGED <<roomVars, hubVars>>
    BY <1>12 DEF SendNone
  <2> QED
    BY <1>0, <1>h, <1>q, <2>1, FinishBroadcastType DEF TypeInv, TypeOK
<1>13. ASSUME NEW c \in Conns, SendError(c) PROVE TypeInv'
  <2>1. /\ Goto(c, "refuse", "reading") /\ SendTo(UserOf[c], ErrorMsg)
        /\ UNCHANGED <<hubVars, pending, writer, reads>>
    BY <1>13 DEF SendError
  <2>2. RoomTypeOK'
    BY <1>0, <2>1, RoomAssumption, ErrorMsgType, SendToType
  <2>3. BroadcastReachesPresent'
    BY <1>0, <2>1, BroadcastStep DEF SendTo
  <2> QED
    BY <1>r, <1>h, <2>1, <2>2, <2>3, SilentStages, SilentStep
<1>14. ASSUME NEW c \in Conns, NEW u \in Users, ReadRelay(c, u) PROVE TypeInv'
  <2>1. PICK t \in RelayTypes : SendTo(u, PeerMsg(t, UserOf[c]))
    BY <1>14 DEF ReadRelay
  <2>2. PeerMsg(t, UserOf[c]) \in Messages
    BY RoomAssumption, PeerMsgType
  <2>3. RoomTypeOK'
    BY <1>0, <2>1, <2>2, SendToType
  <2>4. BroadcastReachesPresent'
    BY <1>0, <2>1, BroadcastStep DEF SendTo
  <2>5. reads' \in 0..MaxReads /\ UNCHANGED <<hubVars, pc, pending, writer>>
    BY <1>0, <1>14, ReadCounts DEF ReadRelay
  <2> QED
    BY <1>r, <1>h, <2>3, <2>4, <2>5, StillStep
<1>15. ASSUME NEW c \in Conns, NEW t \in StatusTypes, NEW on \in Outcomes(t), ReadStatus(c, t, on)
     PROVE  TypeInv'
  <2>1. /\ Read(c, {t}) /\ UpdateParticipant(UserOf[c], t, on) /\ Goto(c, "reading", "echo")
        /\ pending' = [pending EXCEPT ![c] = StatusMsg(t, UserOf[c], on)]
        /\ UNCHANGED <<hubVars, writer>>
    BY <1>15 DEF ReadStatus
  <2>2. on \in SUBSET StatusFlags
    BY OutcomesAreFlags
  <2>3. StatusMsg(t, UserOf[c], on) \in Messages /\ UserOf[c] \in Users
    BY <2>2, RoomAssumption, StatusMsgType
  <2>4. RoomTypeOK'
    BY <1>0, <2>1, <2>2, <2>3, UpdateParticipantType
  <2>5. BroadcastReachesPresent'
    BY <1>0, <2>1, BroadcastStep DEF UpdateParticipant
  <2>6. reads' \in 0..MaxReads /\ "echo" \in Stages
    BY <1>0, <2>1, ReadCounts DEF Stages, Joined
  <2> QED
    BY <1>h, <2>1, <2>3, <2>4, <2>5, <2>6, SayingStep
<1>16. ASSUME NEW c \in Conns, ReadChat(c) PROVE TypeInv'
  <2> DEFINE m == [sender |-> c, id |-> reads]
  <2>1. /\ Read(c, {"chat-message"}) /\ AppendChatMessage(m) /\ Goto(c, "reading", "echo")
        /\ pending' = [pending EXCEPT ![c] = ChatMsg(m)]
        /\ UNCHANGED <<hubVars, writer>>
    BY <1>16 DEF ReadChat
  <2>2. reads \in Nat /\ reads' \in 0..MaxReads
    BY <1>0, <2>1, ReadCounts
  <2>3. m \in Chats
    BY <2>2, RoomAssumption DEF Chats
  <2> HIDE DEF m
  <2>4. ChatMsg(m) \in Messages
    BY <2>3, ChatMsgType
  <2>5. RoomTypeOK'
    BY <1>0, <2>1, <2>3, AppendChatMessageType
  <2>6. BroadcastReachesPresent'
    BY <1>0, <2>1, BroadcastStep DEF AppendChatMessage
  <2>7. "echo" \in Stages
    BY DEF Stages, Joined
  <2> QED
    BY <1>h, <2>1, <2>2, <2>4, <2>5, <2>6, <2>7, SayingStep
<1>17. ASSUME NEW c \in Conns, Sweep(c) PROVE TypeInv'
  <2>1. PICK to \in {"delete", "closed"} : Goto(c, "sweep", to)
    BY <1>17 DEF Sweep
  <2>2. HubTypeOK(Conns)'
    BY <1>0, <1>17, HubTypeStep DEF Sweep
  <2>3. UNCHANGED <<roomVars, pending, writer, reads>>
    BY <1>17 DEF Sweep
  <2> QED
    BY <1>r, <1>q, <2>1, <2>2, <2>3, SilentStages, SilentStep
<1>18. ASSUME NEW c \in Conns, DeleteRoom(c) PROVE TypeInv'
  <2>1. Goto(c, "delete", "closed") /\ Delete(c) /\ UNCHANGED <<roomVars, pending, writer, reads>>
    BY <1>18 DEF DeleteRoom
  <2>2. HubTypeOK(Conns)'
    BY <1>0, <2>1, HubTypeStep
  <2> QED
    BY <1>r, <1>q, <2>1, <2>2, SilentStages, SilentStep
<1>19. ASSUME NEW c \in Conns, Deliver(c) \/ WriteFails(c) PROVE TypeInv'
  <2>1. Dequeue(c) /\ UNCHANGED <<hubVars, pc, pending, reads>>
    BY <1>19 DEF Deliver, WriteFails, handlerVars
  <2>2. writer' \in [Conns -> {"off", "on", "done"}]
    BY <1>r, <1>19 DEF Deliver, WriteFails, handlerVars
  <2>3. RoomTypeOK'
    BY <1>0, <2>1, DequeueType
  <2>4. BroadcastReachesPresent'
    BY <1>0, <2>1, BroadcastStep DEF Dequeue
  <2> QED
    BY <1>r, <1>h, <2>1, <2>2, <2>3, <2>4, StillStep
<1>20. ASSUME NEW c \in Conns, WriterStops(c) PROVE TypeInv'
  <2>1. UNCHANGED <<roomVars, hubVars, pc, pending, reads>>
    BY <1>20 DEF WriterStops
  <2>2. writer' \in [Conns -> {"off", "on", "done"}]
    BY <1>r, <1>20 DEF WriterStops
  <2> QED
    BY <1>r, <1>h, <1>q, <2>1, <2>2, StillStep
<1>21. ASSUME (CreateRoom \/ Expire) /\ UNCHANGED <<roomVars, handlerVars>> PROVE TypeInv'
  <2>1. HubTypeOK(Conns)'
    BY <1>0, <1>21 DEF HubTypeOK, CreateRoom, Expire
  <2> QED
    BY <1>r, <1>q, <1>21, <2>1, StillStep DEF handlerVars
<1>22. CASE UNCHANGED vars
  BY <1>r, <1>h, <1>q, <1>22, StillStep DEF vars, handlerVars
<1> QED
  BY <1>1, <1>2, <1>3, <1>4, <1>5, <1>6, <1>7, <1>8, <1>9, <1>10, <1>11, <1>12, <1>13, <1>14, <1>15, <1>16, <1>17, <1>18, <1>19, <1>20, <1>21, <1>22
  DEF Next, HandlerStep, WelcomeStep, ClientStep, WriterStep, AllOver

(* Type correctness: in every reachable state each variable has its type,  *)
(* no channel exceeds its capacity and no chat history its limit.          *)
THEOREM TypeCorrect == Spec => []TypeOK
<1>1. Init => TypeInv
  BY InitTypeInv
<1>2. TypeInv /\ [Next]_vars => TypeInv'
  BY TypeInvStep
<1>3. TypeInv => TypeOK
  BY DEF TypeInv
<1> QED
  BY <1>1, <1>2, <1>3, PTL DEF Spec

-----------------------------------------------------------------------------
(* Who holds a user id. *)

(* No user id changes hands and no connection changes its stage of life.   *)
Quiet ==
  /\ UNCHANGED <<participants, closed>>
  /\ \A c \in Conns : pc'[c] \in Fresh <=> pc[c] \in Fresh
  /\ \A c \in Conns : pc'[c] \in Joined <=> pc[c] \in Joined
  /\ \A c \in Conns : pc'[c] \in Departed <=> pc[c] \in Departed

LEMMA QuietGoto ==
  ASSUME pc \in [Conns -> Stages], NEW c \in Conns, NEW from, NEW to,
         Goto(c, from, to), UNCHANGED <<participants, closed>>,
         from \in Fresh <=> to \in Fresh,
         from \in Joined <=> to \in Joined,
         from \in Departed <=> to \in Departed
  PROVE  Quiet
BY GotoWithin DEF Quiet

LEMMA QuietStill ==
  ASSUME UNCHANGED <<participants, closed, pc>>
  PROVE  Quiet
BY DEF Quiet

LEMMA QuietFinish ==
  ASSUME pc \in [Conns -> Stages], NEW c \in Conns, pc[c] \in Broadcasting,
         FinishBroadcast(c), UNCHANGED <<participants, closed>>
  PROVE  Quiet
<1>1. Goto(c, pc[c], AfterBroadcast(c))
  BY DEF FinishBroadcast, Goto
<1>2. pc[c] \notin Fresh /\ AfterBroadcast(c) \notin Fresh
  BY AfterBroadcastStage DEF Broadcasting, Fresh
<1> QED
  BY <1>1, <1>2, AfterBroadcastStage, QuietGoto

(* Only three actions are not quiet. *)
LEMMA StepKinds ==
  ASSUME TypeInv, [Next]_vars
  PROVE  Quiet \/ \E c \in Conns : Join(c) \/ Depart(c) \/ DepartUnnoticed(c)
<1>0. pc \in [Conns -> Stages]
  BY DEF TypeInv, TypeOK, HandlerTypeOK
<1>1. ASSUME NEW c \in Conns, Accept(c) \/ Refuse(c) PROVE Quiet
  <2>1. PICK to \in {"accepted", "refused"} : Goto(c, "idle", to)
    BY <1>1 DEF Accept, Refuse
  <2>2. UNCHANGED <<participants, closed>>
    BY <1>1 DEF Accept, Refuse, roomVars
  <2>3. "idle" \in Fresh /\ to \in Fresh
    BY DEF Fresh
  <2> QED
    BY <1>0, <2>1, <2>2, <2>3, StagesDisjoint, QuietGoto
<1>2. ASSUME NEW c \in Conns,
             \/ ListForWelcome(c) \/ Welcome(c) \/ WelcomeFails(c) \/ Hangup(c)
             \/ ReadRelayAstray(c) \/ ReadInvalid(c) \/ ReadChat(c) \/ SendError(c)
             \/ \E t \in StatusTypes : \E on \in Outcomes(t) : ReadStatus(c, t, on)
      PROVE  Quiet
  <2>1. PICK from \in {"joined", "welcome", "reading", "refuse"},
             to \in {"welcome", "announce", "leaving", "refuse", "echo", "reading"} :
             Goto(c, from, to)
    BY <1>2 DEF ListForWelcome, Welcome, WelcomeFails, Hangup, ReadRelayAstray, ReadInvalid,
                ReadChat, SendError, ReadStatus
  <2>2. UNCHANGED <<participants, closed>>
    BY <1>2 DEF ListForWelcome, Welcome, WelcomeFails, Hangup, ReadRelayAstray, ReadInvalid,
                ReadChat, SendError, ReadStatus, roomVars, SendTo, UpdateParticipant,
                AppendChatMessage
  <2>3. from \in Joined /\ to \in Joined
    BY DEF Joined
  <2> QED
    BY <1>0, <2>1, <2>2, <2>3, StagesDisjoint, QuietGoto
<1>3. ASSUME NEW c \in Conns, TakeSnapshot(c) PROVE Quiet
  <2>1. UNCHANGED <<participants, closed>>
    BY <1>3 DEF TakeSnapshot, roomVars
  <2>2. CASE Goto(c, "snapshot", "publish")
    BY <1>0, <2>1, <2>2, QuietGoto DEF Fresh, Joined, Departed
  <2>3. CASE Goto(c, "lastSnapshot", "lastPublish")
    BY <1>0, <2>1, <2>3, QuietGoto DEF Fresh, Joined, Departed
  <2> QED
    BY <1>3, <2>2, <2>3 DEF TakeSnapshot
<1>4. ASSUME NEW c \in Conns, Sweep(c) \/ DeleteRoom(c) PROVE Quiet
  <2>1. PICK from \in {"sweep", "delete"}, to \in {"delete", "closed"} : Goto(c, from, to)
    BY <1>4 DEF Sweep, DeleteRoom
  <2>2. UNCHANGED <<participants, closed>>
    BY <1>4 DEF Sweep, DeleteRoom, roomVars
  <2>3. from \in Departed /\ to \in Departed
    BY DEF Departed
  <2> QED
    BY <1>0, <2>1, <2>2, <2>3, StagesDisjoint, QuietGoto
<1>5. ASSUME NEW c \in Conns, SendNone(c) \/ \E u \in Users : SendOne(c, u) PROVE Quiet
  <2>1. pc[c] \in Broadcasting /\ UNCHANGED <<participants, closed>>
    BY <1>5 DEF SendNone, SendOne, BroadcastTo, roomVars
  <2>2. FinishBroadcast(c) \/ UNCHANGED pc
    BY <1>5 DEF SendNone, SendOne, handlerVars
  <2> QED
    BY <1>0, <2>1, <2>2, QuietFinish, QuietStill
<1>6. ASSUME NEW c \in Conns,
             \/ Deliver(c) \/ WriteFails(c) \/ WriterStops(c)
             \/ \E u \in Users : ReadRelay(c, u)
      PROVE  Quiet
  BY <1>6, QuietStill DEF Deliver, WriteFails, WriterStops, ReadRelay, Dequeue, SendTo,
                          handlerVars, roomVars
<1>7. ASSUME (CreateRoom \/ Expire) /\ UNCHANGED <<roomVars, handlerVars>> PROVE Quiet
  BY <1>7, QuietStill DEF roomVars, handlerVars
<1>8. CASE UNCHANGED vars
  BY <1>8, QuietStill DEF vars, roomVars, handlerVars
<1> QED
  BY <1>1, <1>2, <1>3, <1>4, <1>5, <1>6, <1>7, <1>8
  DEF Next, HandlerStep, WelcomeStep, ClientStep, WriterStep, AllOver

(* A channel is closed only after its connection joined. *)
ClosedHaveJoined == \A c \in closed : pc[c] \notin Fresh

SessionInv ==
  /\ NoSendOnClosed
  /\ RegisteredIsLive
  /\ CutOffOnlyByTakeover
  /\ ClosedHaveJoined

LEMMA InitSessionInv == Init => SessionInv
BY DEF Init, RoomInit, SessionInv, NoSendOnClosed, RegisteredIsLive, CutOffOnlyByTakeover,
       ClosedHaveJoined, Members, Present, Joined

LEMMA JoinSessionInv ==
  ASSUME TypeInv, SessionInv, NEW c \in Conns, Join(c)
  PROVE  SessionInv'
<1>1. /\ pc[c] = "accepted" /\ pc' = [pc EXCEPT ![c] = "joined"]
      /\ participants' = [participants EXCEPT ![UserOf[c]] = c]
      /\ closed' = closed
  BY DEF Join, Goto, AddParticipant
<1>2. /\ participants \in [Users -> Conns \cup {NoConn}] /\ closed \in SUBSET Conns
      /\ pc \in [Conns -> Stages] /\ UserOf \in [Conns -> Users] /\ NoConn \notin Conns
  BY RoomAssumption DEF TypeInv, TypeOK, RoomTypeOK, HandlerTypeOK
<1>3. "accepted" \in Fresh /\ "joined" \in Joined /\ "joined" \notin Fresh
  BY DEF Fresh, Joined
<1>4. c \notin closed
  BY <1>1, <1>3 DEF SessionInv, ClosedHaveJoined
<1>5. NoSendOnClosed'
  BY <1>1, <1>2, <1>4 DEF SessionInv, NoSendOnClosed, Members, Present
<1>6. RegisteredIsLive'
  BY <1>1, <1>2, <1>3 DEF SessionInv, RegisteredIsLive, Members, Present
<1>7. CutOffOnlyByTakeover'
  <2> SUFFICES ASSUME NEW d \in Conns, pc'[d] \in Joined, participants'[UserOf[d]] # d
               PROVE  \E e \in Conns \ {d} : UserOf[e] = UserOf[d] /\ pc'[e] \notin Fresh
    BY DEF CutOffOnlyByTakeover
  <2>1. d # c
    BY <1>1, <1>2
  <2>2. CASE UserOf[d] = UserOf[c]
    BY <1>1, <1>2, <1>3, <2>1, <2>2
  <2>3. CASE UserOf[d] # UserOf[c]
    <3>1. pc[d] \in Joined /\ participants[UserOf[d]] # d
      BY <1>1, <1>2, <2>1, <2>3
    <3>2. PICK e \in Conns \ {d} : UserOf[e] = UserOf[d] /\ pc[e] \notin Fresh
      BY <3>1 DEF SessionInv, CutOffOnlyByTakeover
    <3> QED
      BY <1>1, <1>2, <1>3, <3>2
  <2> QED
    BY <2>2, <2>3
<1>8. ClosedHaveJoined'
  BY <1>1, <1>2, <1>4 DEF SessionInv, ClosedHaveJoined
<1> QED
  BY <1>5, <1>6, <1>7, <1>8 DEF SessionInv

LEMMA DepartSessionInv ==
  ASSUME TypeInv, SessionInv, NEW c \in Conns, Depart(c) \/ DepartUnnoticed(c)
  PROVE  SessionInv'
<1> DEFINE u == UserOf[c]
<1>1. /\ pc[c] = "leaving"
      /\ \/ pc' = [pc EXCEPT ![c] = "farewell"]
         \/ pc' = [pc EXCEPT ![c] = "closed"]
  BY DEF Depart, DepartUnnoticed, Goto
<1>2. \/ /\ participants[u] # NoConn
         /\ participants' = [participants EXCEPT ![u] = NoConn]
         /\ closed' = closed \cup {participants[u]}
      \/ /\ participants[u] = NoConn
         /\ UNCHANGED <<participants, closed>>
  BY DEF Depart, DepartUnnoticed, RemoveParticipant, Present, roomVars
<1>3. /\ participants \in [Users -> Conns \cup {NoConn}] /\ closed \in SUBSET Conns
      /\ pc \in [Conns -> Stages] /\ u \in Users /\ NoConn \notin Conns
      /\ UserOf \in [Conns -> Users]
  BY RoomAssumption DEF TypeInv, TypeOK, RoomTypeOK, HandlerTypeOK
<1>4. /\ "leaving" \in Joined /\ "leaving" \notin Fresh
      /\ "farewell" \notin Fresh \cup Joined /\ "closed" \notin Fresh \cup Joined
  BY DEF Fresh, Joined
<1>5. /\ participants'[u] = NoConn
      /\ \A v \in Users \ {u} : participants'[v] = participants[v]
  BY <1>2, <1>3
<1>6. \A d \in Conns : (pc[d] \notin Fresh => pc'[d] \notin Fresh) /\
                       (d # c => pc'[d] = pc[d]) /\ (pc'[d] \in Joined => d # c)
  BY <1>1, <1>3, <1>4
<1>7. ASSUME NEW v \in Members'
      PROVE  v \in Members \ {u} /\ participants'[v] = participants[v]
  BY <1>3, <1>5 DEF Members, Present
<1>8. \A v \in Members : participants[v] \in Conns /\ UserOf[participants[v]] = v
  BY <1>3 DEF SessionInv, RegisteredIsLive, Members, Present
<1>9. NoSendOnClosed'
  <2> SUFFICES ASSUME NEW v \in Members' PROVE participants'[v] \notin closed'
    BY DEF NoSendOnClosed
  <2>1. participants[v] \notin closed
    BY <1>7 DEF SessionInv, NoSendOnClosed
  <2>2. participants[u] # NoConn => participants[v] # participants[u]
    BY <1>3, <1>7, <1>8 DEF Members, Present
  <2> QED
    BY <1>2, <1>7, <2>1, <2>2
<1>10. RegisteredIsLive'
  <2> SUFFICES ASSUME NEW v \in Members'
               PROVE  UserOf[participants'[v]] = v /\ pc'[participants'[v]] \in Joined
    BY DEF RegisteredIsLive
  <2>1. UserOf[participants[v]] = v /\ pc[participants[v]] \in Joined
    BY <1>7 DEF SessionInv, RegisteredIsLive
  <2>2. participants[v] # c
    BY <1>7, <2>1
  <2> QED
    BY <1>6, <1>7, <1>8, <2>1, <2>2
<1>11. CutOffOnlyByTakeover'
  <2> SUFFICES ASSUME NEW d \in Conns, pc'[d] \in Joined, participants'[UserOf[d]] # d
               PROVE  \E e \in Conns \ {d} : UserOf[e] = UserOf[d] /\ pc'[e] \notin Fresh
    BY DEF CutOffOnlyByTakeover
  <2>1. d # c /\ pc[d] \in Joined
    BY <1>6
  <2>2. CASE UserOf[d] = u
    BY <1>1, <1>4, <1>6, <2>1, <2>2
  <2>3. CASE UserOf[d] # u
    <3>1. participants[UserOf[d]] # d
      BY <1>3, <1>5, <2>3
    <3>2. PICK e \in Conns \ {d} : UserOf[e] = UserOf[d] /\ pc[e] \notin Fresh
      BY <2>1, <3>1 DEF SessionInv, CutOffOnlyByTakeover
    <3> QED
      BY <1>6, <3>2
  <2> QED
    BY <2>2, <2>3
<1>12. ClosedHaveJoined'
  <2> SUFFICES ASSUME NEW d \in closed' PROVE pc'[d] \notin Fresh
    BY DEF ClosedHaveJoined
  <2>1. CASE d \in closed
    BY <1>3, <1>6, <2>1 DEF SessionInv, ClosedHaveJoined
  <2>2. CASE d \notin closed
    <3>1. u \in Members /\ d = participants[u]
      BY <1>2, <1>3, <2>2 DEF Members, Present
    <3>2. d \in Conns /\ pc[d] \in Joined
      BY <1>8, <3>1 DEF SessionInv, RegisteredIsLive
    <3> QED
      BY <1>6, <3>2, StagesDisjoint
  <2> QED
    BY <2>1, <2>2
<1> QED
  BY <1>9, <1>10, <1>11, <1>12 DEF SessionInv

LEMMA QuietSessionInv ==
  ASSUME TypeInv, SessionInv, Quiet
  PROVE  SessionInv'
<1>1. closed \in SUBSET Conns /\ participants \in [Users -> Conns \cup {NoConn}]
  BY DEF TypeInv, TypeOK, RoomTypeOK
<1>2. Members' = Members /\ closed' = closed /\ participants' = participants
  BY DEF Quiet, Members, Present
<1>3. \A u \in Members : participants[u] \in Conns
  BY <1>1 DEF Members, Present
<1>4. NoSendOnClosed' /\ ClosedHaveJoined'
  BY <1>1, <1>2 DEF SessionInv, NoSendOnClosed, ClosedHaveJoined, Quiet
<1>5. RegisteredIsLive'
  BY <1>2, <1>3 DEF SessionInv, RegisteredIsLive, Quiet
<1>6. CutOffOnlyByTakeover'
  BY <1>2 DEF SessionInv, CutOffOnlyByTakeover, Quiet
<1> QED
  BY <1>4, <1>5, <1>6 DEF SessionInv

ServerInv == TypeInv /\ SessionInv

LEMMA ServerInvStep == ServerInv /\ [Next]_vars => ServerInv'
BY TypeInvStep, StepKinds, JoinSessionInv, DepartSessionInv, QuietSessionInv DEF ServerInv

LEMMA ServerInvariant == Spec => []ServerInv
<1>1. Init => ServerInv
  BY InitTypeInv, InitSessionInv DEF ServerInv
<1> QED
  BY <1>1, ServerInvStep, PTL DEF Spec

(* No handler ever sends on a closed channel or closes one twice, however  *)
(* many connections present the same user id.                              *)
THEOREM NoSendOnClosedHolds == Spec => []NoSendOnClosed
<1>1. ServerInv => NoSendOnClosed
  BY DEF ServerInv, SessionInv
<1> QED
  BY <1>1, ServerInvariant, PTL

(* A Broadcast finds everyone it set out for still in the room.            *)
THEOREM BroadcastReachesPresentHolds == Spec => []BroadcastReachesPresent
<1>1. ServerInv => BroadcastReachesPresent
  BY DEF ServerInv, TypeInv
<1> QED
  BY <1>1, ServerInvariant, PTL

(* No registered session outlives the handlers that could remove it.       *)
THEOREM RegisteredIsLiveHolds == Spec => []RegisteredIsLive
<1>1. ServerInv => RegisteredIsLive
  BY DEF ServerInv, SessionInv
<1> QED
  BY <1>1, ServerInvariant, PTL

(* A served connection loses its user id only to one that presented it too. *)
THEOREM CutOffOnlyByTakeoverHolds == Spec => []CutOffOnlyByTakeover
<1>1. ServerInv => CutOffOnlyByTakeover
  BY DEF ServerInv, SessionInv
<1> QED
  BY <1>1, ServerInvariant, PTL

-----------------------------------------------------------------------------
(* The participants map implements Presence. *)

LEMMA InitImplementsPresence == Init => Ids!Init
BY DEF Init, RoomInit, Ids!Init, Fresh, Departed

LEMMA StepImplementsPresence ==
  ASSUME TypeInv, [Next]_vars
  PROVE  [Ids!Next]_(Ids!vars)
<1>0. /\ pc \in [Conns -> Stages] /\ UserOf \in [Conns -> Users]
      /\ participants \in [Users -> Conns \cup {NoConn}]
  BY RoomAssumption DEF TypeInv, TypeOK, HandlerTypeOK, RoomTypeOK
<1>1. ASSUME Quiet PROVE UNCHANGED Ids!vars
  BY <1>1 DEF Quiet, Ids!vars
<1>2. ASSUME NEW c \in Conns, Join(c) PROVE Ids!Come(c)
  <2>1. /\ pc[c] = "accepted" /\ pc' = [pc EXCEPT ![c] = "joined"]
        /\ participants' = [participants EXCEPT ![UserOf[c]] = c]
    BY <1>2 DEF Join, Goto, AddParticipant
  <2>2. /\ "accepted" \in Fresh \ Departed
        /\ "joined" \notin Fresh \cup Departed
    BY DEF Fresh, Departed
  <2> QED
    BY <1>0, <2>1, <2>2 DEF Ids!Come
<1>3. ASSUME NEW c \in Conns, Depart(c) \/ DepartUnnoticed(c) PROVE Ids!Leave(c)
  <2>1. /\ pc[c] = "leaving"
        /\ \/ pc' = [pc EXCEPT ![c] = "farewell"]
           \/ pc' = [pc EXCEPT ![c] = "closed"]
    BY <1>3 DEF Depart, DepartUnnoticed, Goto
  <2>2. participants' = [participants EXCEPT ![UserOf[c]] = NoConn]
    BY <1>0, <1>3 DEF Depart, DepartUnnoticed, RemoveParticipant, Present, roomVars
  <2>3. /\ "leaving" \notin Fresh \cup Departed
        /\ {"farewell", "closed"} \subseteq Departed
        /\ Fresh \cap Departed = {}
    BY DEF Fresh, Departed
  <2> QED
    BY <1>0, <2>1, <2>2, <2>3 DEF Ids!Leave
<1> QED
  BY <1>1, <1>2, <1>3, StepKinds DEF Ids!Next

(* The server implements the abstract specification of its user ids.       *)
THEOREM PresenceImplemented == Spec => ImplementsPresence
<1>1. Init => Ids!Init
  BY InitImplementsPresence
<1>2. TypeInv /\ [Next]_vars => [Ids!Next]_(Ids!vars)
  BY StepImplementsPresence
<1>3. ServerInv => TypeInv
  BY DEF ServerInv
<1> QED
  BY <1>1, <1>2, <1>3, ServerInvariant, PTL DEF Spec, Ids!Spec, ImplementsPresence
=============================================================================

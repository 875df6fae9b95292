--------------------------- MODULE MeetingProofs ----------------------------
(***************************************************************************)
(* Proofs about Meeting, for any number of connections, however they share *)
(* user ids, any capacity of the channels and any length of the history.   *)
(*                                                                         *)
(* Every step of Meeting is a step of Server, so what ServerProofs says of *)
(* the room and the handlers holds here too (SettingInv).  On top of it    *)
(* come two invariants, each for one promise to the browsers: PairInv for  *)
(* the offers and ToldInv for the participant list.  The one for the chat  *)
(* messages is in ChatProofs.                                              *)
(***************************************************************************)
EXTENDS Meeting, ServerProofs, SequencesExt

(* A handler that is about to welcome its client has a list to send. *)
WelcomeHasList ==
  \A c \in Conns : pc[c] = "welcome" => \E l \in Rosters : pending[c] = ListMsg(l)

(* The map is locked for reading only by handlers that have somebody left  *)
(* to send to.                                                             *)
ReadersBroadcast == \A c \in readers : pc[c] \in Broadcasting /\ todo[c] # {}

SettingInv == ServerInv /\ WelcomeHasList /\ ReadersBroadcast

-----------------------------------------------------------------------------
(* The steps. *)

LEMMA MeetingInitIsInit == MeetingInit => Init
BY DEF MeetingInit

LEMMA MeetingStepIsStep == [MeetingNext]_allVars => [Next]_vars
<1>1. ASSUME NEW c \in Conns, Greet(c) \/ Receive(c) PROVE Next
  BY <1>1 DEF Greet, Receive, Next, WelcomeStep, WriterStep
<1>2. ASSUME NEW c \in Conns, Unseen(c) PROVE Next
  BY <1>2 DEF Unseen, Next, HandlerStep, WelcomeStep, WriterStep
<1>3. ASSUME (CreateRoom \/ Expire) /\ UNCHANGED <<roomVars, handlerVars>> PROVE Next
  BY <1>3 DEF Next
<1>4. AllOver => Next
  BY DEF Next
<1>5. UNCHANGED allVars => UNCHANGED vars
  BY DEF allVars
<1> QED
  BY <1>1, <1>2, <1>3, <1>4, <1>5 DEF MeetingNext

(* Only two actions touch what the browsers keep. *)
LEMMA BrowserSteps ==
  ASSUME [MeetingNext]_allVars
  PROVE  \/ \E c \in Conns : Greet(c) \/ Receive(c)
         \/ UNCHANGED clientVars /\ Outdated
<1>1. ASSUME UNCHANGED <<roomVars, fresh>> PROVE Outdated
  BY <1>1 DEF Outdated, roomVars, Snapshot, Members, Present
<1>2. ASSUME UNCHANGED vars PROVE UNCHANGED roomVars
  BY <1>2 DEF vars
<1> QED
  BY <1>1, <1>2 DEF MeetingNext, Unseen, AllOver, allVars

(* What a step does to the handler of one connection. *)
LEMMA MoveKinds ==
  ASSUME TypeInv, [MeetingNext]_allVars, NEW c \in Conns
  PROVE  \/ pc'[c] = pc[c] /\ pending'[c] = pending[c]
         \/ Accept(c) \/ Refuse(c) \/ Join(c) \/ ListForWelcome(c) \/ Greet(c)
         \/ WelcomeFails(c) \/ TakeSnapshot(c) \/ ReadRelayAstray(c) \/ ReadInvalid(c)
         \/ ReadChat(c) \/ (\E t \in StatusTypes : \E on \in Outcomes(t) : ReadStatus(c, t, on))
         \/ SendError(c) \/ Hangup(c) \/ Depart(c) \/ DepartUnnoticed(c)
         \/ Sweep(c) \/ DeleteRoom(c)
         \/ SendNone(c) \/ \E u \in Users : SendOne(c, u) /\ FinishBroadcast(c)
<1> DEFINE Stands == pc'[c] = pc[c] /\ pending'[c] = pending[c]
<1>0. pc \in [Conns -> Stages] /\ pending \in [Conns -> Messages \cup {NoMsg}]
  BY DEF TypeInv, TypeOK, HandlerTypeOK
<1>1. ASSUME NEW d \in Conns, d # c, NEW from, NEW to, Goto(d, from, to),
             \/ pending' = pending
             \/ \E m : pending' = [pending EXCEPT ![d] = m]
      PROVE  Stands
  BY <1>0, <1>1 DEF Goto
<1>2. ASSUME NEW d \in Conns, d # c, FinishBroadcast(d) PROVE Stands
  BY <1>0, <1>2 DEF FinishBroadcast
<1>3. ASSUME NEW d \in Conns, d # c, Greet(d) PROVE Stands
  BY <1>1, <1>3 DEF Greet, Welcome
<1>4. ASSUME NEW d \in Conns, d # c, Unseen(d) PROVE Stands
  <2>1. CASE \/ Join(d) \/ ListForWelcome(d) \/ WelcomeFails(d)
             \/ TakeSnapshot(d) \/ SendError(d) \/ Depart(d) \/ DepartUnnoticed(d)
             \/ Sweep(d) \/ DeleteRoom(d)
    <3>1. \E from, to : Goto(d, from, to)
      BY <2>1 DEF Join, ListForWelcome, WelcomeFails, TakeSnapshot, SendError,
                  Depart, DepartUnnoticed, Sweep, DeleteRoom
    <3>2. pending' = pending \/ \E m : pending' = [pending EXCEPT ![d] = m]
      BY <2>1 DEF Join, ListForWelcome, WelcomeFails, TakeSnapshot, SendError,
                  Depart, DepartUnnoticed, Sweep, DeleteRoom
    <3> QED
      BY <1>1, <1>4, <3>1, <3>2
  <2>2. CASE SendNone(d) \/ \E u \in Users : SendOne(d, u)
    BY <1>2, <1>4, <2>2 DEF SendNone, SendOne, handlerVars
  <2>3. CASE \/ Accept(d) \/ Refuse(d) \/ Hangup(d) \/ ReadRelayAstray(d) \/ ReadInvalid(d)
             \/ ReadChat(d) \/ \E t \in StatusTypes : \E on \in Outcomes(t) : ReadStatus(d, t, on)
    <3>1. \E from, to : Goto(d, from, to)
      BY <2>3 DEF Accept, Refuse, Hangup, ReadRelayAstray, ReadInvalid, ReadChat, ReadStatus
    <3>2. pending' = pending \/ \E m : pending' = [pending EXCEPT ![d] = m]
      BY <2>3 DEF Accept, Refuse, Hangup, ReadRelayAstray, ReadInvalid, ReadChat, ReadStatus
    <3> QED
      BY <1>1, <1>4, <3>1, <3>2
  <2>4. CASE \E u \in Users : ReadRelay(d, u)
    BY <2>4 DEF ReadRelay
  <2>5. CASE WriteFails(d) \/ WriterStops(d)
    BY <2>5 DEF WriteFails, WriterStops
  <2> QED
    BY <1>4, <2>1, <2>2, <2>3, <2>4, <2>5 DEF Unseen, ClientStep
<1>5. ASSUME NEW d \in Conns, Receive(d) PROVE Stands
  BY <1>5 DEF Receive, Deliver, handlerVars
<1>6. ASSUME UNCHANGED handlerVars PROVE Stands
  BY <1>6 DEF handlerVars
<1>7. UNCHANGED allVars \/ AllOver => UNCHANGED handlerVars
  BY DEF allVars, vars, AllOver
<1>8. ASSUME Unseen(c), ~Stands,
             ~SendNone(c), \A u \in Users : ~(SendOne(c, u) /\ FinishBroadcast(c))
      PROVE  \/ Accept(c) \/ Refuse(c) \/ Join(c) \/ ListForWelcome(c)
             \/ WelcomeFails(c) \/ TakeSnapshot(c) \/ ReadRelayAstray(c) \/ ReadInvalid(c)
             \/ ReadChat(c) \/ (\E t \in StatusTypes : \E on \in Outcomes(t) : ReadStatus(c, t, on))
             \/ SendError(c) \/ Hangup(c) \/ Depart(c) \/ DepartUnnoticed(c)
             \/ Sweep(c) \/ DeleteRoom(c)
  <2>1. \A u \in Users : ~ReadRelay(c, u)
    BY <1>8 DEF ReadRelay
  <2>2. \A u \in Users : ~SendOne(c, u)
    BY <1>6, <1>8 DEF SendOne
  <2>3. ~WriteFails(c) /\ ~WriterStops(c)
    BY <1>8 DEF WriteFails, WriterStops
  <2> QED
    BY <1>8, <2>1, <2>2, <2>3 DEF Unseen, ClientStep
<1> QED
  BY <1>3, <1>4, <1>5, <1>6, <1>7, <1>8 DEF MeetingNext

(* Only a broadcast that reaches somebody takes or gives back the lock. *)
LEMMA ReadLockSteps ==
  ASSUME [Next]_vars
  PROVE  (\E c \in Conns, u \in Users : SendOne(c, u)) \/ UNCHANGED <<readers, todo>>
<1>1. ASSUME NEW c \in Conns, HandlerStep(c) \/ WelcomeStep(c), \A u \in Users : ~SendOne(c, u)
      PROVE  UNCHANGED <<readers, todo>>
  BY <1>1 DEF HandlerStep, WelcomeStep, Join, ListForWelcome, Welcome, WelcomeFails, SendNone, TakeSnapshot,
              SendError, Depart, DepartUnnoticed, Sweep, DeleteRoom, AddParticipant, SendTo,
              RemoveParticipant, roomVars
<1>2. ASSUME NEW c \in Conns, ClientStep(c) PROVE UNCHANGED <<readers, todo>>
  BY <1>2 DEF ClientStep, Accept, Refuse, Hangup, ReadRelay, ReadRelayAstray, ReadStatus,
              ReadChat, ReadInvalid, SendTo, UpdateParticipant, AppendChatMessage, roomVars
<1>3. ASSUME NEW c \in Conns, WriterStep(c) PROVE UNCHANGED <<readers, todo>>
  BY <1>3 DEF WriterStep, Deliver, WriteFails, WriterStops, Dequeue, roomVars
<1> QED
  BY <1>1, <1>2, <1>3 DEF Next, AllOver, vars, roomVars

LEMMA ReadersStep ==
  ASSUME TypeInv, ReadersBroadcast, [MeetingNext]_allVars
  PROVE  ReadersBroadcast'
<1>0. /\ pc \in [Conns -> Stages] /\ readers \in SUBSET Conns
      /\ todo \in [Conns -> SUBSET Users]
  BY DEF TypeInv, TypeOK, HandlerTypeOK, RoomTypeOK
<1> SUFFICES ASSUME NEW d \in readers' PROVE pc'[d] \in Broadcasting /\ todo'[d] # {}
  BY DEF ReadersBroadcast
<1>1. ASSUME NEW c \in Conns, NEW u \in Users, SendOne(c, u)
      PROVE  pc'[d] \in Broadcasting /\ todo'[d] # {}
  <2> DEFINE left == Remaining(c, Except(c))
  <2>1. /\ pc[c] \in Broadcasting /\ u \in left
        /\ todo' = [todo EXCEPT ![c] = left \ {u}]
        /\ readers' = IF left = {u} THEN readers \ {c} ELSE readers \cup {c}
        /\ IF left = {u} THEN FinishBroadcast(c) ELSE UNCHANGED handlerVars
    BY <1>1 DEF SendOne, BroadcastTo
  <2> HIDE DEF left
  <2>2. CASE d = c
    <3>1. left # {u} /\ pc' = pc
      BY <2>1, <2>2 DEF handlerVars
    <3> QED
      BY <1>0, <2>1, <2>2, <3>1
  <2>3. CASE d # c
    <3>1. d \in readers /\ d \in Conns /\ todo'[d] = todo[d]
      BY <1>0, <2>1, <2>3
    <3>2. pc'[d] = pc[d]
      BY <1>0, <2>1, <2>3, <3>1 DEF FinishBroadcast, handlerVars
    <3> QED
      BY <3>1, <3>2 DEF ReadersBroadcast
  <2> QED
    BY <2>2, <2>3
<1>2. ASSUME \A c \in Conns, u \in Users : ~SendOne(c, u)
      PROVE  pc'[d] \in Broadcasting /\ todo'[d] # {}
  <2>1. d \in readers /\ d \in Conns /\ todo' = todo
    BY <1>0, <1>2, MeetingStepIsStep, ReadLockSteps
  <2>2. pc[d] \in Broadcasting /\ todo[d] # {}
    BY <2>1 DEF ReadersBroadcast
  <2>3. ~SendNone(d)
    BY <2>1, <2>2 DEF SendNone, Remaining
  <2>4. pc'[d] = pc[d]
    <3>1. \/ pc'[d] = pc[d]
          \/ \E from \in Stages \ Broadcasting : \E to : Goto(d, from, to)
      BY <1>2, <2>1, <2>3, MoveKinds, SilentStages
      DEF Accept, Refuse, Join, ListForWelcome, Greet, Welcome, WelcomeFails, TakeSnapshot,
          ReadRelayAstray, ReadInvalid, ReadChat, ReadStatus, SendError, Hangup, Depart,
          DepartUnnoticed, Sweep, DeleteRoom
    <3> QED
      BY <2>2, <3>1 DEF Goto
  <2> QED
    BY <2>1, <2>2, <2>4
<1> QED
  BY <1>1, <1>2

(* A handler comes to the welcome only with the list it has just taken. *)
LEMMA ComesToWelcome ==
  ASSUME TypeInv, [MeetingNext]_allVars, NEW c \in Conns, pc'[c] = "welcome"
  PROVE  ListForWelcome(c) \/ (pc[c] = "welcome" /\ pending'[c] = pending[c])
<1>0. pc \in [Conns -> Stages]
  BY DEF TypeInv, TypeOK, HandlerTypeOK
<1>1. ~(SendNone(c) \/ \E u \in Users : SendOne(c, u) /\ FinishBroadcast(c))
  BY <1>0 DEF SendNone, SendOne, FinishBroadcast, AfterBroadcast, Broadcasting
<1>2. \/ pc'[c] = pc[c] /\ pending'[c] = pending[c]
      \/ ListForWelcome(c)
      \/ \E from, to : to # "welcome" /\ Goto(c, from, to)
  BY <1>1, MoveKinds
  DEF Accept, Refuse, Join, Greet, Welcome, WelcomeFails, TakeSnapshot,
      ReadRelayAstray, ReadInvalid, ReadChat, ReadStatus, SendError, Hangup, Depart,
      DepartUnnoticed, Sweep, DeleteRoom
<1> QED
  BY <1>0, <1>2 DEF Goto

LEMMA WelcomeListStep ==
  ASSUME TypeInv, WelcomeHasList, [MeetingNext]_allVars
  PROVE  WelcomeHasList'
<1> SUFFICES ASSUME NEW c \in Conns, pc'[c] = "welcome"
             PROVE  \E l \in Rosters : pending'[c] = ListMsg(l)
  BY DEF WelcomeHasList, ListMsg
<1>1. CASE ListForWelcome(c)
  <2>1. pending'[c] = ListMsg(Snapshot)
    BY <1>1 DEF ListForWelcome, TypeInv, TypeOK, HandlerTypeOK
  <2> QED
    BY <2>1, SnapshotType DEF TypeInv, TypeOK
<1>2. CASE pc[c] = "welcome" /\ pending'[c] = pending[c]
  BY <1>2 DEF WelcomeHasList
<1> QED
  BY <1>1, <1>2, ComesToWelcome

LEMMA InitSettingInv == Init => SettingInv
<1> SUFFICES ASSUME Init PROVE SettingInv
  OBVIOUS
<1>1. WelcomeHasList /\ ReadersBroadcast
  BY DEF Init, RoomInit, WelcomeHasList, ReadersBroadcast
<1> QED
  BY <1>1, InitTypeInv, InitSessionInv DEF SettingInv, ServerInv

LEMMA SettingInvStep == SettingInv /\ [MeetingNext]_allVars => SettingInv'
BY MeetingStepIsStep, ServerInvStep, ReadersStep, WelcomeListStep DEF SettingInv, ServerInv

-----------------------------------------------------------------------------
(* The types of what the browsers keep. *)

LEMMA RosterFields ==
  ASSUME NEW l
  PROVE  l \in Rosters <=> \E S \in SUBSET Users : l \in [S -> SUBSET StatusFlags]
BY DEF Rosters

(* What the fields of a message are, by its type. *)
LEMMA MessageFields ==
  ASSUME NEW m \in Messages
  PROVE  /\ m.type = "participants" => m.list \in Rosters /\ m = ListMsg(m.list)
         /\ m.type = "chat-message" => m.chat \in Chats /\ m = ChatMsg(m.chat)
         /\ m.type \in {"peer-joined", "peer-left"} => m.from \in Users
         /\ m.type \in StatusTypes => m.from \in Users /\ m.on \in SUBSET StatusFlags
BY DEF Messages, ListMsg, ChatMsg, StatusTypes, RelayTypes

LEMMA AppliedType ==
  ASSUME NEW v \in Rosters, NEW m \in Messages
  PROVE  Applied(v, m) \in Rosters
<1>0. PICK S \in SUBSET Users : v \in [S -> SUBSET StatusFlags]
  BY RosterFields
<1>1. CASE m.type = "participants"
  <2>1. Applied(v, m) = m.list
    BY <1>1 DEF Applied, StatusTypes
  <2> QED
    BY <1>1, <2>1, MessageFields
<1>2. CASE m.type = "peer-joined"
  <2>1. m.from \in Users
    BY <1>2, MessageFields
  <2>2. DOMAIN v \cup {m.from} \in SUBSET Users
    BY <1>0, <2>1
  <2>3. With(v, m.from, {}) \in [DOMAIN v \cup {m.from} -> SUBSET StatusFlags]
    BY <1>0 DEF With
  <2>4. Applied(v, m) = With(v, m.from, {})
    BY <1>2 DEF Applied, StatusTypes
  <2> QED
    BY <2>2, <2>3, <2>4, RosterFields
<1>3. CASE m.type = "peer-left"
  <2>1. DOMAIN v \ {m.from} \in SUBSET Users
    BY <1>0
  <2>2. Without(v, m.from) \in [DOMAIN v \ {m.from} -> SUBSET StatusFlags]
    BY <1>0 DEF Without
  <2>3. Applied(v, m) = Without(v, m.from)
    BY <1>3 DEF Applied, StatusTypes
  <2> QED
    BY <2>1, <2>2, <2>3, RosterFields
<1>4. CASE m.type \in StatusTypes
  <2>1. m.on \in SUBSET StatusFlags
    BY <1>4, MessageFields
  <2>2. Flagged(v, m) \in [S -> SUBSET StatusFlags]
    BY <1>0, <2>1 DEF Flagged
  <2>3. Applied(v, m) = Flagged(v, m)
    BY <1>4 DEF Applied, StatusTypes
  <2> QED
    BY <2>2, <2>3, RosterFields
<1>5. CASE m.type \notin {"participants", "peer-joined", "peer-left"} \cup StatusTypes
  BY <1>5 DEF Applied
<1> QED
  BY <1>1, <1>2, <1>3, <1>4, <1>5

LEMMA ShownType ==
  ASSUME NEW t \in Seq(Chats), NEW m \in Messages
  PROVE  Shown(t, m) \in Seq(Chats)
<1>1. ASSUME m.type = "chat-message" PROVE Window(Append(t, m.chat)) \in Seq(Chats)
  <2>1. Append(t, m.chat) \in Seq(Chats)
    BY <1>1, MessageFields, AppendProperties
  <2> QED
    BY <2>1, WindowBounded
<1> QED
  BY <1>1 DEF Shown

BrowserTypeOK ==
  /\ view \in [Conns -> Rosters]
  /\ transcript \in [Conns -> Seq(Chats)]
  /\ others \in [Conns -> SUBSET Users]
  /\ \A c \in Conns : UserOf[c] \notin others[c]
  /\ fresh \in SUBSET Conns

LEMMA InitBrowserType == MeetingInit => BrowserTypeOK
<1>1. <<>> \in [{} -> SUBSET StatusFlags]
  OBVIOUS
<1>2. <<>> \in Rosters
  BY <1>1, RosterFields
<1> QED
  BY <1>2 DEF MeetingInit, BrowserTypeOK

(* The list of a welcome, and the first message of a channel. *)
LEMMA WelcomeFields ==
  ASSUME SettingInv, NEW c \in Conns, pc[c] = "welcome"
  PROVE  pending[c].list \in Rosters /\ pending[c] = ListMsg(pending[c].list)
<1>1. PICK l \in Rosters : pending[c] = ListMsg(l)
  BY DEF SettingInv, WelcomeHasList
<1>2. ListMsg(l).list = l
  BY DEF ListMsg
<1> QED
  BY <1>1, <1>2

LEMMA HeadIsMessage ==
  ASSUME TypeInv, NEW c \in Conns, queue[c] # <<>>
  PROVE  /\ queue[c] \in Seq(Messages)
         /\ Head(queue[c]) \in Messages
BY HeadTailProperties DEF TypeInv, TypeOK, RoomTypeOK

LEMMA BrowserTypeStep ==
  ASSUME SettingInv, BrowserTypeOK, [MeetingNext]_allVars
  PROVE  BrowserTypeOK'
<1>1. ASSUME NEW c \in Conns, Greet(c) PROVE BrowserTypeOK'
  <2>1. pc[c] = "welcome"
    BY <1>1 DEF Greet, Welcome, Goto
  <2>2. pending[c].list \in Rosters
    BY <2>1, WelcomeFields
  <2>3. DOMAIN pending[c].list \in SUBSET Users
    BY <2>2, RosterFields
  <2>4. chatHistory \in Seq(Chats)
    BY DEF SettingInv, ServerInv, TypeInv, TypeOK, RoomTypeOK
  <2> QED
    BY <1>1, <2>2, <2>3, <2>4 DEF Greet, OnWelcome, Told, BrowserTypeOK
<1>2. ASSUME NEW c \in Conns, Receive(c) PROVE BrowserTypeOK'
  <2> DEFINE m == Head(queue[c])
  <2>1. m \in Messages
    BY <1>2, HeadIsMessage DEF Receive, Deliver, Dequeue, SettingInv, ServerInv
  <2>2. OnMessage(c, m) /\ fresh' \in SUBSET Conns
    BY <1>2 DEF Receive, Told, BrowserTypeOK
  <2> HIDE DEF m
  <2>3. view' \in [Conns -> Rosters]
    BY <2>1, <2>2, AppliedType DEF OnMessage, BrowserTypeOK
  <2>4. transcript' \in [Conns -> Seq(Chats)]
    BY <2>1, <2>2, ShownType DEF OnMessage, BrowserTypeOK
  <2> QED
    BY <2>2, <2>3, <2>4 DEF OnMessage, BrowserTypeOK
<1>3. ASSUME UNCHANGED clientVars, Outdated PROVE BrowserTypeOK'
  BY <1>3 DEF clientVars, Outdated, BrowserTypeOK
<1> QED
  BY <1>1, <1>2, <1>3, BrowserSteps

MeetingTypeInv == SettingInv /\ BrowserTypeOK

LEMMA MeetingTypeInvariant == MeetingSpec => []MeetingTypeInv
<1>1. MeetingInit => MeetingTypeInv
  BY MeetingInitIsInit, InitSettingInv, InitBrowserType DEF MeetingTypeInv
<1>2. MeetingTypeInv /\ [MeetingNext]_allVars => MeetingTypeInv'
  BY MeetingStepIsStep, SettingInvStep, BrowserTypeStep DEF MeetingTypeInv
<1> QED
  BY <1>1, <1>2, PTL DEF MeetingSpec

(* The room, the handlers and the browsers keep their types: whatever      *)
(* arrives, state.participants maps users to flags and state.chatMessages  *)
(* holds chat messages.                                                    *)
THEOREM MeetingTypeCorrect == MeetingSpec => []MeetingTypeOK
<1>1. MeetingTypeInv => MeetingTypeOK
  BY DEF MeetingTypeInv, SettingInv, ServerInv, TypeInv, BrowserTypeOK, MeetingTypeOK
<1> QED
  BY <1>1, MeetingTypeInvariant, PTL

-----------------------------------------------------------------------------
(* The lists of those to offer to. *)

(* From its list on until it leaves, a connection has somebody to offer to. *)
Offering == Joined \ {"joined", "leaving"}

(* Those it found in its welcome list. *)
FoundBy(c) ==
  IF pc[c] = "welcome" THEN DOMAIN pending[c].list \ {UserOf[c]} ELSE others[c]

(* Of two registered connections that have both taken their list, one has  *)
(* found the other in it, whether or not the welcome has been sent yet.    *)
PairInv ==
  \A c, d \in Conns :
    (/\ {pc[c], pc[d]} \subseteq Offering
     /\ participants[UserOf[c]] = c
     /\ participants[UserOf[d]] = d
     /\ c # d) => UserOf[d] \in FoundBy(c) \/ UserOf[c] \in FoundBy(d)

(* A connection that has taken its list was registered before, and has     *)
(* taken it in this step or still has what it found.                       *)
LEMMA StaysRegistered ==
  ASSUME MeetingTypeInv, [MeetingNext]_allVars, NEW c \in Conns,
         pc'[c] \in Offering, participants'[UserOf[c]] = c
  PROVE  participants[UserOf[c]] = c
<1>0. TypeInv /\ [Next]_vars
  BY MeetingStepIsStep DEF MeetingTypeInv, SettingInv, ServerInv
<1>1. /\ participants \in [Users -> Conns \cup {NoConn}] /\ pc \in [Conns -> Stages]
      /\ UserOf \in [Conns -> Users] /\ NoConn \notin Conns
  BY <1>0, RoomAssumption DEF TypeInv, TypeOK, RoomTypeOK, HandlerTypeOK
<1>2. CASE Quiet
  BY <1>2 DEF Quiet
<1>3. ASSUME NEW d \in Conns, Join(d) PROVE participants[UserOf[c]] = c
  BY <1>1, <1>3 DEF Join, AddParticipant, Goto, Offering
<1>4. ASSUME NEW d \in Conns, Depart(d) \/ DepartUnnoticed(d) PROVE participants[UserOf[c]] = c
  BY <1>1, <1>4 DEF Depart, DepartUnnoticed, RemoveParticipant, roomVars
<1> QED
  BY <1>0, <1>2, <1>3, <1>4, StepKinds

LEMMA KeepsFound ==
  ASSUME MeetingTypeInv, [MeetingNext]_allVars, NEW c \in Conns, pc'[c] \in Offering
  PROVE  ListForWelcome(c) \/ (pc[c] \in Offering /\ FoundBy(c)' = FoundBy(c))
<1>0. /\ TypeInv /\ [Next]_vars /\ others \in [Conns -> SUBSET Users]
      /\ pc \in [Conns -> Stages] /\ view \in [Conns -> Rosters]
  BY MeetingStepIsStep
  DEF MeetingTypeInv, BrowserTypeOK, SettingInv, ServerInv, TypeInv, TypeOK, HandlerTypeOK
<1>1. CASE Greet(c)
  <2>1. /\ pc[c] = "welcome" /\ pc'[c] = "announce"
        /\ others'[c] = DOMAIN pending[c].list \ {UserOf[c]}
    BY <1>0, <1>1 DEF Greet, Welcome, Goto, OnWelcome
  <2> QED
    BY <2>1 DEF FoundBy, Offering, Joined
<1>2. CASE ~Greet(c)
  <2>1. others'[c] = others[c]
    BY <1>0, <1>2, BrowserSteps DEF Greet, OnWelcome, Receive, OnMessage, clientVars
  <2>2. CASE pc'[c] = "welcome"
    BY <1>0, <2>2, ComesToWelcome DEF FoundBy, Offering, Joined
  <2>3. CASE pc'[c] # "welcome"
    <3>1. CASE SendNone(c) \/ \E u \in Users : SendOne(c, u) /\ FinishBroadcast(c)
      <4>1. pc[c] \in Broadcasting /\ FinishBroadcast(c)
        BY <3>1 DEF SendNone, SendOne
      <4>2. pc'[c] = AfterBroadcast(c) /\ pc[c] \in Joined
        BY <1>0, <4>1, AfterBroadcastStage DEF FinishBroadcast, Offering
      <4> QED
        BY <2>1, <2>3, <4>1, <4>2 DEF FoundBy, Offering, Broadcasting
    <3>2. CASE ~(SendNone(c) \/ \E u \in Users : SendOne(c, u) /\ FinishBroadcast(c))
      <4>1. \/ pc'[c] = pc[c]
            \/ ListForWelcome(c)
            \/ \E from \in Offering \ {"welcome"} : \E to : Goto(c, from, to)
            \/ \E from : \E to \in Stages \ Offering : Goto(c, from, to)
        <5> USE DEF Offering, Stages, Fresh, Joined, Departed
        <5>1. CASE \/ Accept(c) \/ Refuse(c) \/ Join(c) \/ WelcomeFails(c)
                   \/ Hangup(c) \/ Depart(c) \/ DepartUnnoticed(c)
                   \/ Sweep(c) \/ DeleteRoom(c)
          <6>1. \E from : \E to \in {"accepted", "refused", "joined", "leaving", "farewell",
                                     "closed", "delete"} : Goto(c, from, to)
            BY <5>1 DEF Accept, Refuse, Join, WelcomeFails, Hangup, Depart, DepartUnnoticed,
                        Sweep, DeleteRoom
          <6> QED
            BY <6>1
        <5>2. CASE \/ ReadRelayAstray(c) \/ ReadInvalid(c) \/ ReadChat(c) \/ SendError(c)
                   \/ \E t \in StatusTypes : \E on \in Outcomes(t) : ReadStatus(c, t, on)
          <6>1. \E from \in {"reading", "refuse"} : \E to : Goto(c, from, to)
            BY <5>2 DEF ReadRelayAstray, ReadInvalid, ReadChat, ReadStatus, SendError
          <6> QED
            BY <6>1
        <5>3. CASE TakeSnapshot(c)
          <6>1. Goto(c, "snapshot", "publish") \/ Goto(c, "lastSnapshot", "lastPublish")
            BY <5>3 DEF TakeSnapshot
          <6> QED
            BY <6>1
        <5> QED
          BY <1>0, <1>2, <3>2, <5>1, <5>2, <5>3, MoveKinds
      <4>2. ~ListForWelcome(c)
        BY <1>0, <2>3 DEF ListForWelcome, Goto
      <4> QED
        BY <1>0, <2>1, <2>3, <4>1, <4>2 DEF Goto, FoundBy
    <3> QED
      BY <3>1, <3>2
  <2> QED
    BY <2>2, <2>3
<1> QED
  BY <1>1, <1>2

(* Whoever takes its list finds every other registered connection in it.   *)
LEMMA FindsRegistered ==
  ASSUME MeetingTypeInv, NEW c \in Conns, NEW d \in Conns, c # d, ListForWelcome(c),
         participants[UserOf[c]] = c, participants[UserOf[d]] = d
  PROVE  UserOf[d] \in FoundBy(c)'
<1>1. /\ pc \in [Conns -> Stages] /\ pending \in [Conns -> Messages \cup {NoMsg}]
      /\ UserOf \in [Conns -> Users] /\ NoConn \notin Conns
  BY RoomAssumption DEF MeetingTypeInv, SettingInv, ServerInv, TypeInv, TypeOK, HandlerTypeOK
<1>2. pc'[c] = "welcome" /\ pending'[c] = ListMsg(Snapshot)
  BY <1>1 DEF ListForWelcome, Goto
<1>3. UserOf[d] \in Members /\ UserOf[d] # UserOf[c]
  BY <1>1 DEF Members, Present
<1>4. DOMAIN pending'[c].list = Members
  BY <1>2 DEF ListMsg, Snapshot
<1> QED
  BY <1>2, <1>3, <1>4 DEF FoundBy

LEMMA PairInvStep ==
  ASSUME MeetingTypeInv, PairInv, [MeetingNext]_allVars
  PROVE  PairInv'
<1> SUFFICES ASSUME NEW c \in Conns, NEW d \in Conns, {pc'[c], pc'[d]} \subseteq Offering,
                    participants'[UserOf[c]] = c, participants'[UserOf[d]] = d, c # d
             PROVE  UserOf[d] \in FoundBy(c)' \/ UserOf[c] \in FoundBy(d)'
  BY DEF PairInv
<1>1. participants[UserOf[c]] = c /\ participants[UserOf[d]] = d
  BY StaysRegistered
<1>2. CASE ListForWelcome(c) \/ ListForWelcome(d)
  BY <1>1, <1>2, FindsRegistered
<1>3. CASE ~ListForWelcome(c) /\ ~ListForWelcome(d)
  <2>1. {pc[c], pc[d]} \subseteq Offering /\ FoundBy(c)' = FoundBy(c) /\ FoundBy(d)' = FoundBy(d)
    BY <1>3, KeepsFound
  <2> QED
    BY <1>1, <2>1 DEF PairInv
<1> QED
  BY <1>2, <1>3

(* Of two users in the room who were welcomed, one has the other on the    *)
(* list of handleWelcome, in whatever order they join, take their lists    *)
(* and are welcomed.                                                       *)
THEOREM OneIsToOfferHolds == MeetingSpec => []OneIsToOffer
<1>1. MeetingInit => PairInv
  BY DEF MeetingInit, Init, PairInv, Offering, Joined
<1>2. MeetingTypeInv /\ PairInv /\ [MeetingNext]_allVars => PairInv'
  BY PairInvStep
<1>3. PairInv => OneIsToOffer
  BY DEF PairInv, OneIsToOffer, FoundBy, Offering
<1> QED
  BY <1>1, <1>2, <1>3, MeetingTypeInvariant, PTL DEF MeetingSpec

-----------------------------------------------------------------------------
(* What a step does to the room: to the map, the channels and the chat     *)
(* history.                                                                *)

LEMMA RoomKinds ==
  ASSUME [MeetingNext]_allVars
  PROVE  \/ UNCHANGED roomVars
         \/ \E c \in Conns : Join(c) \/ Depart(c) \/ ReadChat(c) \/ SendError(c)
         \/ \E c \in Conns, t \in StatusTypes : \E on \in Outcomes(t) : ReadStatus(c, t, on)
         \/ \E c \in Conns, u \in Users : SendOne(c, u) \/ ReadRelay(c, u)
         \/ \E c \in Conns : Receive(c) \/ WriteFails(c)
<1>1. ASSUME NEW c \in Conns, Greet(c) PROVE UNCHANGED roomVars
  BY <1>1 DEF Greet, Welcome
<1>2. ASSUME NEW c \in Conns,
             \/ ListForWelcome(c) \/ WelcomeFails(c) \/ SendNone(c) \/ TakeSnapshot(c)
             \/ DepartUnnoticed(c) \/ Sweep(c) \/ DeleteRoom(c) \/ WriterStops(c)
             \/ Accept(c) \/ Refuse(c) \/ Hangup(c) \/ ReadRelayAstray(c) \/ ReadInvalid(c)
      PROVE  UNCHANGED roomVars
  BY <1>2 DEF ListForWelcome, WelcomeFails, SendNone, TakeSnapshot, DepartUnnoticed, Sweep,
              DeleteRoom, WriterStops, Accept, Refuse, Hangup, ReadRelayAstray, ReadInvalid
<1>3. UNCHANGED allVars \/ AllOver => UNCHANGED roomVars
  BY DEF allVars, vars, AllOver
<1> QED
  BY <1>1, <1>2, <1>3 DEF MeetingNext, Unseen, ClientStep

(* The participant records change only in three ways. *)
LEMMA RecordsChange ==
  ASSUME [MeetingNext]_allVars
  PROVE  \/ UNCHANGED <<participants, status>>
         \/ \E c \in Conns : Join(c) \/ Depart(c)
         \/ \E c \in Conns, t \in StatusTypes : \E on \in Outcomes(t) : ReadStatus(c, t, on)
<1>1. ASSUME NEW c \in Conns, ReadChat(c) \/ SendError(c) \/ Receive(c) \/ WriteFails(c)
      PROVE  UNCHANGED <<participants, status>>
  BY <1>1 DEF ReadChat, AppendChatMessage, SendError, SendTo, Receive, Deliver, WriteFails, Dequeue
<1>2. ASSUME NEW c \in Conns, NEW u \in Users, SendOne(c, u) \/ ReadRelay(c, u)
      PROVE  UNCHANGED <<participants, status>>
  BY <1>2 DEF SendOne, BroadcastTo, ReadRelay, SendTo
<1>3. UNCHANGED roomVars => UNCHANGED <<participants, status>>
  BY DEF roomVars
<1> QED
  BY <1>1, <1>2, <1>3, RoomKinds

(* A message sent to a user goes to the end of the channel of its session, *)
(* or that channel has lost one.                                           *)
LEMMA TrySendEffect ==
  ASSUME TypeInv, NEW u \in Users, NEW m \in Messages, Present(u), TrySend(u, m)
  PROVE  LET ch == participants[u]
         IN  /\ ch \in Conns
             /\ \/ queue' = [queue EXCEPT ![ch] = Append(queue[ch], m)] /\ dropped' = dropped
                \/ queue' = queue /\ dropped' = dropped \cup {ch}
BY DEF TypeInv, TypeOK, RoomTypeOK, Present, TrySend

(* What is at the end of a sequence, at its head or in its tail is in it.  *)
LEMMA AppendedIn ==
  ASSUME NEW S, NEW s \in Seq(S), NEW x \in S, NEW y
  PROVE  y \in ToSet(Append(s, x)) <=> y \in ToSet(s) \/ y = x
<1>1. /\ DOMAIN s = 1..Len(s) /\ DOMAIN Append(s, x) = 1..(Len(s) + 1) /\ Len(s) \in Nat
      /\ \A i \in 1..Len(s) : Append(s, x)[i] = s[i]
      /\ Append(s, x)[Len(s) + 1] = x
  BY AppendProperties
<1>2. \A i \in 1..(Len(s) + 1) : i \in 1..Len(s) \/ i = Len(s) + 1
  BY <1>1
<1>3. Len(s) + 1 \in 1..(Len(s) + 1) /\ 1..Len(s) \subseteq 1..(Len(s) + 1)
  BY <1>1
<1> QED
  BY <1>1, <1>2, <1>3 DEF ToSet

LEMMA TailIn ==
  ASSUME NEW S, NEW s \in Seq(S), s # <<>>, NEW y
  PROVE  y \in ToSet(s) <=> y = Head(s) \/ y \in ToSet(Tail(s))
<1>1. /\ DOMAIN s = 1..Len(s) /\ Len(s) \in Nat \ {0} /\ Head(s) = s[1]
      /\ DOMAIN Tail(s) = 1..(Len(s) - 1)
      /\ \A i \in 1..(Len(s) - 1) : Tail(s)[i] = s[i + 1]
  BY HeadTailProperties, EmptySeq
<1>2. ASSUME NEW i \in 1..Len(s), i # 1 PROVE s[i] = Tail(s)[i - 1] /\ i - 1 \in 1..(Len(s) - 1)
  BY <1>1, <1>2
<1>3. 1 \in 1..Len(s) /\ \A i \in 1..(Len(s) - 1) : i + 1 \in 1..Len(s)
  BY <1>1
<1>4. ASSUME y \in ToSet(s) PROVE y = Head(s) \/ y \in ToSet(Tail(s))
  <2>1. PICK i \in 1..Len(s) : y = s[i]
    BY <1>1, <1>4 DEF ToSet
  <2>2. CASE i # 1
    <3>1. y = Tail(s)[i - 1] /\ i - 1 \in DOMAIN Tail(s)
      BY <1>1, <1>2, <2>1, <2>2
    <3> QED
      BY <3>1 DEF ToSet
  <2> QED
    BY <1>1, <2>1, <2>2
<1>5. ASSUME y \in ToSet(Tail(s)) PROVE y \in ToSet(s)
  <2>1. PICK i \in 1..(Len(s) - 1) : y = s[i + 1]
    BY <1>1, <1>5 DEF ToSet
  <2> QED
    BY <1>1, <1>3, <2>1 DEF ToSet
<1>6. Head(s) \in ToSet(s)
  BY <1>1, <1>3 DEF ToSet
<1> QED
  BY <1>4, <1>5, <1>6

(* A message in a channel stays there until it is the first and is taken.  *)
LEMMA StaysQueued ==
  ASSUME TypeInv, [MeetingNext]_allVars, NEW c \in Conns, NEW m, m \in ToSet(queue[c])
  PROVE  m \in ToSet(queue'[c]) \/ ((Receive(c) \/ WriteFails(c)) /\ m = Head(queue[c]))
<1>0. queue \in [Conns -> Seq(Messages)]
  BY DEF TypeInv, TypeOK, RoomTypeOK
<1>1. ASSUME NEW u \in Users, NEW m2 \in Messages, Present(u), TrySend(u, m2)
      PROVE  m \in ToSet(queue'[c])
  <2>1. PICK ch \in Conns : queue' = queue \/ queue' = [queue EXCEPT ![ch] = Append(queue[ch], m2)]
    BY <1>1, TrySendEffect
  <2>2. m \in ToSet(Append(queue[c], m2))
    BY <1>0, AppendedIn
  <2> QED
    BY <1>0, <2>1, <2>2
<1>2. ASSUME NEW u \in Users, NEW m2 \in Messages, SendTo(u, m2)
      PROVE  m \in ToSet(queue'[c])
  BY <1>1, <1>2 DEF SendTo
<1>3. ASSUME NEW d \in Conns, NEW u \in Users, SendOne(d, u) PROVE m \in ToSet(queue'[c])
  <2>1. pending[d] \in Messages /\ TrySend(u, pending[d]) /\ u \in Remaining(d, Except(d))
    BY <1>3 DEF SendOne, BroadcastTo, TypeInv, PendingIsMessage
  <2>2. Present(u)
    BY <2>1, RemainingArePresent DEF TypeInv, TypeOK, BroadcastReachesPresent, Members
  <2> QED
    BY <1>1, <2>1, <2>2
<1>4. ASSUME NEW d \in Conns, NEW u \in Users, ReadRelay(d, u) PROVE m \in ToSet(queue'[c])
  BY <1>2, <1>4, RoomAssumption, PeerMsgType DEF ReadRelay
<1>5. ASSUME NEW d \in Conns, SendError(d) PROVE m \in ToSet(queue'[c])
  BY <1>2, <1>5, RoomAssumption, ErrorMsgType DEF SendError
<1>6. ASSUME NEW d \in Conns, Receive(d) \/ WriteFails(d)
      PROVE  m \in ToSet(queue'[c]) \/ (d = c /\ m = Head(queue[c]))
  <2>1. queue[d] # <<>> /\ queue' = [queue EXCEPT ![d] = Tail(queue[d])]
    BY <1>6 DEF Receive, Deliver, WriteFails, Dequeue
  <2>2. CASE d = c
    <3>1. m = Head(queue[c]) \/ m \in ToSet(Tail(queue[c]))
      BY <1>0, <2>1, <2>2, TailIn
    <3> QED
      BY <1>0, <2>1, <2>2, <3>1
  <2> QED
    BY <1>0, <2>1, <2>2
<1>7. ASSUME UNCHANGED queue PROVE m \in ToSet(queue'[c])
  BY <1>7
<1>8. ASSUME NEW d \in Conns,
             \/ Join(d) \/ Depart(d) \/ ReadChat(d)
             \/ \E t \in StatusTypes : \E on \in Outcomes(t) : ReadStatus(d, t, on)
      PROVE  UNCHANGED queue
  BY <1>8 DEF Join, AddParticipant, Depart, RemoveParticipant, ReadChat, AppendChatMessage,
              ReadStatus, UpdateParticipant
<1>9. UNCHANGED roomVars => UNCHANGED queue
  BY DEF roomVars
<1> QED
  BY <1>3, <1>4, <1>5, <1>6, <1>7, <1>8, <1>9, RoomKinds

(* A channel that lost a message stays one, and a writer that is done.     *)
LEMMA DroppedGrows ==
  ASSUME TypeInv, [MeetingNext]_allVars
  PROVE  dropped \subseteq dropped'
<1>1. ASSUME NEW u, NEW m, TrySend(u, m) PROVE dropped \subseteq dropped'
  BY <1>1 DEF TrySend
<1>2. ASSUME NEW u, NEW m, SendTo(u, m) PROVE dropped \subseteq dropped'
  BY <1>1, <1>2 DEF SendTo
<1>3. ASSUME NEW c \in Conns, SendError(c) \/ \E u \in Users : SendOne(c, u) \/ ReadRelay(c, u)
      PROVE  dropped \subseteq dropped'
  BY <1>1, <1>2, <1>3 DEF SendOne, BroadcastTo, ReadRelay, SendError
<1>4. ASSUME NEW c \in Conns,
             \/ Join(c) \/ Depart(c) \/ ReadChat(c) \/ Receive(c) \/ WriteFails(c)
             \/ \E t \in StatusTypes : \E on \in Outcomes(t) : ReadStatus(c, t, on)
      PROVE  dropped \subseteq dropped'
  BY <1>4 DEF Join, AddParticipant, Depart, RemoveParticipant, ReadChat, AppendChatMessage,
              Receive, Deliver, WriteFails, Dequeue, ReadStatus, UpdateParticipant
<1>5. UNCHANGED roomVars => dropped \subseteq dropped'
  BY DEF roomVars
<1> QED
  BY <1>3, <1>4, <1>5, RoomKinds

LEMMA WriterStaysDone ==
  ASSUME TypeInv, [MeetingNext]_allVars, NEW c \in Conns, writer'[c] # "done"
  PROVE  writer[c] # "done"
<1>0. writer \in [Conns -> {"off", "on", "done"}] /\ [Next]_vars
  BY MeetingStepIsStep DEF TypeInv, TypeOK, HandlerTypeOK
<1>1. ASSUME NEW d \in Conns, FinishBroadcast(d) PROVE writer[c] # "done"
  BY <1>0, <1>1 DEF FinishBroadcast
<1>2. ASSUME NEW d \in Conns, WriterStep(d) PROVE writer[c] # "done"
  BY <1>0, <1>2 DEF WriterStep, Deliver, WriteFails, WriterStops, handlerVars
<1>3. ASSUME NEW d \in Conns, HandlerStep(d) \/ WelcomeStep(d) PROVE writer[c] # "done"
  BY <1>1, <1>3 DEF HandlerStep, WelcomeStep, Join, ListForWelcome, Welcome, WelcomeFails, SendOne, SendNone,
                    TakeSnapshot, SendError, Depart, DepartUnnoticed, Sweep, DeleteRoom,
                    handlerVars
<1>4. ASSUME NEW d \in Conns, ClientStep(d) PROVE writer[c] # "done"
  BY <1>4 DEF ClientStep, Accept, Refuse, Hangup, ReadRelay, ReadRelayAstray, ReadStatus,
              ReadChat, ReadInvalid
<1>5. UNCHANGED handlerVars => writer[c] # "done"
  BY DEF handlerVars
<1> QED
  BY <1>0, <1>2, <1>3, <1>4, <1>5 DEF Next, AllOver, vars

-----------------------------------------------------------------------------
(* The participant list. *)

(* The connections that a promise of the room is about: registered, with a *)
(* channel that lost nothing and a writer that has not given up.           *)
Tracked(c) ==
  /\ participants[UserOf[c]] = c
  /\ c \notin dropped
  /\ writer[c] # "done"

(* The handler of s has yet to take a list and to broadcast it.  Until it  *)
(* has announced itself it may fail, and then it announces its departure,  *)
(* unless somebody has removed its user and announces that instead.        *)
Announcing(s) ==
  \/ pc[s] \in {"announce", "snapshot", "farewell", "lastSnapshot"}
  \/ pc[s] \in {"joined", "welcome", "leaving"} /\ Present(UserOf[s])
  \/ pc[s] = "echo" /\ pending[s].type # "chat-message"

(* It is broadcasting the present list and has not reached c. *)
Publishing(s, c) ==
  /\ pc[s] \in {"publish", "lastPublish"}
  /\ pending[s] = ListMsg(Snapshot)
  /\ UserOf[c] \in Remaining(s, {})

(* Every tracked connection has been told the present list, has it in its  *)
(* channel or will get it from a handler that owes a broadcast.            *)
ToldOrOwed(c) ==
  \/ c \in fresh
  \/ ListMsg(Snapshot) \in ToSet(queue[c])
  \/ \E s \in Conns : Announcing(s) \/ Publishing(s, c)

ToldInv == \A c \in Conns : Tracked(c) => ToldOrOwed(c)

(* The steps that make somebody owe a broadcast. *)
LEMMA ChangesAreAnnounced ==
  ASSUME MeetingTypeInv, NEW s \in Conns,
         \/ Join(s) \/ Depart(s) \/ Greet(s)
         \/ \E t \in StatusTypes : \E on \in Outcomes(t) : ReadStatus(s, t, on)
  PROVE  Announcing(s)'
<1>0. /\ pc \in [Conns -> Stages] /\ pending \in [Conns -> Messages \cup {NoMsg}]
      /\ participants \in [Users -> Conns \cup {NoConn}]
      /\ UserOf \in [Conns -> Users] /\ NoConn \notin Conns
  BY RoomAssumption
  DEF MeetingTypeInv, SettingInv, ServerInv, TypeInv, TypeOK, HandlerTypeOK, RoomTypeOK
<1>1. CASE Join(s)
  <2>1. pc'[s] = "joined" /\ participants'[UserOf[s]] = s
    BY <1>0, <1>1 DEF Join, AddParticipant, Goto
  <2> QED
    BY <1>0, <2>1 DEF Announcing, Present
<1>2. CASE Depart(s) \/ Greet(s)
  BY <1>0, <1>2 DEF Depart, Greet, Welcome, Goto, Announcing
<1>3. ASSUME NEW t \in StatusTypes, NEW on \in Outcomes(t), ReadStatus(s, t, on)
      PROVE  Announcing(s)'
  <2>1. pc'[s] = "echo" /\ pending'[s] = StatusMsg(t, UserOf[s], on)
    BY <1>0, <1>3 DEF ReadStatus, Goto
  <2>2. pending'[s].type # "chat-message"
    BY <2>1 DEF StatusMsg, StatusTypes
  <2> QED
    BY <2>1, <2>2 DEF Announcing
<1> QED
  BY <1>1, <1>2, <1>3

(* Otherwise a handler that owes a broadcast goes on owing it, or takes    *)
(* the list and sets out to reach everybody who is registered.             *)
LEMMA AnnouncingGoesOn ==
  ASSUME MeetingTypeInv, [MeetingNext]_allVars, UNCHANGED <<participants, status>>,
         NEW s \in Conns, Announcing(s), NEW c \in Conns, participants[UserOf[c]] = c
  PROVE  Announcing(s)' \/ Publishing(s, c)'
<1>0. /\ pc \in [Conns -> Stages] /\ pending \in [Conns -> Messages \cup {NoMsg}]
      /\ participants \in [Users -> Conns \cup {NoConn}]
      /\ UserOf \in [Conns -> Users] /\ NoConn \notin Conns /\ TypeInv
  BY RoomAssumption
  DEF MeetingTypeInv, SettingInv, ServerInv, TypeInv, TypeOK, HandlerTypeOK, RoomTypeOK
<1>1. Snapshot' = Snapshot /\ Members' = Members /\ Present(UserOf[s])' = Present(UserOf[s])
  BY DEF Snapshot, Members, Present
<1>2. CASE TakeSnapshot(s)
  <2>1. /\ pc[s] \in {"snapshot", "lastSnapshot"} /\ pc'[s] \in {"publish", "lastPublish"}
        /\ pending'[s] = ListMsg(Snapshot) /\ UNCHANGED <<readers, todo>>
    BY <1>0, <1>2 DEF TakeSnapshot, Goto, roomVars
  <2>2. s \notin readers
    BY <2>1 DEF MeetingTypeInv, SettingInv, ReadersBroadcast, Broadcasting
  <2>3. UserOf[c] \in Members
    BY <1>0 DEF Members, Present
  <2> QED
    BY <1>1, <2>1, <2>2, <2>3 DEF Publishing, Remaining
<1>3. CASE SendNone(s) \/ \E u \in Users : SendOne(s, u) /\ FinishBroadcast(s)
  <2>1. pc[s] \in Broadcasting /\ pc' = [pc EXCEPT ![s] = AfterBroadcast(s)]
    BY <1>3 DEF SendNone, SendOne, FinishBroadcast
  <2>2. AfterBroadcast(s) \in {"snapshot", "lastSnapshot"}
    BY <2>1 DEF Announcing, AfterBroadcast, Broadcasting
  <2> QED
    BY <1>0, <2>1, <2>2 DEF Announcing
<1>4. CASE pc'[s] = pc[s] /\ pending'[s] = pending[s]
  BY <1>1, <1>4 DEF Announcing
<1>5. CASE \/ Join(s) \/ Depart(s) \/ Greet(s)
           \/ \E t \in StatusTypes : \E on \in Outcomes(t) : ReadStatus(s, t, on)
  BY <1>5, ChangesAreAnnounced
<1>6. CASE ListForWelcome(s) \/ WelcomeFails(s)
  <2>1. pc[s] \in {"joined", "welcome"} /\ pc'[s] \in {"welcome", "leaving"}
    BY <1>0, <1>6 DEF ListForWelcome, WelcomeFails, Goto
  <2> QED
    BY <1>1, <2>1 DEF Announcing
<1>7. CASE \/ Accept(s) \/ Refuse(s) \/ ReadRelayAstray(s) \/ ReadInvalid(s) \/ ReadChat(s)
           \/ SendError(s) \/ Hangup(s) \/ Sweep(s) \/ DeleteRoom(s)
  <2>1. pc[s] \in {"idle", "reading", "refuse", "sweep", "delete"}
    BY <1>7 DEF Accept, Refuse, ReadRelayAstray, ReadInvalid, ReadChat, SendError, Hangup,
                Sweep, DeleteRoom, Goto
  <2> QED
    BY <2>1 DEF Announcing
<1>8. CASE DepartUnnoticed(s)
  BY <1>8 DEF DepartUnnoticed, Goto, Announcing
<1> QED
  BY <1>0, <1>2, <1>3, <1>4, <1>5, <1>6, <1>7, <1>8, MoveKinds

(* A broadcast that has yet to reach a connection, which stays registered, *)
(* goes on until it has put its message into the channel or lost it there. *)
LEMMA BroadcastGoesOn ==
  ASSUME MeetingTypeInv, [MeetingNext]_allVars, NEW s \in Conns, NEW c \in Conns,
         pc[s] \in Broadcasting, UserOf[c] \in Remaining(s, Except(s)),
         participants[UserOf[c]] = c, participants'[UserOf[c]] = c, c \notin dropped'
  PROVE  \/ /\ pc'[s] = pc[s] /\ pending'[s] = pending[s]
            /\ UserOf[c] \in Remaining(s, Except(s))'
         \/ pending[s] \in ToSet(queue'[c])
<1>0. /\ pc \in [Conns -> Stages] /\ pending \in [Conns -> Messages \cup {NoMsg}]
      /\ participants \in [Users -> Conns \cup {NoConn}] /\ queue \in [Conns -> Seq(Messages)]
      /\ readers \in SUBSET Conns /\ todo \in [Conns -> SUBSET Users]
      /\ UserOf \in [Conns -> Users] /\ NoConn \notin Conns /\ TypeInv /\ [Next]_vars
  BY RoomAssumption, MeetingStepIsStep
  DEF MeetingTypeInv, SettingInv, ServerInv, TypeInv, TypeOK, HandlerTypeOK, RoomTypeOK
<1>1. ASSUME NEW u \in Users, SendOne(s, u), u = UserOf[c]
      PROVE  pending[s] \in ToSet(queue'[c])
  <2>1. pending[s] \in Messages /\ TrySend(u, pending[s]) /\ Present(u)
    BY <1>0, <1>1 DEF SendOne, BroadcastTo, TypeInv, PendingIsMessage, Present
  <2>2. queue' = [queue EXCEPT ![c] = Append(queue[c], pending[s])]
    BY <1>0, <1>1, <2>1, TrySendEffect
  <2> QED
    BY <1>0, <2>1, <2>2, AppendedIn
<1>2. ASSUME NEW u \in Users, SendOne(s, u), u # UserOf[c]
      PROVE  /\ pc'[s] = pc[s] /\ pending'[s] = pending[s]
             /\ UserOf[c] \in Remaining(s, Except(s))'
  <2> DEFINE left == Remaining(s, Except(s))
  <2>1. left # {u} /\ UserOf[c] \in left
    BY <1>2
  <2>2. UNCHANGED handlerVars /\ todo' = [todo EXCEPT ![s] = left \ {u}] /\ s \in readers'
    BY <1>2, <2>1 DEF SendOne, BroadcastTo
  <2> HIDE DEF left
  <2>3. pc' = pc /\ pending' = pending /\ UserOf[c] \in todo'[s]
    BY <1>0, <1>2, <2>1, <2>2 DEF handlerVars
  <2> QED
    BY <2>2, <2>3 DEF Remaining
<1>3. ASSUME \A u \in Users : ~SendOne(s, u)
      PROVE  /\ pc'[s] = pc[s] /\ pending'[s] = pending[s]
             /\ UserOf[c] \in Remaining(s, Except(s))'
  <2>1. ~SendNone(s)
    BY DEF SendNone
  <2>2. \/ pc'[s] = pc[s] /\ pending'[s] = pending[s]
        \/ \E from \in Stages \ Broadcasting : \E to : Goto(s, from, to)
    BY <1>0, <1>3, <2>1, MoveKinds, SilentStages
    DEF Accept, Refuse, Join, ListForWelcome, Greet, Welcome, WelcomeFails, TakeSnapshot,
        ReadRelayAstray, ReadInvalid, ReadChat, ReadStatus, SendError, Hangup, Depart,
        DepartUnnoticed, Sweep, DeleteRoom
  <2>3. pc'[s] = pc[s] /\ pending'[s] = pending[s]
    BY <2>2 DEF Goto
  <2>4. (s \in readers' <=> s \in readers) /\ todo'[s] = todo[s]
    <3>1. CASE UNCHANGED <<readers, todo>>
      BY <3>1
    <3>2. ASSUME NEW d \in Conns, NEW u \in Users, SendOne(d, u)
          PROVE  (s \in readers' <=> s \in readers) /\ todo'[s] = todo[s]
      <4>1. d # s
        BY <1>3, <3>2
      <4> QED
        BY <1>0, <3>2, <4>1 DEF SendOne, BroadcastTo
    <3> QED
      BY <1>0, <3>1, <3>2, ReadLockSteps
  <2>5. Except(s)' = Except(s)
    BY <2>3 DEF Except
  <2>6. UserOf[c] \in Members'
    BY <1>0 DEF Members, Present
  <2> QED
    BY <2>3, <2>4, <2>5, <2>6 DEF Remaining
<1> QED
  BY <1>1, <1>2, <1>3

(* Whoever gets the present list is up to date, as long as it does not     *)
(* change.                                                                 *)
LEMMA ListIsTaken ==
  ASSUME MeetingTypeInv, NEW c \in Conns, Receive(c), Head(queue[c]) = ListMsg(Snapshot)
  PROVE  c \in fresh'
<1>1. Head(queue[c]).type = "participants" /\ Head(queue[c]).list = Snapshot
  BY DEF ListMsg
<1> QED
  BY <1>1 DEF Receive, Told

LEMMA FreshStays ==
  ASSUME MeetingTypeInv, [MeetingNext]_allVars, UNCHANGED <<participants, status>>
  PROVE  fresh \subseteq fresh'
<1>1. Snapshot' = Snapshot
  BY DEF Snapshot, Members, Present
<1>2. ASSUME NEW c \in Conns, Greet(c) \/ Receive(c) PROVE fresh \subseteq fresh'
  BY <1>2 DEF Greet, Receive, Told
<1>3. Outdated => fresh \subseteq fresh'
  BY <1>1 DEF Outdated
<1> QED
  BY <1>2, <1>3, BrowserSteps

LEMMA ToldInvStep ==
  ASSUME MeetingTypeInv, ToldInv, [MeetingNext]_allVars
  PROVE  ToldInv'
<1>0. TypeInv
  BY DEF MeetingTypeInv, SettingInv, ServerInv
<1> SUFFICES ASSUME NEW c \in Conns, Tracked(c)' PROVE ToldOrOwed(c)'
  BY DEF ToldInv
<1>1. ASSUME NEW s \in Conns,
             \/ Join(s) \/ Depart(s) \/ \E t \in StatusTypes : \E on \in Outcomes(t) : ReadStatus(s, t, on)
      PROVE  ToldOrOwed(c)'
  <2>1. Announcing(s)'
    BY <1>1, ChangesAreAnnounced
  <2> QED
    BY <2>1 DEF ToldOrOwed
<1>2. ASSUME UNCHANGED <<participants, status>> PROVE ToldOrOwed(c)'
  <2>1. /\ participants[UserOf[c]] = c /\ participants'[UserOf[c]] = c
        /\ c \notin dropped /\ c \notin dropped' /\ writer[c] # "done"
    BY <1>0, <1>2, DroppedGrows, WriterStaysDone DEF Tracked
  <2>2. ToldOrOwed(c)
    BY <2>1 DEF ToldInv, Tracked
  <2>3. Snapshot' = Snapshot
    BY <1>2 DEF Snapshot, Members, Present
  <2>4. CASE c \in fresh
    BY <1>2, <2>4, FreshStays DEF ToldOrOwed
  <2>5. CASE ListMsg(Snapshot) \in ToSet(queue[c])
    <3>1. ~WriteFails(c)
      BY <1>0 DEF WriteFails, Tracked, TypeInv, TypeOK, HandlerTypeOK
    <3>2. \/ ListMsg(Snapshot) \in ToSet(queue'[c])
          \/ Receive(c) /\ Head(queue[c]) = ListMsg(Snapshot)
      BY <1>0, <2>5, <3>1, StaysQueued
    <3>3. ListMsg(Snapshot') = ListMsg(Snapshot)
      BY <2>3
    <3> QED
      BY <3>2, <3>3, ListIsTaken DEF ToldOrOwed
  <2>6. ASSUME NEW s \in Conns, Announcing(s) PROVE ToldOrOwed(c)'
    BY <1>2, <2>1, <2>6, AnnouncingGoesOn DEF ToldOrOwed
  <2>7. ASSUME NEW s \in Conns, Publishing(s, c) PROVE ToldOrOwed(c)'
    <3>1. /\ pc[s] \in {"publish", "lastPublish"} /\ pending[s] = ListMsg(Snapshot)
          /\ pc[s] \in Broadcasting /\ Except(s) = {} /\ UserOf[c] \in Remaining(s, Except(s))
      BY <2>7 DEF Publishing, Broadcasting, Except
    <3>2. CASE pending[s] \in ToSet(queue'[c])
      BY <2>3, <3>1, <3>2 DEF ToldOrOwed
    <3>3. CASE /\ pc'[s] = pc[s] /\ pending'[s] = pending[s]
               /\ UserOf[c] \in Remaining(s, Except(s))'
      <4>1. Except(s)' = {}
        BY <3>1, <3>3 DEF Except
      <4>2. UserOf[c] \in Remaining(s, {})'
        BY <3>3, <4>1
      <4>3. Publishing(s, c)'
        BY <2>3, <3>1, <3>3, <4>2 DEF Publishing
      <4> QED
        BY <4>3 DEF ToldOrOwed
    <3> QED
      BY <2>1, <3>1, <3>2, <3>3, BroadcastGoesOn
  <2> QED
    BY <2>2, <2>4, <2>5, <2>6, <2>7 DEF ToldOrOwed
<1> QED
  BY <1>1, <1>2, RecordsChange

(* When all is sent, every listening browser has been told the participant *)
(* list as it is: whoever changes the list owes a broadcast of a later     *)
(* snapshot, and the debt is only ever handed on, also when the one who    *)
(* owes it is thrown out, fails to be welcomed or is overtaken.            *)
THEOREM EverybodyWasToldHolds == MeetingSpec => []EverybodyWasTold
<1>1. MeetingInit => ToldInv
  <2> SUFFICES ASSUME MeetingInit, NEW c \in Conns PROVE ~Tracked(c)
    BY DEF ToldInv
  <2> QED
    BY RoomAssumption DEF MeetingInit, Init, RoomInit, Tracked
<1>2. MeetingTypeInv /\ ToldInv /\ [MeetingNext]_allVars => ToldInv'
  BY ToldInvStep
<1>3. ToldInv => EverybodyWasTold
  <2> SUFFICES ASSUME ToldInv, Settled, NEW c \in Listening PROVE c \in fresh
    BY DEF EverybodyWasTold
  <2>1. c \in Conns /\ Tracked(c) /\ queue[c] = <<>>
    BY DEF Listening, Tracked, Settled
  <2>2. ListMsg(Snapshot) \notin ToSet(queue[c])
    BY <2>1 DEF ToSet
  <2>3. \A s \in Conns : ~Announcing(s) /\ ~Publishing(s, c)
    BY DEF Settled, Fresh, Announcing, Publishing
  <2> QED
    BY <2>1, <2>2, <2>3 DEF ToldInv, ToldOrOwed
<1> QED
  BY <1>1, <1>2, <1>3, MeetingTypeInvariant, PTL DEF MeetingSpec
=============================================================================

----------------------------- MODULE ChatProofs -----------------------------
(***************************************************************************)
(* Proofs about the chat of Meeting: what a browser shows is in the order  *)
(* in which each sender sent it, and nothing the room keeps is missed.     *)
(*                                                                         *)
(* Both hold as long as the history is whole, and ChatInv says so of all   *)
(* its parts: a message can be overtaken, or fall out of the window while  *)
(* it waits in a channel, once the history has lost its first ones.        *)
(***************************************************************************)
EXTENDS MeetingProofs, FiniteSetTheorems

IsChat(m) == m.type = "chat-message"

(* The handler of s is broadcasting the chat message it has just stored.   *)
Echoing(s) == pc[s] \in Broadcasting /\ IsChat(pending[s])

(* The stages in which the server still serves a welcomed connection.      *)
Served == Joined \ {"joined", "welcome", "leaving"}

InOrder(log) ==
  \A i, j \in DOMAIN log :
    (i < j /\ log[i].sender = log[j].sender) => log[i].id < log[j].id

(* The history holds messages in the order they were read, each once.      *)
HistoryInOrder ==
  /\ Len(chatHistory) <= reads
  /\ \A i \in DOMAIN chatHistory : chatHistory[i].id < reads
  /\ \A i, j \in DOMAIN chatHistory : i < j => chatHistory[i].id < chatHistory[j].id

(* Whatever is shown, is in a channel or is being broadcast, was stored.   *)
Recorded ==
  /\ \A c \in Conns : ToSet(transcript[c]) \subseteq ToSet(chatHistory)
  /\ \A c \in Conns : \A m \in ToSet(queue[c]) : IsChat(m) => m.chat \in ToSet(chatHistory)
  /\ \A s \in Conns : Echoing(s) => pending[s].chat \in ToSet(chatHistory)

(* A message being broadcast is the last of its sender, and it is in the   *)
(* channels of those only whom the broadcast has passed.                   *)
EchoIsLast ==
  \A s \in Conns : Echoing(s) =>
    /\ pending[s].chat.sender = s
    /\ \A h \in ToSet(chatHistory) : h.sender = s => h.id <= pending[s].chat.id
    /\ \A c \in Conns : pending[s] \in ToSet(queue[c]) => s \in readers /\ UserOf[c] \notin todo[s]

(* The chat messages of one sender are in order in every channel, and      *)
(* those that are not shown yet are newer than those that are.             *)
QueueOrdered(q) ==
  \A i, j \in DOMAIN q :
    (i < j /\ IsChat(q[i]) /\ IsChat(q[j]) /\ q[i].chat.sender = q[j].chat.sender)
      => q[i].chat.id < q[j].chat.id

NewerThan(log, h) == \A t \in ToSet(log) : t.sender = h.sender => t.id < h.id

QueueIsNewer ==
  \A c \in Conns : \A m \in ToSet(queue[c]) :
    IsChat(m) => m.chat \in ToSet(transcript[c]) \/ NewerThan(transcript[c], m.chat)

(* A broadcast of h has yet to reach c. *)
OnItsWay(c, h) ==
  \E s \in Conns :
    /\ pc[s] \in Broadcasting
    /\ pending[s] = ChatMsg(h)
    /\ UserOf[c] \in Remaining(s, Except(s))

(* Every message of the history is shown by every tracked connection that  *)
(* was welcomed, or is in its channel, or is on its way there.             *)
ChatArrives ==
  \A c \in Conns : (Tracked(c) /\ pc[c] \in Served) =>
    \A h \in ToSet(chatHistory) :
      \/ h \in ToSet(transcript[c])
      \/ ChatMsg(h) \in ToSet(queue[c])
      \/ OnItsWay(c, h)

WholeChatInv ==
  /\ HistoryInOrder
  /\ Recorded
  /\ EchoIsLast
  /\ \A c \in Conns : QueueOrdered(queue[c])
  /\ \A c \in Conns : InOrder(transcript[c])
  /\ QueueIsNewer
  /\ ChatArrives

ChatInv == HistoryWhole => WholeChatInv

-----------------------------------------------------------------------------
(* The history. *)

LEMMA ChatTypes ==
  ASSUME MeetingTypeInv
  PROVE  /\ TypeInv
         /\ chatHistory \in Seq(Chats) /\ queue \in [Conns -> Seq(Messages)]
         /\ transcript \in [Conns -> Seq(Chats)]
         /\ pc \in [Conns -> Stages] /\ pending \in [Conns -> Messages \cup {NoMsg}]
         /\ participants \in [Users -> Conns \cup {NoConn}]
         /\ readers \in SUBSET Conns /\ todo \in [Conns -> SUBSET Users]
         /\ reads \in Nat /\ HistoryLimit \in Nat \ {0}
         /\ UserOf \in [Conns -> Users] /\ NoConn \notin Conns
<1>1. MaxReads \in Nat
  BY ServerAssumption
<1> QED
  BY <1>1, RoomAssumption
  DEF MeetingTypeInv, SettingInv, ServerInv, BrowserTypeOK, TypeInv, TypeOK, HandlerTypeOK,
      RoomTypeOK

(* The members of a log are its elements. *)
LEMMA ElementsOf ==
  ASSUME NEW S, NEW s \in Seq(S)
  PROVE  /\ Len(s) \in Nat /\ DOMAIN s = 1..Len(s)
         /\ \A i \in 1..Len(s) : s[i] \in S /\ s[i] \in ToSet(s)
         /\ \A x \in ToSet(s) : x \in S /\ \E i \in 1..Len(s) : s[i] = x
<1>1. Len(s) \in Nat /\ DOMAIN s = 1..Len(s) /\ \A i \in 1..Len(s) : s[i] \in S
  BY LenProperties, ElementOfSeq
<1> QED
  BY <1>1 DEF ToSet

(* A log within the limit is its own window. *)
LEMMA WindowIsWhole ==
  ASSUME NEW log \in Seq(Chats), Len(log) <= HistoryLimit
  PROVE  Window(log) = log
<1>1. Len(log) \in Nat /\ HistoryLimit \in Nat \ {0}
  BY RoomAssumption, LenProperties
<1>2. (IF Len(log) > HistoryLimit THEN Len(log) - HistoryLimit + 1 ELSE 1) = 1
  BY <1>1
<1>3. Window(log) = SubSeq(log, 1, Len(log))
  BY <1>2, Zenon DEF Window
<1> QED
  BY <1>3, SubSeqFull

LEMMA WindowIsPart ==
  ASSUME NEW log \in Seq(Chats)
  PROVE  ToSet(Window(log)) \subseteq ToSet(log)
<1> DEFINE first == IF Len(log) > HistoryLimit THEN Len(log) - HistoryLimit + 1 ELSE 1
<1>1. Len(log) \in Nat /\ HistoryLimit \in Nat \ {0} /\ DOMAIN log = 1..Len(log)
      /\ \A i \in 1..Len(log) : log[i] \in Chats
  BY RoomAssumption, LenProperties, ElementOfSeq
<1>2. first \in Nat \ {0}
  BY <1>1
<1> HIDE DEF first
<1>3. \A i \in first..Len(log) : i \in 1..Len(log) /\ log[i] \in Chats
  BY <1>1, <1>2
<1> DEFINE w == SubSeq(log, first, Len(log))
<1>4. /\ w \in Seq(Chats) /\ Len(w) = IF first <= Len(log) THEN Len(log) - first + 1 ELSE 0
      /\ \A i \in 1..(Len(log) - first + 1) : w[i] = log[first + i - 1]
  BY <1>1, <1>2, <1>3, SubSeqProperties
<1>5. w = Window(log)
  BY DEF Window, first
<1> HIDE DEF w
<1> SUFFICES ASSUME NEW x \in ToSet(w) PROVE x \in ToSet(log)
  BY <1>5
<1>6. PICK i \in 1..Len(w) : w[i] = x
  BY <1>4, ElementsOf
<1>7. first + i - 1 \in 1..Len(log) /\ x = log[first + i - 1]
  BY <1>1, <1>2, <1>4, <1>6
<1> QED
  BY <1>7, ElementsOf

(* A log whose messages have different ids below n has at most n of them.  *)
LEMMA OnceIsShort ==
  ASSUME NEW log \in Seq(Chats), NEW n \in Nat,
         \A i \in DOMAIN log : log[i].id < n,
         \A i, j \in DOMAIN log : log[i].id = log[j].id => i = j
  PROVE  Len(log) <= n
<1>1. Len(log) \in Nat /\ DOMAIN log = 1..Len(log) /\ \A i \in 1..Len(log) : log[i] \in Chats
  BY ElementsOf
<1> SUFFICES ASSUME Len(log) > n PROVE FALSE
  BY <1>1
<1> DEFINE f == [i \in 1..Len(log) |-> log[i].id]
<1>2. \A i \in 1..Len(log) : log[i].id \in Nat /\ log[i].id < n
  BY <1>1 DEF Chats
<1>3. f \in [1..Len(log) -> 0..(n - 1)]
  BY <1>2
<1>4. \A i, j \in 1..Len(log) : f[i] = f[j] => i = j
  BY <1>1
<1> HIDE DEF f
<1>5. IsFiniteSet(1..Len(log)) /\ Cardinality(1..Len(log)) = Len(log)
  <2>1. 1 \in Int /\ Len(log) \in Int
    BY <1>1
  <2> QED
    BY <1>1, <2>1, FS_Interval
<1>6. IsFiniteSet(0..(n - 1)) /\ Cardinality(0..(n - 1)) = n
  <2> DEFINE top == n - 1
  <2>1. 0 \in Int /\ top \in Int /\ top - 0 + 1 = n /\ (0 > top <=> n = 0)
    OBVIOUS
  <2> HIDE DEF top
  <2>2. IsFiniteSet(0..top) /\ Cardinality(0..top) = IF 0 > top THEN 0 ELSE top - 0 + 1
    BY <2>1, FS_Interval
  <2> QED
    BY <2>1, <2>2 DEF top
<1>7. \E i, j \in 1..Len(log) : i # j /\ f[i] = f[j]
  <2> DEFINE S == 1..Len(log)
             T == 0..(n - 1)
  <2>1. IsFiniteSet(S) /\ IsFiniteSet(T) /\ Cardinality(T) < Cardinality(S) /\ f \in [S -> T]
    BY <1>1, <1>3, <1>5, <1>6
  <2> HIDE DEF S, T
  <2>2. \E i, j \in S : i # j /\ f[i] = f[j]
    BY <2>1, FS_PigeonHole
  <2> QED
    BY <2>2 DEF S
<1> QED
  BY <1>4, <1>7

(* Two messages of the history with the same id are one. *)
LEMMA SameId ==
  ASSUME MeetingTypeInv, HistoryInOrder,
         NEW x \in ToSet(chatHistory), NEW y \in ToSet(chatHistory), x.id = y.id
  PROVE  x = y
<1>1. chatHistory \in Seq(Chats)
  BY ChatTypes
<1>2. Len(chatHistory) \in Nat /\ DOMAIN chatHistory = 1..Len(chatHistory)
  BY <1>1, ElementsOf
<1>3. PICK i \in 1..Len(chatHistory), j \in 1..Len(chatHistory) :
        chatHistory[i] = x /\ chatHistory[j] = y
  BY <1>1, ElementsOf
<1>4. x.id \in Nat /\ y.id \in Nat
  <2>1. x \in Chats /\ y \in Chats
    BY <1>1, ElementsOf
  <2> QED
    BY <2>1 DEF Chats
<1>5. ~(i < j) /\ ~(j < i)
  BY <1>2, <1>3, <1>4 DEF HistoryInOrder
<1> QED
  BY <1>2, <1>3, <1>5

(* Ids in the history are below the counter they come from. *)
LEMMA OldIds ==
  ASSUME MeetingTypeInv, HistoryInOrder, NEW h \in ToSet(chatHistory)
  PROVE  h \in Chats /\ h.id \in Nat /\ h.id < reads
<1>1. chatHistory \in Seq(Chats)
  BY ChatTypes
<1>2. PICK i \in 1..Len(chatHistory) : chatHistory[i] = h
  BY <1>1, ElementsOf
<1>3. h \in Chats /\ i \in DOMAIN chatHistory
  BY <1>1, <1>2, ElementsOf
<1> QED
  BY <1>2, <1>3 DEF HistoryInOrder, Chats

LEMMA ReadsGrow ==
  ASSUME MeetingTypeInv, [MeetingNext]_allVars
  PROVE  reads' \in Nat /\ reads <= reads'
<1>0. reads \in Nat /\ [Next]_vars
  BY ChatTypes, MeetingStepIsStep
<1>1. ASSUME NEW c \in Conns, HandlerStep(c) \/ WelcomeStep(c) PROVE reads' = reads
  BY <1>1 DEF HandlerStep, WelcomeStep, Join, ListForWelcome, Welcome, WelcomeFails, SendOne, SendNone,
              FinishBroadcast, TakeSnapshot, SendError, Depart, DepartUnnoticed, Sweep,
              DeleteRoom, handlerVars
<1>2. ASSUME NEW c \in Conns, ClientStep(c) PROVE reads' \in {reads, reads + 1}
  BY <1>2 DEF ClientStep, Accept, Refuse, Hangup, Read, ReadRelay, ReadRelayAstray, ReadStatus,
              ReadChat, ReadInvalid
<1>3. ASSUME NEW c \in Conns, WriterStep(c) PROVE reads' = reads
  BY <1>3 DEF WriterStep, Deliver, WriteFails, WriterStops, handlerVars
<1> QED
  BY <1>0, <1>1, <1>2, <1>3 DEF Next, AllOver, vars, handlerVars

LEMMA HistoryChange ==
  ASSUME [MeetingNext]_allVars
  PROVE  chatHistory' = chatHistory \/ \E s \in Conns : ReadChat(s)
<1>1. ASSUME NEW c \in Conns,
             \/ Join(c) \/ Depart(c) \/ SendError(c) \/ Receive(c) \/ WriteFails(c)
             \/ \E t \in StatusTypes : \E on \in Outcomes(t) : ReadStatus(c, t, on)
      PROVE  chatHistory' = chatHistory
  BY <1>1 DEF Join, AddParticipant, Depart, RemoveParticipant, SendError, SendTo, Receive,
              Deliver, WriteFails, Dequeue, ReadStatus, UpdateParticipant
<1>2. ASSUME NEW c \in Conns, NEW u \in Users, SendOne(c, u) \/ ReadRelay(c, u)
      PROVE  chatHistory' = chatHistory
  BY <1>2 DEF SendOne, BroadcastTo, ReadRelay, SendTo
<1>3. UNCHANGED roomVars => chatHistory' = chatHistory
  BY DEF roomVars
<1> QED
  BY <1>1, <1>2, <1>3, RoomKinds

(* A chat message that is read goes to the end of the whole history. *)
LEMMA ReadChatEffect ==
  ASSUME MeetingTypeInv, HistoryInOrder, HistoryWhole', [MeetingNext]_allVars,
         NEW s \in Conns, ReadChat(s), NEW m, m = [sender |-> s, id |-> reads]
  PROVE  /\ m \in Chats /\ reads' = reads + 1
         /\ chatHistory' = Append(chatHistory, m)
         /\ pc[s] = "reading" /\ pc' = [pc EXCEPT ![s] = "echo"]
         /\ pending' = [pending EXCEPT ![s] = ChatMsg(m)]
         /\ UNCHANGED <<participants, queue, readers, todo, transcript>>
<1>1. /\ reads' = reads + 1 /\ pc[s] = "reading" /\ pc' = [pc EXCEPT ![s] = "echo"]
      /\ pending' = [pending EXCEPT ![s] = ChatMsg(m)] /\ AppendChatMessage(m)
  BY DEF ReadChat, Read, Goto
<1>2. m \in Chats
  BY ChatTypes DEF Chats
<1>3. Append(chatHistory, m) \in Seq(Chats) /\ Len(Append(chatHistory, m)) = Len(chatHistory) + 1
  BY <1>2, ChatTypes, AppendProperties
<1>4. Len(Append(chatHistory, m)) <= HistoryLimit
  <2>1. Len(chatHistory) \in Nat /\ reads \in Nat /\ HistoryLimit \in Nat
    BY ChatTypes, LenProperties
  <2> QED
    BY <1>1, <1>3, <2>1 DEF HistoryInOrder, HistoryWhole
<1>5. Window(Append(chatHistory, m)) = Append(chatHistory, m)
  BY <1>3, <1>4, WindowIsWhole
<1>6. UNCHANGED transcript
  <2>1. ASSUME NEW c \in Conns, Greet(c) \/ Receive(c) PROVE reads' = reads
    BY <2>1 DEF Greet, Welcome, Receive, Deliver, handlerVars
  <2>2. reads' # reads
    BY <1>1, ChatTypes
  <2> QED
    BY <2>1, <2>2, BrowserSteps DEF clientVars
<1> QED
  BY <1>1, <1>2, <1>5, <1>6 DEF AppendChatMessage

LEMMA HistoryInOrderStep ==
  ASSUME MeetingTypeInv, HistoryInOrder, HistoryWhole', [MeetingNext]_allVars
  PROVE  HistoryInOrder'
<1>0. Len(chatHistory) \in Nat /\ DOMAIN chatHistory = 1..Len(chatHistory) /\ reads \in Nat
  BY ChatTypes, LenProperties
<1>1. \A i \in 1..Len(chatHistory) : chatHistory[i].id \in Nat
  <2>1. \A i \in 1..Len(chatHistory) : chatHistory[i] \in Chats
    BY ChatTypes, ElementsOf
  <2> QED
    BY <2>1 DEF Chats
<1>2. ASSUME chatHistory' = chatHistory PROVE HistoryInOrder'
  BY <1>0, <1>1, <1>2, ReadsGrow DEF HistoryInOrder
<1>3. ASSUME NEW s \in Conns, ReadChat(s) PROVE HistoryInOrder'
  <2> DEFINE m == [sender |-> s, id |-> reads]
             n == Len(chatHistory)
  <2>1. m \in Chats /\ m.id = reads /\ reads' = reads + 1 /\ chatHistory' = Append(chatHistory, m)
    BY <1>3, ReadChatEffect
  <2> HIDE DEF m
  <2>2. /\ Len(chatHistory') = n + 1 /\ DOMAIN chatHistory' = 1..(n + 1)
        /\ \A i \in 1..n : chatHistory'[i] = chatHistory[i]
        /\ chatHistory'[n + 1] = m
    BY <2>1, ChatTypes, AppendProperties, LenProperties
  <2>3. n <= reads /\ \A i \in 1..n : chatHistory[i].id < reads
    BY <1>0 DEF HistoryInOrder
  <2>4. \A i, j \in 1..n : i < j => chatHistory[i].id < chatHistory[j].id
    BY <1>0 DEF HistoryInOrder
  <2>5. \A i \in 1..(n + 1) : i \in 1..n \/ i = n + 1
    BY <1>0
  <2> HIDE DEF n
  <2>6. \A i \in 1..(n + 1) : chatHistory'[i].id < reads'
    BY <1>0, <1>1, <2>1, <2>2, <2>3, <2>5 DEF n
  <2>7. ASSUME NEW i \in 1..(n + 1), NEW j \in 1..(n + 1), i < j
        PROVE  chatHistory'[i].id < chatHistory'[j].id
    <3>1. n \in Nat
      BY <1>0 DEF n
    <3>2. i \in 1..n
      BY <2>7, <3>1
    <3>3. CASE j \in 1..n
      BY <2>2, <2>4, <2>7, <3>2, <3>3
    <3>4. CASE j = n + 1
      BY <2>1, <2>2, <2>3, <3>2, <3>4
    <3> QED
      BY <2>5, <3>3, <3>4
  <2>8. Len(chatHistory') <= reads'
    BY <1>0, <2>1, <2>2, <2>3 DEF n
  <2> QED
    BY <2>2, <2>6, <2>7, <2>8 DEF HistoryInOrder
<1> QED
  BY <1>2, <1>3, HistoryChange

(* The history only grows. *)
LEMMA HistoryGrows ==
  ASSUME MeetingTypeInv, HistoryInOrder, HistoryWhole', [MeetingNext]_allVars
  PROVE  ToSet(chatHistory) \subseteq ToSet(chatHistory')
<1>1. ASSUME NEW s \in Conns, ReadChat(s) PROVE ToSet(chatHistory) \subseteq ToSet(chatHistory')
  <2>1. PICK m \in Chats : chatHistory' = Append(chatHistory, m)
    BY <1>1, ReadChatEffect
  <2> QED
    BY <2>1, ChatTypes, AppendedIn
<1> QED
  BY <1>1, HistoryChange

-----------------------------------------------------------------------------
(* The handlers, the channels and what is shown. *)

(* A chat message is broadcast only after it was read. *)
LEMMA ComesToEcho ==
  ASSUME TypeInv, [MeetingNext]_allVars, NEW s \in Conns, Echoing(s)'
  PROVE  ReadChat(s) \/ (Echoing(s) /\ pending'[s] = pending[s])
<1>0. pc \in [Conns -> Stages] /\ pending \in [Conns -> Messages \cup {NoMsg}]
  BY DEF TypeInv, TypeOK, HandlerTypeOK
<1>1. pc'[s] \in Broadcasting /\ pending'[s].type = "chat-message"
  BY DEF Echoing, IsChat
<1>2. ~(SendNone(s) \/ \E u \in Users : SendOne(s, u) /\ FinishBroadcast(s))
  BY <1>0, <1>1, AfterBroadcastStage DEF SendNone, SendOne, FinishBroadcast
<1>3. ~(Greet(s) \/ Depart(s) \/ TakeSnapshot(s))
  <2>1. ASSUME NEW m, m.type # "chat-message", pending' = [pending EXCEPT ![s] = m] PROVE FALSE
    BY <1>0, <1>1, <2>1
  <2>2. /\ PeerMsg("peer-joined", UserOf[s]).type # "chat-message"
        /\ PeerMsg("peer-left", UserOf[s]).type # "chat-message"
        /\ ListMsg(Snapshot).type # "chat-message"
    BY DEF PeerMsg, ListMsg
  <2> QED
    BY <2>1, <2>2 DEF Greet, Welcome, Depart, TakeSnapshot
<1>4. ASSUME NEW t \in StatusTypes, NEW on \in Outcomes(t), ReadStatus(s, t, on) PROVE FALSE
  <2>1. pending'[s].type = t
    BY <1>0, <1>4 DEF ReadStatus, StatusMsg
  <2> QED
    BY <1>1, <2>1 DEF StatusTypes
<1>5. ASSUME \/ Accept(s) \/ Refuse(s) \/ Join(s) \/ ListForWelcome(s) \/ WelcomeFails(s)
             \/ ReadRelayAstray(s) \/ ReadInvalid(s) \/ SendError(s) \/ Hangup(s)
             \/ DepartUnnoticed(s) \/ Sweep(s) \/ DeleteRoom(s)
      PROVE  FALSE
  <2>1. \E from : \E to \in {"accepted", "refused", "joined", "welcome", "leaving", "refuse",
                             "reading", "closed", "delete"} : Goto(s, from, to)
    BY <1>5 DEF Accept, Refuse, Join, ListForWelcome, WelcomeFails, ReadRelayAstray, ReadInvalid,
                SendError, Hangup, DepartUnnoticed, Sweep, DeleteRoom
  <2> QED
    BY <1>0, <1>1, <2>1 DEF Goto, Broadcasting
<1>6. pc'[s] = pc[s] /\ pending'[s] = pending[s] => Echoing(s)
  BY <1>1 DEF Echoing, IsChat
<1> QED
  BY <1>2, <1>3, <1>4, <1>5, <1>6, MoveKinds

(* A connection is served from its welcome on. *)
LEMMA ComesToServed ==
  ASSUME TypeInv, [MeetingNext]_allVars, NEW c \in Conns, pc'[c] \in Served
  PROVE  Greet(c) \/ pc[c] \in Served
<1>0. pc \in [Conns -> Stages]
  BY DEF TypeInv, TypeOK, HandlerTypeOK
<1>1. CASE SendNone(c) \/ \E u \in Users : SendOne(c, u) /\ FinishBroadcast(c)
  <2>1. pc[c] \in Broadcasting /\ FinishBroadcast(c)
    BY <1>1 DEF SendNone, SendOne
  <2>2. pc'[c] = AfterBroadcast(c) /\ pc[c] \in Joined
    BY <1>0, <2>1, AfterBroadcastStage DEF FinishBroadcast, Served
  <2> QED
    BY <2>1, <2>2 DEF Served, Broadcasting
<1>2. CASE \/ Accept(c) \/ Refuse(c) \/ Join(c) \/ ListForWelcome(c) \/ WelcomeFails(c)
           \/ Hangup(c) \/ Depart(c) \/ DepartUnnoticed(c) \/ Sweep(c) \/ DeleteRoom(c)
  <2>1. \E from : \E to \in {"accepted", "refused", "joined", "welcome", "leaving", "farewell",
                             "closed", "delete"} : Goto(c, from, to)
    BY <1>2 DEF Accept, Refuse, Join, ListForWelcome, WelcomeFails, Hangup, Depart,
                DepartUnnoticed, Sweep, DeleteRoom
  <2> QED
    BY <1>0, <2>1 DEF Goto, Served, Joined
<1>3. CASE \/ ReadRelayAstray(c) \/ ReadInvalid(c) \/ ReadChat(c) \/ SendError(c)
           \/ \E t \in StatusTypes : \E on \in Outcomes(t) : ReadStatus(c, t, on)
  <2>1. \E from \in {"reading", "refuse"} : \E to : Goto(c, from, to)
    BY <1>3 DEF ReadRelayAstray, ReadInvalid, ReadChat, ReadStatus, SendError
  <2> QED
    BY <2>1 DEF Goto, Served, Joined
<1>4. CASE TakeSnapshot(c)
  <2>1. Goto(c, "snapshot", "publish") \/ Goto(c, "lastSnapshot", "lastPublish")
    BY <1>4 DEF TakeSnapshot
  <2> QED
    BY <1>0, <2>1 DEF Goto, Served, Joined
<1> QED
  BY <1>1, <1>2, <1>3, <1>4, MoveKinds

(* A message that a channel is given, and who gave it if it is a chat      *)
(* message.                                                                *)
Given(c, m) ==
  /\ m \in Messages
  /\ queue'[c] = Append(queue[c], m)
  /\ IsChat(m) => \E s \in Conns : Echoing(s) /\ m = pending[s] /\ SendOne(s, UserOf[c])

LEMMA SendKinds ==
  ASSUME MeetingTypeInv, NEW c \in Conns,
         \/ \E d \in Conns, u \in Users : SendOne(d, u) \/ ReadRelay(d, u)
         \/ \E d \in Conns : SendError(d)
  PROVE  queue'[c] = queue[c] \/ \E m : Given(c, m)
<1>0. /\ TypeInv /\ queue \in [Conns -> Seq(Messages)]
      /\ participants \in [Users -> Conns \cup {NoConn}] /\ UserOf \in [Conns -> Users]
  BY ChatTypes
<1>1. ASSUME NEW u \in Users, NEW m \in Messages, Present(u), TrySend(u, m)
      PROVE  \/ queue'[c] = queue[c]
             \/ participants[u] = c /\ queue'[c] = Append(queue[c], m)
  BY <1>0, <1>1, TrySendEffect
<1>2. ASSUME NEW u \in Users, NEW m \in Messages, ~IsChat(m), SendTo(u, m)
      PROVE  queue'[c] = queue[c] \/ \E m2 : Given(c, m2)
  BY <1>1, <1>2 DEF SendTo, Given
<1>3. ASSUME NEW d \in Conns, NEW u \in Users, SendOne(d, u)
      PROVE  queue'[c] = queue[c] \/ \E m2 : Given(c, m2)
  <2>1. /\ pc[d] \in Broadcasting /\ pending[d] \in Messages /\ TrySend(u, pending[d])
        /\ u \in Remaining(d, Except(d))
    BY <1>0, <1>3 DEF SendOne, BroadcastTo, TypeInv, PendingIsMessage
  <2>2. Present(u)
    BY <1>0, <2>1, RemainingArePresent DEF TypeInv, TypeOK, BroadcastReachesPresent, Members
  <2>3. CASE participants[u] = c /\ queue'[c] = Append(queue[c], pending[d])
    <3>1. UserOf[c] = u
      BY <2>2, <2>3
      DEF MeetingTypeInv, SettingInv, ServerInv, SessionInv, RegisteredIsLive, Members
    <3>2. Given(c, pending[d])
      BY <1>3, <2>1, <2>3, <3>1 DEF Given, Echoing
    <3> QED
      BY <3>2
  <2> QED
    BY <1>1, <2>1, <2>2, <2>3
<1>4. ASSUME NEW d \in Conns, NEW u \in Users, ReadRelay(d, u)
      PROVE  queue'[c] = queue[c] \/ \E m2 : Given(c, m2)
  <2>1. PICK t \in RelayTypes : SendTo(u, PeerMsg(t, UserOf[d]))
    BY <1>4 DEF ReadRelay
  <2>2. PeerMsg(t, UserOf[d]) \in Messages /\ ~IsChat(PeerMsg(t, UserOf[d]))
    BY <1>0, PeerMsgType DEF PeerMsg, IsChat, RelayTypes
  <2> QED
    BY <1>2, <2>1, <2>2
<1>5. ASSUME NEW d \in Conns, SendError(d)
      PROVE  queue'[c] = queue[c] \/ \E m2 : Given(c, m2)
  <2>1. ErrorMsg \in Messages /\ ~IsChat(ErrorMsg)
    BY ErrorMsgType DEF ErrorMsg, IsChat
  <2> QED
    BY <1>0, <1>2, <1>5, <2>1 DEF SendError
<1> QED
  BY <1>3, <1>4, <1>5

(* What a step does to the channel and the messages shown at the end of a  *)
(* connection.                                                             *)
Stands(c)  == transcript'[c] = transcript[c] /\ queue'[c] = queue[c]
Greeted(c) == Greet(c) /\ transcript'[c] = chatHistory /\ queue'[c] = queue[c]
Taken(c) ==
  /\ queue[c] # <<>> /\ queue'[c] = Tail(queue[c])
  /\ \/ Receive(c) /\ transcript'[c] = Shown(transcript[c], Head(queue[c]))
     \/ WriteFails(c) /\ transcript'[c] = transcript[c]
Sent(c) == transcript'[c] = transcript[c] /\ \E m : Given(c, m)

LEMMA ChatKinds ==
  ASSUME MeetingTypeInv, [MeetingNext]_allVars, NEW c \in Conns
  PROVE  Stands(c) \/ Greeted(c) \/ Taken(c) \/ Sent(c)
<1>0. transcript \in [Conns -> Seq(Chats)] /\ queue \in [Conns -> Seq(Messages)]
  BY ChatTypes
<1>1. ASSUME NEW d \in Conns, Greet(d) PROVE Stands(c) \/ Greeted(c)
  <2>1. queue' = queue /\ transcript' = [transcript EXCEPT ![d] = chatHistory]
    BY <1>1 DEF Greet, Welcome, OnWelcome, roomVars
  <2> QED
    BY <1>0, <1>1, <2>1 DEF Stands, Greeted
<1>2. ASSUME NEW d \in Conns, Receive(d) PROVE Stands(c) \/ Taken(c)
  <2>1. /\ queue[d] # <<>> /\ queue' = [queue EXCEPT ![d] = Tail(queue[d])]
        /\ transcript' = [transcript EXCEPT ![d] = Shown(transcript[d], Head(queue[d]))]
    BY <1>2 DEF Receive, Deliver, Dequeue, OnMessage
  <2> QED
    BY <1>0, <1>2, <2>1 DEF Stands, Taken
<1>3. ASSUME UNCHANGED clientVars PROVE Stands(c) \/ Taken(c) \/ Sent(c)
  <2>1. transcript'[c] = transcript[c]
    BY <1>3 DEF clientVars
  <2>2. CASE \/ \E d \in Conns, u \in Users : SendOne(d, u) \/ ReadRelay(d, u)
             \/ \E d \in Conns : SendError(d)
    BY <2>1, <2>2, SendKinds DEF Stands, Sent
  <2>3. ASSUME NEW d \in Conns, Receive(d) PROVE Stands(c) \/ Taken(c)
    BY <1>2, <2>3
  <2>4. ASSUME NEW d \in Conns, WriteFails(d) PROVE Stands(c) \/ Taken(c)
    <3>1. queue[d] # <<>> /\ queue' = [queue EXCEPT ![d] = Tail(queue[d])]
      BY <2>4 DEF WriteFails, Dequeue
    <3> QED
      BY <1>0, <2>1, <2>4, <3>1 DEF Stands, Taken
  <2>5. ASSUME NEW d \in Conns,
               \/ Join(d) \/ Depart(d) \/ ReadChat(d)
               \/ \E t \in StatusTypes : \E on \in Outcomes(t) : ReadStatus(d, t, on)
        PROVE  queue' = queue
    BY <2>5 DEF Join, AddParticipant, Depart, RemoveParticipant, ReadChat, AppendChatMessage,
                ReadStatus, UpdateParticipant
  <2>6. UNCHANGED roomVars => queue' = queue
    BY DEF roomVars
  <2>7. queue' = queue => Stands(c)
    BY <2>1 DEF Stands
  <2> QED
    BY <2>2, <2>3, <2>4, <2>5, <2>6, <2>7, RoomKinds
<1> QED
  BY <1>1, <1>2, <1>3, BrowserSteps

-----------------------------------------------------------------------------
(* Order in a log and in a channel. *)

LEMMA InOrderAppend ==
  ASSUME NEW log \in Seq(Chats), InOrder(log), NEW x \in Chats, NewerThan(log, x)
  PROVE  InOrder(Append(log, x))
<1> DEFINE n == Len(log)
           new == Append(log, x)
<1>1. /\ n \in Nat /\ DOMAIN log = 1..n /\ DOMAIN new = 1..(n + 1)
      /\ \A i \in 1..n : new[i] = log[i] /\ log[i] \in ToSet(log)
      /\ new[n + 1] = x
  BY AppendProperties, LenProperties, ElementsOf
<1> HIDE DEF n, new
<1> SUFFICES ASSUME NEW i \in 1..(n + 1), NEW j \in 1..(n + 1), i < j,
                    new[i].sender = new[j].sender
             PROVE  new[i].id < new[j].id
  BY <1>1 DEF InOrder, new
<1>2. i \in 1..n /\ (j \in 1..n \/ j = n + 1)
  BY <1>1
<1>3. CASE j \in 1..n
  BY <1>1, <1>2, <1>3 DEF InOrder
<1>4. CASE j = n + 1
  BY <1>1, <1>2, <1>4 DEF NewerThan
<1> QED
  BY <1>2, <1>3, <1>4

LEMMA QueueAppend ==
  ASSUME NEW q \in Seq(Messages), QueueOrdered(q), NEW m \in Messages,
         \A y \in ToSet(q) :
           (IsChat(m) /\ IsChat(y) /\ y.chat.sender = m.chat.sender) => y.chat.id < m.chat.id
  PROVE  QueueOrdered(Append(q, m))
<1> DEFINE n == Len(q)
           new == Append(q, m)
<1>1. /\ n \in Nat /\ DOMAIN q = 1..n /\ DOMAIN new = 1..(n + 1)
      /\ \A i \in 1..n : new[i] = q[i] /\ q[i] \in ToSet(q)
      /\ new[n + 1] = m
  BY AppendProperties, LenProperties, ElementsOf
<1> HIDE DEF n, new
<1> SUFFICES ASSUME NEW i \in 1..(n + 1), NEW j \in 1..(n + 1), i < j,
                    IsChat(new[i]), IsChat(new[j]), new[i].chat.sender = new[j].chat.sender
             PROVE  new[i].chat.id < new[j].chat.id
  BY <1>1 DEF QueueOrdered, new
<1>2. i \in 1..n /\ (j \in 1..n \/ j = n + 1)
  BY <1>1
<1>3. CASE j \in 1..n
  BY <1>1, <1>2, <1>3 DEF QueueOrdered
<1>4. CASE j = n + 1
  BY <1>1, <1>2, <1>4
<1> QED
  BY <1>2, <1>3, <1>4

(* What is behind the head of an ordered channel is newer than the head.   *)
LEMMA QueueTail ==
  ASSUME NEW q \in Seq(Messages), q # <<>>, QueueOrdered(q)
  PROVE  /\ QueueOrdered(Tail(q))
         /\ \A m \in ToSet(Tail(q)) :
              (IsChat(m) /\ IsChat(Head(q)) /\ m.chat.sender = Head(q).chat.sender)
                => Head(q).chat.id < m.chat.id
<1> DEFINE n == Len(q) - 1
           rest == Tail(q)
<1>1. /\ n \in Nat /\ DOMAIN q = 1..(n + 1) /\ DOMAIN rest = 1..n /\ rest \in Seq(Messages)
      /\ Len(rest) = n /\ \A i \in 1..n : rest[i] = q[i + 1]
      /\ Head(q) = q[1]
  <2>1. Len(q) \in Nat \ {0} /\ DOMAIN q = 1..Len(q)
    BY EmptySeq, LenProperties
  <2>2. /\ rest \in Seq(Messages) /\ Len(rest) = Len(q) - 1
        /\ \A i \in 1..Len(rest) : rest[i] = q[i + 1]
    BY HeadTailProperties
  <2>3. DOMAIN rest = 1..Len(rest)
    BY <2>2, LenProperties
  <2> QED
    BY <2>1, <2>2, <2>3
<1> HIDE DEF n, rest
<1>2. \A i \in 1..n : i + 1 \in 1..(n + 1) /\ 1 < i + 1
  BY <1>1
<1>3. 1 \in 1..(n + 1)
  BY <1>1
<1>4. ASSUME NEW i \in 1..n, NEW j \in 1..n, i < j,
             IsChat(rest[i]), IsChat(rest[j]), rest[i].chat.sender = rest[j].chat.sender
      PROVE  rest[i].chat.id < rest[j].chat.id
  <2>1. i + 1 < j + 1
    BY <1>1, <1>4
  <2> QED
    BY <1>1, <1>2, <1>4, <2>1 DEF QueueOrdered
<1>5. ASSUME NEW m \in ToSet(rest), IsChat(m), IsChat(q[1]), m.chat.sender = q[1].chat.sender
      PROVE  q[1].chat.id < m.chat.id
  <2>1. PICK i \in 1..n : rest[i] = m
    BY <1>1, ElementsOf
  <2> QED
    BY <1>1, <1>2, <1>3, <1>5, <2>1 DEF QueueOrdered
<1>6. QueueOrdered(rest)
  BY <1>1, <1>4 DEF QueueOrdered
<1> QED
  BY <1>1, <1>5, <1>6 DEF rest

(* What is shown was stored, hence shown once. *)
LEMMA ShownOnce ==
  ASSUME MeetingTypeInv, WholeChatInv, NEW c \in Conns
  PROVE  \A i, j \in DOMAIN transcript[c] : transcript[c][i].id = transcript[c][j].id => i = j
<1> DEFINE t == transcript[c]
<1>1. t \in Seq(Chats) /\ InOrder(t) /\ ToSet(t) \subseteq ToSet(chatHistory)
  BY ChatTypes DEF WholeChatInv, Recorded
<1> HIDE DEF t
<1>2. Len(t) \in Nat /\ DOMAIN t = 1..Len(t) /\ \A i \in 1..Len(t) : t[i] \in Chats
  BY <1>1, ElementsOf
<1> SUFFICES ASSUME NEW i \in DOMAIN t, NEW j \in DOMAIN t, t[i].id = t[j].id
             PROVE  i = j
  BY DEF t
<1>3. t[i] \in ToSet(chatHistory) /\ t[j] \in ToSet(chatHistory)
  BY <1>1 DEF ToSet
<1>4. t[i] = t[j]
  BY <1>3, SameId DEF WholeChatInv
<1>5. t[i].id \in Nat
  BY <1>2 DEF Chats
<1>6. ~(i < j) /\ ~(j < i)
  BY <1>1, <1>4, <1>5 DEF InOrder
<1> QED
  BY <1>2, <1>6

(* A message that is received is shown already, or is put at the end.      *)
LEMMA ShownEffect ==
  ASSUME MeetingTypeInv, WholeChatInv, HistoryWhole, NEW c \in Conns, queue[c] # <<>>,
         NEW m, m = Head(queue[c]), NEW t, t = transcript[c]
  PROVE  \/ Shown(t, m) = t /\ (IsChat(m) => m.chat \in ToSet(t))
         \/ /\ IsChat(m) /\ m.chat \in Chats /\ m.chat \notin ToSet(t)
            /\ Shown(t, m) = Append(t, m.chat)
<1>1. t \in Seq(Chats) /\ queue[c] \in Seq(Messages) /\ ToSet(t) \subseteq ToSet(chatHistory)
      /\ \A i, j \in DOMAIN t : t[i].id = t[j].id => i = j
  BY ChatTypes, ShownOnce DEF WholeChatInv, Recorded
<1>2. m \in Messages /\ m \in ToSet(queue[c])
  BY <1>1, HeadTailProperties, TailIn
<1>3. CASE ~IsChat(m)
  BY <1>3 DEF Shown, IsChat
<1>4. ASSUME IsChat(m), NEW i \in DOMAIN t, t[i].id = m.chat.id
      PROVE  Shown(t, m) = t /\ m.chat \in ToSet(t)
  <2>1. m.chat \in ToSet(chatHistory) /\ t[i] \in ToSet(chatHistory) /\ t[i] \in ToSet(t)
    BY <1>1, <1>2, <1>4 DEF WholeChatInv, Recorded, ToSet
  <2>2. m.chat = t[i]
    BY <1>4, <2>1, SameId DEF WholeChatInv
  <2> QED
    BY <1>4, <2>1, <2>2 DEF Shown
<1>5. ASSUME IsChat(m), \A i \in DOMAIN t : t[i].id # m.chat.id
      PROVE  /\ m.chat \in Chats /\ m.chat \notin ToSet(t)
             /\ Shown(t, m) = Append(t, m.chat)
  <2> DEFINE x == m.chat
             n == Len(t)
             new == Append(t, x)
  <2>1. x \in Chats /\ x \in ToSet(chatHistory)
    BY <1>2, <1>5, MessageFields DEF WholeChatInv, Recorded, IsChat
  <2>2. x \notin ToSet(t)
    BY <1>5 DEF ToSet
  <2> HIDE DEF x
  <2>3. /\ n \in Nat /\ DOMAIN t = 1..n /\ new \in Seq(Chats) /\ DOMAIN new = 1..(n + 1)
        /\ \A i \in 1..n : new[i] = t[i] /\ t[i] \in ToSet(chatHistory)
        /\ new[n + 1] = x
    BY <1>1, <2>1, AppendProperties, LenProperties, ElementsOf
  <2> HIDE DEF n, new
  <2>4. \A i \in 1..(n + 1) : i \in 1..n \/ i = n + 1
    BY <2>3
  <2>5. \A i \in DOMAIN new : new[i].id < reads
    BY <2>1, <2>3, <2>4, OldIds DEF WholeChatInv
  <2>6. ASSUME NEW i \in 1..(n + 1), NEW j \in 1..(n + 1), new[i].id = new[j].id
        PROVE  i = j
    <3>1. \A k \in 1..n : t[k].id # x.id
      BY <1>5, <2>3 DEF x
    <3>2. CASE i \in 1..n /\ j \in 1..n
      BY <1>1, <2>3, <2>6, <3>2
    <3>3. CASE i = n + 1 /\ j \in 1..n
      BY <2>3, <2>6, <3>1, <3>3
    <3>4. CASE i \in 1..n /\ j = n + 1
      BY <2>3, <2>6, <3>1, <3>4
    <3> QED
      BY <2>4, <3>2, <3>3, <3>4
  <2>7. Len(new) <= reads
    BY <2>3, <2>5, <2>6, ChatTypes, OnceIsShort
  <2>8. Len(new) <= HistoryLimit
    <3>1. Len(new) \in Nat /\ reads \in Nat /\ HistoryLimit \in Nat
      BY <2>3, ChatTypes, LenProperties
    <3> QED
      BY <2>7, <3>1 DEF HistoryWhole
  <2>9. Window(new) = new
    BY <2>3, <2>8, WindowIsWhole
  <2>10. Shown(t, m) = Window(Append(t, m.chat))
    BY <1>5 DEF Shown, IsChat
  <2> QED
    BY <2>1, <2>2, <2>9, <2>10 DEF x, new
<1> QED
  BY <1>3, <1>4, <1>5

-----------------------------------------------------------------------------
(* The parts of the invariant, one by one. *)

LEMMA RecordedStep ==
  ASSUME MeetingTypeInv, WholeChatInv, HistoryWhole, HistoryWhole', [MeetingNext]_allVars
  PROVE  Recorded'
<1> DEFINE H == ToSet(chatHistory)
<1>0. /\ TypeInv /\ queue \in [Conns -> Seq(Messages)] /\ transcript \in [Conns -> Seq(Chats)]
      /\ H \subseteq ToSet(chatHistory')
  BY ChatTypes, HistoryGrows DEF WholeChatInv
<1>1. /\ \A c \in Conns : ToSet(transcript[c]) \subseteq H
      /\ \A c \in Conns : \A m \in ToSet(queue[c]) : IsChat(m) => m.chat \in H
      /\ \A s \in Conns : Echoing(s) => pending[s].chat \in H
  BY DEF WholeChatInv, Recorded
<1> HIDE DEF H
<1>2. ASSUME NEW c \in Conns PROVE ToSet(transcript'[c]) \subseteq ToSet(chatHistory')
  <2>1. CASE transcript'[c] = transcript[c]
    BY <1>0, <1>1, <2>1
  <2>2. CASE Greeted(c)
    BY <1>0, <2>2 DEF Greeted, H
  <2>3. CASE Taken(c) /\ transcript'[c] = Shown(transcript[c], Head(queue[c]))
    <3> DEFINE m == Head(queue[c])
               t == transcript[c]
    <3>1. queue[c] # <<>> /\ t \in Seq(Chats) /\ m \in ToSet(queue[c])
      BY <1>0, <2>3, TailIn DEF Taken
    <3>2. \/ Shown(t, m) = t
          \/ IsChat(m) /\ m.chat \in Chats /\ Shown(t, m) = Append(t, m.chat)
      BY <3>1, ShownEffect
    <3>3. transcript'[c] = Shown(t, m)
      BY <2>3
    <3> HIDE DEF m, t
    <3>4. CASE Shown(t, m) = t
      BY <1>0, <1>1, <3>3, <3>4 DEF t
    <3>5. CASE IsChat(m) /\ m.chat \in Chats /\ Shown(t, m) = Append(t, m.chat)
      <4>1. m.chat \in H /\ ToSet(t) \subseteq H
        BY <1>1, <3>1, <3>5 DEF t
      <4>2. \A y \in ToSet(Append(t, m.chat)) : y \in ToSet(t) \/ y = m.chat
        BY <3>1, <3>5, AppendedIn
      <4> QED
        BY <1>0, <3>3, <3>5, <4>1, <4>2
    <3> QED
      BY <3>2, <3>4, <3>5
  <2> QED
    BY <2>1, <2>2, <2>3, ChatKinds DEF Stands, Taken, Sent
<1>3. ASSUME NEW c \in Conns, NEW m \in ToSet(queue'[c]), IsChat(m)
      PROVE  m.chat \in ToSet(chatHistory')
  <2>1. CASE m \in ToSet(queue[c])
    BY <1>0, <1>1, <1>3, <2>1
  <2>2. CASE Taken(c)
    <3>1. m \in ToSet(queue[c])
      BY <1>0, <2>2, TailIn DEF Taken
    <3> QED
      BY <2>1, <3>1
  <2>3. ASSUME NEW x, Given(c, x) PROVE m.chat \in ToSet(chatHistory')
    <3>1. m \in ToSet(queue[c]) \/ m = x
      BY <1>0, <2>3, AppendedIn DEF Given
    <3>2. ASSUME m = x PROVE m.chat \in H
      BY <1>1, <1>3, <2>3, <3>2 DEF Given
    <3> QED
      BY <1>0, <2>1, <3>1, <3>2
  <2> QED
    BY <2>1, <2>2, <2>3, ChatKinds DEF Stands, Greeted, Sent
<1>4. ASSUME NEW s \in Conns, Echoing(s)' PROVE pending'[s].chat \in ToSet(chatHistory')
  <2>1. CASE ReadChat(s)
    <3> DEFINE m == [sender |-> s, id |-> reads]
    <3>1. /\ m \in Chats /\ chatHistory' = Append(chatHistory, m)
          /\ pending' = [pending EXCEPT ![s] = ChatMsg(m)]
      BY <2>1, ReadChatEffect DEF WholeChatInv
    <3> HIDE DEF m
    <3>2. pending'[s].chat = m
      BY <3>1, ChatTypes DEF ChatMsg
    <3>3. m \in ToSet(Append(chatHistory, m))
      BY <3>1, ChatTypes, AppendedIn
    <3> QED
      BY <3>1, <3>2, <3>3
  <2>2. CASE Echoing(s) /\ pending'[s] = pending[s]
    BY <1>0, <1>1, <2>2
  <2> QED
    BY <1>0, <1>4, <2>1, <2>2, ComesToEcho
<1> QED
  BY <1>2, <1>3, <1>4 DEF Recorded

(* A broadcast that passes a user and is not over remembers it. *)
LEMMA EchoPasses ==
  ASSUME MeetingTypeInv, NEW s \in Conns, NEW u \in Users, SendOne(s, u), Echoing(s)'
  PROVE  /\ s \in readers' /\ u \notin todo'[s]
         /\ s \in readers => todo'[s] \subseteq todo[s]
<1> DEFINE left == Remaining(s, Except(s))
<1>0. pc \in [Conns -> Stages] /\ todo \in [Conns -> SUBSET Users] /\ TypeInv
  BY ChatTypes
<1>1. /\ pc[s] \in Broadcasting /\ u \in left /\ todo' = [todo EXCEPT ![s] = left \ {u}]
      /\ readers' = IF left = {u} THEN readers \ {s} ELSE readers \cup {s}
      /\ left = {u} => FinishBroadcast(s)
  BY DEF SendOne, BroadcastTo
<1>2. s \in readers => left = todo[s]
  BY DEF Remaining
<1> HIDE DEF left
<1>3. left # {u}
  BY <1>0, <1>1, AfterBroadcastStage DEF FinishBroadcast, Echoing
<1> QED
  BY <1>0, <1>1, <1>2, <1>3

LEMMA EchoIsLastStep ==
  ASSUME MeetingTypeInv, WholeChatInv, HistoryWhole, HistoryWhole', [MeetingNext]_allVars
  PROVE  EchoIsLast'
<1>0. /\ TypeInv /\ [Next]_vars /\ HistoryInOrder /\ queue \in [Conns -> Seq(Messages)]
      /\ pending \in [Conns -> Messages \cup {NoMsg}] /\ pc \in [Conns -> Stages]
      /\ readers \in SUBSET Conns /\ todo \in [Conns -> SUBSET Users]
      /\ chatHistory \in Seq(Chats) /\ reads \in Nat /\ UserOf \in [Conns -> Users]
  BY ChatTypes, MeetingStepIsStep DEF WholeChatInv
<1>1. /\ \A c \in Conns : \A m \in ToSet(queue[c]) : IsChat(m) => m.chat \in ToSet(chatHistory)
      /\ \A s \in Conns : Echoing(s) => pending[s].chat \in ToSet(chatHistory)
      /\ \A s \in Conns : Echoing(s) => pending[s].chat.sender = s
  BY DEF WholeChatInv, Recorded, EchoIsLast
<1> SUFFICES ASSUME NEW s \in Conns, Echoing(s)'
             PROVE  /\ pending'[s].chat.sender = s
                    /\ \A h \in ToSet(chatHistory') : h.sender = s => h.id <= pending'[s].chat.id
                    /\ \A c \in Conns : pending'[s] \in ToSet(queue'[c])
                                          => s \in readers' /\ UserOf[c] \notin todo'[s]
  BY DEF EchoIsLast
<1>2. CASE ReadChat(s)
  <2> DEFINE m == [sender |-> s, id |-> reads]
  <2>1. /\ m \in Chats /\ chatHistory' = Append(chatHistory, m) /\ queue' = queue
        /\ pending' = [pending EXCEPT ![s] = ChatMsg(m)]
    BY <1>0, <1>2, ReadChatEffect
  <2>2. m.sender = s /\ m.id = reads
    OBVIOUS
  <2> HIDE DEF m
  <2>3. pending'[s].chat = m /\ IsChat(pending'[s])
    BY <1>0, <2>1 DEF ChatMsg, IsChat
  <2>4. ASSUME NEW h \in ToSet(chatHistory') PROVE h.id <= m.id
    <3>1. h \in ToSet(chatHistory) \/ h = m
      BY <1>0, <2>1, AppendedIn
    <3>2. h \in ToSet(chatHistory) => h.id \in Nat /\ h.id < reads
      BY <1>0, OldIds
    <3> QED
      BY <1>0, <2>2, <3>1, <3>2
  <2>5. ASSUME NEW c \in Conns PROVE pending'[s] \notin ToSet(queue'[c])
    <3>1. m \notin ToSet(chatHistory)
      BY <1>0, <2>2, OldIds
    <3> QED
      BY <1>1, <2>1, <2>3, <3>1
  <2> QED
    BY <2>2, <2>3, <2>4, <2>5
<1>3. CASE Echoing(s) /\ pending'[s] = pending[s]
  <2>1. pending'[s].chat.sender = s
    BY <1>1, <1>3
  <2>2. ASSUME NEW h \in ToSet(chatHistory'), h.sender = s PROVE h.id <= pending'[s].chat.id
    <3>1. CASE chatHistory' = chatHistory
      BY <1>3, <2>2, <3>1 DEF WholeChatInv, EchoIsLast
    <3>2. ASSUME NEW d \in Conns, ReadChat(d) PROVE h.id <= pending'[s].chat.id
      <4> DEFINE m == [sender |-> d, id |-> reads]
      <4>1. m \in Chats /\ chatHistory' = Append(chatHistory, m) /\ pc[d] = "reading"
        BY <1>0, <3>2, ReadChatEffect
      <4>2. m.sender = d /\ d # s
        BY <1>3, <4>1 DEF Echoing, Broadcasting
      <4> HIDE DEF m
      <4>3. h \in ToSet(chatHistory)
        BY <1>0, <2>2, <4>1, <4>2, AppendedIn
      <4> QED
        BY <1>3, <2>2, <4>3 DEF WholeChatInv, EchoIsLast
    <3> QED
      BY <3>1, <3>2, HistoryChange
  <2>3. ASSUME NEW c \in Conns, pending[s] \in ToSet(queue[c])
        PROVE  s \in readers' /\ UserOf[c] \notin todo'[s]
    <3>1. s \in readers /\ UserOf[c] \notin todo[s]
      BY <1>3, <2>3 DEF WholeChatInv, EchoIsLast
    <3>2. ASSUME NEW u \in Users, SendOne(s, u) PROVE s \in readers' /\ UserOf[c] \notin todo'[s]
      BY <3>1, <3>2, EchoPasses
    <3>3. ASSUME NEW d \in Conns, d # s, NEW u \in Users, SendOne(d, u)
          PROVE  s \in readers' /\ UserOf[c] \notin todo'[s]
      BY <1>0, <3>1, <3>3 DEF SendOne, BroadcastTo
    <3>4. UNCHANGED <<readers, todo>> => s \in readers' /\ UserOf[c] \notin todo'[s]
      BY <3>1
    <3> QED
      BY <1>0, <3>2, <3>3, <3>4, ReadLockSteps
  <2>4. ASSUME NEW c \in Conns, pending[s] \in ToSet(queue'[c]), pending[s] \notin ToSet(queue[c])
        PROVE  s \in readers' /\ UserOf[c] \notin todo'[s]
    <3>1. ~Stands(c) /\ ~Greeted(c)
      BY <2>4 DEF Stands, Greeted
    <3>2. ~Taken(c)
      BY <1>0, <2>4, TailIn DEF Taken
    <3>3. PICK m : Given(c, m)
      BY <3>1, <3>2, ChatKinds DEF Sent
    <3>4. m = pending[s]
      BY <1>0, <2>4, <3>3, AppendedIn DEF Given
    <3>5. PICK d \in Conns : Echoing(d) /\ m = pending[d] /\ SendOne(d, UserOf[c])
      BY <1>3, <3>3, <3>4 DEF Given, Echoing
    <3>6. d = s
      BY <1>1, <1>3, <3>4, <3>5
    <3>7. UserOf[c] \in Users
      BY <1>0
    <3> QED
      BY <3>5, <3>6, <3>7, EchoPasses
  <2> QED
    BY <1>3, <2>1, <2>2, <2>3, <2>4
<1> QED
  BY <1>0, <1>2, <1>3, ComesToEcho

(* A message that a broadcast puts into a channel is newer than what its   *)
(* sender has there, and newer than what is shown of it or shown itself.   *)
LEMMA EchoIsNewer ==
  ASSUME MeetingTypeInv, WholeChatInv, NEW c \in Conns, NEW s \in Conns, Echoing(s),
         SendOne(s, UserOf[c])
  PROVE  /\ \A y \in ToSet(queue[c]) :
              (IsChat(y) /\ y.chat.sender = pending[s].chat.sender)
                => y.chat.id < pending[s].chat.id
         /\ \/ pending[s].chat \in ToSet(transcript[c])
            \/ NewerThan(transcript[c], pending[s].chat)
<1> DEFINE m == pending[s]
<1>0. /\ TypeInv /\ HistoryInOrder /\ queue \in [Conns -> Seq(Messages)]
      /\ pending \in [Conns -> Messages \cup {NoMsg}] /\ m \in Messages
  BY ChatTypes DEF WholeChatInv, Echoing, TypeInv, PendingIsMessage
<1>1. /\ m.chat \in ToSet(chatHistory) /\ m.chat.sender = s /\ m = ChatMsg(m.chat)
      /\ \A h \in ToSet(chatHistory) : h.sender = s => h.id <= m.chat.id
  BY <1>0, MessageFields DEF WholeChatInv, Recorded, EchoIsLast, Echoing, IsChat
<1>2. m \notin ToSet(queue[c])
  <2>1. UserOf[c] \in Remaining(s, Except(s))
    BY DEF SendOne, BroadcastTo
  <2>2. m \in ToSet(queue[c]) => s \in readers /\ UserOf[c] \notin todo[s]
    BY DEF WholeChatInv, EchoIsLast
  <2> QED
    BY <2>1, <2>2 DEF Remaining
<1> HIDE DEF m
<1>3. ASSUME NEW h \in ToSet(chatHistory), h.sender = s, h # m.chat PROVE h.id < m.chat.id
  <2>1. h.id <= m.chat.id /\ h.id # m.chat.id
    BY <1>0, <1>1, <1>3, SameId
  <2>2. h.id \in Nat /\ m.chat.id \in Nat
    BY <1>0, <1>1, OldIds
  <2> QED
    BY <2>1, <2>2
<1>4. ASSUME NEW y \in ToSet(queue[c]), IsChat(y), y.chat.sender = s
      PROVE  y.chat.id < m.chat.id
  <2>1. y \in Messages
    BY <1>0, ElementsOf
  <2>2. y.chat \in ToSet(chatHistory) /\ y = ChatMsg(y.chat)
    BY <1>4, <2>1, MessageFields DEF WholeChatInv, Recorded, IsChat
  <2>3. y.chat # m.chat
    BY <1>1, <1>2, <2>2
  <2> QED
    BY <1>3, <1>4, <2>2, <2>3
<1>5. ToSet(transcript[c]) \subseteq ToSet(chatHistory)
  BY DEF WholeChatInv, Recorded
<1>6. m.chat \in ToSet(transcript[c]) \/ NewerThan(transcript[c], m.chat)
  BY <1>1, <1>3, <1>5 DEF NewerThan
<1> QED
  BY <1>1, <1>4, <1>6 DEF m

LEMMA QueueOrderedStep ==
  ASSUME MeetingTypeInv, WholeChatInv, [MeetingNext]_allVars, NEW c \in Conns
  PROVE  QueueOrdered(queue'[c])
<1>0. queue[c] \in Seq(Messages) /\ QueueOrdered(queue[c])
  BY ChatTypes DEF WholeChatInv
<1>1. CASE queue'[c] = queue[c]
  BY <1>0, <1>1
<1>2. CASE Taken(c)
  BY <1>0, <1>2, QueueTail DEF Taken
<1>3. ASSUME NEW m, Given(c, m) PROVE QueueOrdered(queue'[c])
  <2>1. m \in Messages /\ queue'[c] = Append(queue[c], m)
    BY <1>3 DEF Given
  <2>2. ASSUME NEW y \in ToSet(queue[c]), IsChat(m), IsChat(y),
               y.chat.sender = m.chat.sender
        PROVE  y.chat.id < m.chat.id
    <3>1. PICK s \in Conns : Echoing(s) /\ m = pending[s] /\ SendOne(s, UserOf[c])
      BY <1>3, <2>2 DEF Given
    <3> QED
      BY <2>2, <3>1, EchoIsNewer
  <2> QED
    BY <1>0, <2>1, <2>2, QueueAppend
<1> QED
  BY <1>1, <1>2, <1>3, ChatKinds DEF Stands, Greeted, Sent

LEMMA TranscriptStep ==
  ASSUME MeetingTypeInv, WholeChatInv, HistoryWhole, [MeetingNext]_allVars, NEW c \in Conns
  PROVE  InOrder(transcript'[c])
<1>0. transcript[c] \in Seq(Chats) /\ InOrder(transcript[c]) /\ queue[c] \in Seq(Messages)
  BY ChatTypes DEF WholeChatInv
<1>1. CASE transcript'[c] = transcript[c]
  BY <1>0, <1>1
<1>2. CASE transcript'[c] = chatHistory
  BY <1>2 DEF WholeChatInv, HistoryInOrder, InOrder
<1>3. CASE queue[c] # <<>> /\ transcript'[c] = Shown(transcript[c], Head(queue[c]))
  <2> DEFINE m == Head(queue[c])
             t == transcript[c]
  <2>1. m \in ToSet(queue[c])
    BY <1>0, <1>3, TailIn
  <2>2. \/ Shown(t, m) = t
        \/ /\ IsChat(m) /\ m.chat \in Chats /\ m.chat \notin ToSet(t)
           /\ Shown(t, m) = Append(t, m.chat)
    BY <1>3, ShownEffect
  <2>3. IsChat(m) => m.chat \in ToSet(t) \/ NewerThan(t, m.chat)
    BY <2>1 DEF WholeChatInv, QueueIsNewer
  <2>4. transcript'[c] = Shown(t, m) /\ t \in Seq(Chats) /\ InOrder(t)
    BY <1>0, <1>3
  <2> HIDE DEF m, t
  <2> QED
    BY <2>2, <2>3, <2>4, InOrderAppend
<1> QED
  BY <1>1, <1>2, <1>3, ChatKinds DEF Stands, Greeted, Taken, Sent

LEMMA QueueIsNewerStep ==
  ASSUME MeetingTypeInv, WholeChatInv, HistoryWhole, [MeetingNext]_allVars
  PROVE  QueueIsNewer'
<1> SUFFICES ASSUME NEW c \in Conns, NEW m \in ToSet(queue'[c]), IsChat(m)
             PROVE  m.chat \in ToSet(transcript'[c]) \/ NewerThan(transcript'[c], m.chat)
  BY DEF QueueIsNewer, NewerThan, IsChat
<1>0. /\ queue \in [Conns -> Seq(Messages)] /\ transcript \in [Conns -> Seq(Chats)]
      /\ QueueOrdered(queue[c])
  BY ChatTypes DEF WholeChatInv
<1>1. ASSUME m \in ToSet(queue[c])
      PROVE  m.chat \in ToSet(transcript[c]) \/ NewerThan(transcript[c], m.chat)
  BY <1>1 DEF WholeChatInv, QueueIsNewer
<1>2. CASE Stands(c)
  BY <1>1, <1>2 DEF Stands
<1>3. CASE Greeted(c)
  <2>1. m.chat \in ToSet(chatHistory)
    BY <1>3 DEF Greeted, WholeChatInv, Recorded
  <2> QED
    BY <1>3, <2>1 DEF Greeted
<1>4. CASE Taken(c)
  <2> DEFINE h == Head(queue[c])
             t == transcript[c]
  <2>1. /\ m \in ToSet(queue[c])
        /\ (IsChat(h) /\ m.chat.sender = h.chat.sender) => h.chat.id < m.chat.id
    BY <1>0, <1>4, TailIn, QueueTail DEF Taken
  <2>2. m.chat \in ToSet(t) \/ NewerThan(t, m.chat)
    BY <1>1, <2>1
  <2>3. \/ transcript'[c] = t
        \/ IsChat(h) /\ h.chat \in Chats /\ transcript'[c] = Append(t, h.chat)
    BY <1>4, ShownEffect DEF Taken
  <2>4. t \in Seq(Chats)
    BY <1>0
  <2> HIDE DEF h, t
  <2>5. CASE transcript'[c] = t
    BY <2>2, <2>5
  <2>6. CASE IsChat(h) /\ h.chat \in Chats /\ transcript'[c] = Append(t, h.chat)
    <3>1. \A y : y \in ToSet(Append(t, h.chat)) <=> y \in ToSet(t) \/ y = h.chat
      BY <2>4, <2>6, AppendedIn
    <3> QED
      BY <2>1, <2>2, <2>6, <3>1 DEF NewerThan
  <2> QED
    BY <2>3, <2>5, <2>6
<1>5. CASE Sent(c)
  <2>1. PICK x : Given(c, x)
    BY <1>5 DEF Sent
  <2>2. m \in ToSet(queue[c]) \/ m = x
    BY <1>0, <2>1, AppendedIn DEF Given
  <2>3. ASSUME m = x PROVE m.chat \in ToSet(transcript[c]) \/ NewerThan(transcript[c], m.chat)
    <3>1. PICK s \in Conns : Echoing(s) /\ m = pending[s] /\ SendOne(s, UserOf[c])
      BY <2>1, <2>3 DEF Given
    <3> QED
      BY <3>1, EchoIsNewer
  <2> QED
    BY <1>1, <1>5, <2>2, <2>3 DEF Sent
<1> QED
  BY <1>2, <1>3, <1>4, <1>5, ChatKinds

(* What is shown stays shown, and what is received is shown. *)
LEMMA StaysShown ==
  ASSUME MeetingTypeInv, WholeChatInv, HistoryWhole, [MeetingNext]_allVars, NEW c \in Conns
  PROVE  /\ ToSet(transcript[c]) \subseteq ToSet(transcript'[c])
         /\ \A x \in Chats :
              (Receive(c) /\ Head(queue[c]) = ChatMsg(x)) => x \in ToSet(transcript'[c])
<1>0. transcript \in [Conns -> Seq(Chats)]
  BY ChatTypes
<1>1. ToSet(transcript[c]) \subseteq ToSet(transcript'[c])
  <2>1. CASE transcript'[c] = transcript[c]
    BY <2>1
  <2>2. CASE Greeted(c)
    BY <2>2 DEF Greeted, WholeChatInv, Recorded
  <2>3. CASE Taken(c) /\ transcript'[c] = Shown(transcript[c], Head(queue[c]))
    <3>1. \/ transcript'[c] = transcript[c]
          \/ \E x \in Chats : transcript'[c] = Append(transcript[c], x)
      BY <2>3, ShownEffect DEF Taken
    <3>2. ASSUME NEW x \in Chats, NEW y \in ToSet(transcript[c])
          PROVE  y \in ToSet(Append(transcript[c], x))
      BY <1>0, AppendedIn
    <3> QED
      BY <3>1, <3>2
  <2> QED
    BY <2>1, <2>2, <2>3, ChatKinds DEF Stands, Taken, Sent
<1>2. ASSUME NEW x \in Chats, Receive(c), Head(queue[c]) = ChatMsg(x)
      PROVE  x \in ToSet(transcript'[c])
  <2> DEFINE m == Head(queue[c])
             t == transcript[c]
  <2>1. queue[c] # <<>> /\ transcript'[c] = Shown(t, m)
    BY <1>0, <1>2 DEF Receive, Deliver, Dequeue, OnMessage
  <2>2. IsChat(m) /\ m.chat = x
    BY <1>2 DEF IsChat, ChatMsg
  <2>3. \/ Shown(t, m) = t /\ m.chat \in ToSet(t)
        \/ Shown(t, m) = Append(t, m.chat)
    BY <2>1, <2>2, ShownEffect
  <2> HIDE DEF m
  <2>4. x \in ToSet(Append(t, x))
    BY <1>0, AppendedIn
  <2> QED
    BY <2>1, <2>2, <2>3, <2>4
<1> QED
  BY <1>1, <1>2

LEMMA ChatArrivesStep ==
  ASSUME MeetingTypeInv, WholeChatInv, HistoryWhole, HistoryWhole', [MeetingNext]_allVars
  PROVE  ChatArrives'
<1>0. /\ TypeInv /\ HistoryInOrder /\ chatHistory \in Seq(Chats) /\ readers \in SUBSET Conns
      /\ participants \in [Users -> Conns \cup {NoConn}] /\ UserOf \in [Conns -> Users]
      /\ pc \in [Conns -> Stages] /\ pending \in [Conns -> Messages \cup {NoMsg}]
      /\ NoConn \notin Conns
  BY ChatTypes DEF WholeChatInv
<1> SUFFICES ASSUME NEW c \in Conns, Tracked(c)', pc'[c] \in Served,
                    NEW h \in ToSet(chatHistory')
             PROVE  \/ h \in ToSet(transcript'[c])
                    \/ ChatMsg(h) \in ToSet(queue'[c])
                    \/ OnItsWay(c, h)'
  BY DEF ChatArrives
<1>1. /\ participants'[UserOf[c]] = c /\ c \notin dropped' /\ c \notin dropped
      /\ writer'[c] # "done" /\ writer[c] # "done"
  BY <1>0, DroppedGrows, WriterStaysDone DEF Tracked
<1>2. participants[UserOf[c]] = c
  <2>1. pc'[c] \in Offering
    BY DEF Served, Offering
  <2> QED
    BY <1>1, <2>1, StaysRegistered
<1>3. CASE Greet(c)
  <2>1. transcript'[c] = chatHistory /\ reads' = reads
    BY <1>3, ChatTypes DEF Greet, Welcome, OnWelcome
  <2>2. chatHistory' = chatHistory
    BY <1>3 DEF Greet, Welcome, roomVars
  <2> QED
    BY <2>1, <2>2
<1>4. ASSUME NEW s \in Conns, ReadChat(s), h \notin ToSet(chatHistory)
      PROVE  OnItsWay(c, h)'
  <2> DEFINE m == [sender |-> s, id |-> reads]
  <2>1. /\ m \in Chats /\ chatHistory' = Append(chatHistory, m) /\ pc[s] = "reading"
        /\ pc' = [pc EXCEPT ![s] = "echo"] /\ pending' = [pending EXCEPT ![s] = ChatMsg(m)]
        /\ UNCHANGED <<participants, readers, todo>>
    BY <1>0, <1>4, ReadChatEffect
  <2> HIDE DEF m
  <2>2. h = m
    BY <1>0, <1>4, <2>1, AppendedIn
  <2>3. pc'[s] = "echo" /\ pending'[s] = ChatMsg(h) /\ pc'[s] \in Broadcasting
    BY <1>0, <2>1, <2>2 DEF Broadcasting
  <2>4. s \notin readers'
    BY <2>1 DEF MeetingTypeInv, SettingInv, ReadersBroadcast, Broadcasting
  <2>5. UserOf[c] \in Members' /\ Except(s)' = {}
    BY <1>0, <1>1, <2>3 DEF Members, Present, Except
  <2> QED
    BY <2>3, <2>4, <2>5 DEF OnItsWay, Remaining
<1>5. ASSUME pc[c] \in Served, h \in ToSet(chatHistory)
      PROVE  \/ h \in ToSet(transcript'[c])
             \/ ChatMsg(h) \in ToSet(queue'[c])
             \/ OnItsWay(c, h)'
  <2>1. \/ h \in ToSet(transcript[c])
        \/ ChatMsg(h) \in ToSet(queue[c])
        \/ OnItsWay(c, h)
    BY <1>1, <1>2, <1>5 DEF WholeChatInv, ChatArrives, Tracked
  <2>2. CASE h \in ToSet(transcript[c])
    BY <2>2, StaysShown
  <2>3. CASE ChatMsg(h) \in ToSet(queue[c])
    <3>1. ~WriteFails(c)
      BY <1>1 DEF WriteFails, MeetingTypeInv, SettingInv, ServerInv, TypeInv, TypeOK, HandlerTypeOK
    <3>2. ChatMsg(h) \in ToSet(queue'[c]) \/ (Receive(c) /\ ChatMsg(h) = Head(queue[c]))
      BY <1>0, <2>3, <3>1, StaysQueued
    <3>3. h \in Chats
      BY <1>0, <1>5, OldIds
    <3> QED
      BY <3>2, <3>3, StaysShown
  <2>4. CASE OnItsWay(c, h)
    <3>1. PICK s \in Conns : /\ pc[s] \in Broadcasting /\ pending[s] = ChatMsg(h)
                             /\ UserOf[c] \in Remaining(s, Except(s))
      BY <2>4 DEF OnItsWay
    <3>2. \/ /\ pc'[s] = pc[s] /\ pending'[s] = pending[s]
             /\ UserOf[c] \in Remaining(s, Except(s))'
          \/ pending[s] \in ToSet(queue'[c])
      BY <1>1, <1>2, <3>1, BroadcastGoesOn
    <3> QED
      BY <3>1, <3>2 DEF OnItsWay
  <2> QED
    BY <2>1, <2>2, <2>3, <2>4
<1>6. Greet(c) \/ pc[c] \in Served
  BY <1>0, ComesToServed
<1> QED
  BY <1>3, <1>4, <1>5, <1>6, HistoryChange

LEMMA ChatInvStep ==
  ASSUME MeetingTypeInv, ChatInv, [MeetingNext]_allVars
  PROVE  ChatInv'
<1> SUFFICES ASSUME HistoryWhole' PROVE WholeChatInv'
  BY DEF ChatInv
<1>1. HistoryWhole
  <2>1. reads \in Nat /\ reads' \in Nat /\ reads <= reads' /\ HistoryLimit \in Nat
    BY ChatTypes, ReadsGrow
  <2> QED
    BY <2>1 DEF HistoryWhole
<1>2. WholeChatInv
  BY <1>1 DEF ChatInv
<1>3. HistoryInOrder'
  BY <1>2, HistoryInOrderStep DEF WholeChatInv
<1>4. Recorded' /\ EchoIsLast'
  BY <1>1, <1>2, RecordedStep, EchoIsLastStep
<1>5. \A c \in Conns : QueueOrdered(queue'[c]) /\ InOrder(transcript'[c])
  BY <1>1, <1>2, QueueOrderedStep, TranscriptStep
<1>6. QueueIsNewer' /\ ChatArrives'
  BY <1>1, <1>2, QueueIsNewerStep, ChatArrivesStep
<1> QED
  BY <1>3, <1>4, <1>5, <1>6 DEF WholeChatInv, QueueOrdered, InOrder

LEMMA InitChatInv == MeetingInit => ChatInv
<1> SUFFICES ASSUME MeetingInit PROVE WholeChatInv
  BY DEF ChatInv
<1>1. /\ chatHistory = <<>> /\ reads = 0 /\ \A c \in Conns : queue[c] = <<>> /\ transcript[c] = <<>>
      /\ \A c \in Conns : pc[c] = "idle"
  BY DEF MeetingInit, Init, RoomInit
<1>2. Len(<<>>) = 0 /\ DOMAIN <<>> = {} /\ ToSet(<<>>) = {}
  BY EmptySeq DEF ToSet
<1>3. HistoryInOrder
  BY <1>1, <1>2 DEF HistoryInOrder
<1>4. \A s \in Conns : ~Echoing(s)
  BY <1>1 DEF Echoing, Broadcasting
<1> QED
  BY <1>1, <1>2, <1>3, <1>4
  DEF WholeChatInv, Recorded, EchoIsLast, QueueOrdered, InOrder, QueueIsNewer, ChatArrives

LEMMA ChatInvariant == MeetingSpec => []ChatInv
<1>1. MeetingTypeInv /\ ChatInv /\ [MeetingNext]_allVars => ChatInv'
  BY ChatInvStep
<1> QED
  BY <1>1, InitChatInv, MeetingTypeInvariant, PTL DEF MeetingSpec

(* A browser shows the messages of one connection in the order they were   *)
(* sent, and each once: a message that comes through the channel is either *)
(* in the welcome already or newer than all of its sender that is shown,   *)
(* because a handler finishes one broadcast before it reads on.            *)
THEOREM SenderOrderKeptHolds == MeetingSpec => []SenderOrderKept
<1>1. ChatInv => SenderOrderKept
  BY DEF ChatInv, WholeChatInv, InOrder, SenderOrderKept
<1> QED
  BY <1>1, ChatInvariant, PTL

(* When all is sent, every chat message the room keeps is shown by every   *)
(* listening browser: what the welcome did not hold is in the channel or   *)
(* on its way there, because the connection was registered before the      *)
(* history was read for it.                                                *)
THEOREM NoChatMissedHolds == MeetingSpec => []NoChatMissed
<1>1. MeetingTypeInv /\ ChatInv => NoChatMissed
  <2> SUFFICES ASSUME MeetingTypeInv, ChatInv, Settled, HistoryWhole,
                      NEW c \in Listening, NEW i \in DOMAIN chatHistory
               PROVE  \E j \in DOMAIN transcript[c] : transcript[c][j] = chatHistory[i]
    BY DEF NoChatMissed
  <2>1. c \in Conns /\ Tracked(c) /\ pc[c] \in Served /\ queue[c] = <<>>
    BY DEF Listening, Tracked, Served, Joined, Settled
  <2>2. chatHistory[i] \in ToSet(chatHistory)
    BY DEF ToSet
  <2>3. ToSet(queue[c]) = {}
    BY <2>1 DEF ToSet
  <2>4. ~OnItsWay(c, chatHistory[i])
    BY DEF Settled, Fresh, Broadcasting, OnItsWay
  <2>5. chatHistory[i] \in ToSet(transcript[c])
    BY <2>1, <2>2, <2>3, <2>4 DEF ChatInv, WholeChatInv, ChatArrives
  <2>6. transcript[c] \in Seq(Chats)
    BY <2>1, ChatTypes
  <2> QED
    BY <2>5, <2>6, ElementsOf
<1> QED
  BY <1>1, ChatInvariant, MeetingTypeInvariant, PTL
=============================================================================

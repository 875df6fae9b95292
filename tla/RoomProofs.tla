----------------------------- MODULE RoomProofs -----------------------------
(***************************************************************************)
(* What each method of Room keeps: the types of the room's variables.      *)
(***************************************************************************)
EXTENDS Room, SequenceTheorems, TLAPS

(* AppendChatMessage, on the log: the window is a log of at most           *)
(* chatHistoryLimit messages.                                              *)
LEMMA WindowBounded ==
  ASSUME NEW log \in Seq(Chats)
  PROVE  Window(log) \in Seq(Chats) /\ Len(Window(log)) <= HistoryLimit
<1> DEFINE first == IF Len(log) > HistoryLimit THEN Len(log) - HistoryLimit + 1 ELSE 1
<1>1. Len(log) \in Nat /\ HistoryLimit \in Nat \ {0}
  BY RoomAssumption
<1>2. first \in Int /\ first >= 1 /\ Len(log) - first + 1 <= HistoryLimit
  BY <1>1
<1>3. \A i \in first..Len(log) : log[i] \in Chats
  BY <1>1, <1>2
<1>4. /\ SubSeq(log, first, Len(log)) \in Seq(Chats)
      /\ Len(SubSeq(log, first, Len(log))) =
           IF first <= Len(log) THEN Len(log) - first + 1 ELSE 0
  <2> HIDE DEF first
  <2> QED BY <1>1, <1>2, <1>3, SubSeqProperties
<1>5. Len(SubSeq(log, first, Len(log))) <= HistoryLimit
  <2> HIDE DEF first
  <2> QED BY <1>1, <1>2, <1>4
<1> QED
  BY <1>4, <1>5 DEF Window

(* The messages the handlers build are messages. *)
LEMMA PeerMsgType ==
  ASSUME NEW t \in {"peer-joined", "peer-left"} \cup RelayTypes, NEW u \in Users
  PROVE  PeerMsg(t, u) \in Messages
BY DEF PeerMsg, Messages

LEMMA StatusMsgType ==
  ASSUME NEW t \in StatusTypes, NEW u \in Users, NEW on \in SUBSET StatusFlags
  PROVE  StatusMsg(t, u, on) \in Messages
BY DEF StatusMsg, Messages

LEMMA ChatMsgType ==
  ASSUME NEW m \in Chats
  PROVE  ChatMsg(m) \in Messages
BY DEF ChatMsg, Messages

LEMMA ErrorMsgType == ErrorMsg \in Messages
BY DEF ErrorMsg, Messages

(* SnapshotParticipants returns a list of participants. *)
LEMMA SnapshotType ==
  ASSUME RoomTypeOK
  PROVE  Snapshot \in Rosters /\ ListMsg(Snapshot) \in Messages
<1>1. Members \in SUBSET Users
  BY DEF Members
<1>2. Snapshot \in [Members -> SUBSET StatusFlags]
  BY <1>1 DEF Snapshot, RoomTypeOK
<1>3. Snapshot \in Rosters
  BY <1>1, <1>2 DEF Rosters
<1> QED
  BY <1>3 DEF ListMsg, Messages

(* The flags a status message carries are flags. *)
LEMMA OutcomesAreFlags ==
  ASSUME NEW t \in StatusTypes, NEW on \in Outcomes(t)
  PROVE  on \in SUBSET StatusFlags
BY DEF Outcomes, Governs, StatusTypes, StatusFlags

-----------------------------------------------------------------------------

LEMMA RoomInitType == RoomInit => RoomTypeOK
BY RoomAssumption DEF RoomInit, RoomTypeOK

LEMMA AddParticipantType ==
  ASSUME RoomTypeOK, NEW c \in Conns, AddParticipant(c)
  PROVE  RoomTypeOK'
BY RoomAssumption DEF RoomTypeOK, AddParticipant

LEMMA RemoveParticipantType ==
  ASSUME RoomTypeOK, NEW u \in Users, RemoveParticipant(u)
  PROVE  RoomTypeOK'
BY RoomAssumption DEF RoomTypeOK, RemoveParticipant, Present

LEMMA UpdateParticipantType ==
  ASSUME RoomTypeOK, NEW u \in Users, NEW t, NEW on \in SUBSET StatusFlags,
         UpdateParticipant(u, t, on)
  PROVE  RoomTypeOK'
<1>1. status' \in [Users -> SUBSET StatusFlags]
  BY DEF RoomTypeOK, UpdateParticipant
<1> QED
  BY <1>1 DEF RoomTypeOK, UpdateParticipant

LEMMA AppendChatMessageType ==
  ASSUME RoomTypeOK, NEW m \in Chats, AppendChatMessage(m)
  PROVE  RoomTypeOK'
<1>1. Append(chatHistory, m) \in Seq(Chats)
  BY AppendProperties DEF RoomTypeOK
<1>2. chatHistory' \in Seq(Chats) /\ Len(chatHistory') <= HistoryLimit
  BY <1>1, WindowBounded DEF AppendChatMessage
<1> QED
  BY <1>2 DEF RoomTypeOK, AppendChatMessage

(* A send on the channel of a present user keeps every channel within its  *)
(* capacity, full or not.                                                  *)
LEMMA TrySendType ==
  ASSUME RoomTypeOK, NEW u \in Users, NEW m \in Messages, Present(u), TrySend(u, m)
  PROVE  /\ queue' \in [Conns -> Seq(Messages)]
         /\ \A c \in Conns : Len(queue'[c]) <= QueueCap
         /\ dropped' \in SUBSET Conns
<1> DEFINE ch == participants[u]
<1>1. ch \in Conns /\ queue[ch] \in Seq(Messages) /\ Len(queue[ch]) \in Nat
  BY DEF RoomTypeOK, Present
<1>2. QueueCap \in Nat
  BY RoomAssumption
<1>3. CASE Len(queue[ch]) < QueueCap
  <2>1. queue' = [queue EXCEPT ![ch] = Append(queue[ch], m)] /\ dropped' = dropped
    BY <1>3 DEF TrySend
  <2>2. Append(queue[ch], m) \in Seq(Messages) /\ Len(Append(queue[ch], m)) = Len(queue[ch]) + 1
    BY <1>1, AppendProperties
  <2>3. Len(Append(queue[ch], m)) <= QueueCap
    BY <1>1, <1>2, <1>3, <2>2
  <2>4. queue' \in [Conns -> Seq(Messages)]
    BY <1>1, <2>1, <2>2 DEF RoomTypeOK
  <2>5. ASSUME NEW c \in Conns PROVE Len(queue'[c]) <= QueueCap
    BY <1>1, <2>1, <2>3 DEF RoomTypeOK
  <2> QED
    BY <2>1, <2>4, <2>5 DEF RoomTypeOK
<1>4. CASE ~(Len(queue[ch]) < QueueCap)
  BY <1>1, <1>4 DEF TrySend, RoomTypeOK
<1> QED
  BY <1>3, <1>4

LEMMA SendToType ==
  ASSUME RoomTypeOK, NEW u \in Users, NEW m \in Messages, SendTo(u, m)
  PROVE  RoomTypeOK'
<1>1. CASE Present(u)
  <2>1. TrySend(u, m)
    BY <1>1 DEF SendTo
  <2> QED
    BY <1>1, <2>1, TrySendType DEF RoomTypeOK, SendTo
<1>2. CASE ~Present(u)
  BY <1>2 DEF RoomTypeOK, SendTo
<1> QED
  BY <1>1, <1>2

(* A Broadcast reaches present users only: those it has not reached yet    *)
(* were present when it began, and nobody is removed while it runs.        *)
LEMMA RemainingArePresent ==
  ASSUME RoomTypeOK, NEW c \in Conns, NEW except,
         \A d \in readers : todo[d] \subseteq Members
  PROVE  Remaining(c, except) \subseteq Members
BY DEF Remaining

LEMMA BroadcastToType ==
  ASSUME RoomTypeOK, NEW c \in Conns, NEW u \in Users, NEW m \in Messages, NEW except,
         \A d \in readers : todo[d] \subseteq Members,
         BroadcastTo(c, u, m, except)
  PROVE  RoomTypeOK'
<1>1. Remaining(c, except) \subseteq Members
  BY RemainingArePresent
<1>2. Present(u) /\ Remaining(c, except) \subseteq Users
  BY <1>1 DEF BroadcastTo, Members
<1>3. TrySend(u, m)
  BY DEF BroadcastTo
<1>4. todo' \in [Conns -> SUBSET Users] /\ readers' \in SUBSET Conns
  BY <1>2 DEF BroadcastTo, RoomTypeOK
<1> QED
  BY <1>2, <1>3, <1>4, TrySendType DEF RoomTypeOK, BroadcastTo

LEMMA DequeueType ==
  ASSUME RoomTypeOK, NEW c \in Conns, Dequeue(c)
  PROVE  RoomTypeOK'
<1>1. queue[c] \in Seq(Messages) /\ queue[c] # <<>> /\ QueueCap \in Nat
  BY RoomAssumption DEF RoomTypeOK, Dequeue
<1>2. /\ Tail(queue[c]) \in Seq(Messages)
      /\ Len(Tail(queue[c])) = Len(queue[c]) - 1
      /\ Len(queue[c]) \in Nat
  BY <1>1, HeadTailProperties
<1>3. Len(Tail(queue[c])) <= QueueCap
  BY <1>1, <1>2 DEF RoomTypeOK
<1>4. queue' = [queue EXCEPT ![c] = Tail(queue[c])]
  BY DEF Dequeue
<1>5. queue' \in [Conns -> Seq(Messages)]
  BY <1>2, <1>4 DEF RoomTypeOK
<1>6. ASSUME NEW d \in Conns PROVE Len(queue'[d]) <= QueueCap
  BY <1>3, <1>4 DEF RoomTypeOK
<1> QED
  BY <1>5, <1>6 DEF RoomTypeOK, Dequeue
=============================================================================

------------------------------ MODULE Meeting -------------------------------
(***************************************************************************)
(* The server together with what the browsers make of its messages: the    *)
(* signal handlers of web/app.js that keep state.participants and          *)
(* state.chatMessages, and the list handleWelcome draws up of those it is  *)
(* to make offers to.  That it gets through this list, one awaited offer   *)
(* after the other, is not promised here: see Negotiation.                 *)
(*                                                                         *)
(* The browser runs the part of a handler before its first await in one    *)
(* event, and everything kept here is written there.                       *)
(***************************************************************************)
EXTENDS Server

VARIABLES
  view,        \* state.participants in the browser at the end of a connection
  transcript,  \* state.chatMessages
  others,      \* the users on handleWelcome's list: it is to turn to each of them
  fresh        \* history: connections told the present list since it last changed

clientVars == <<view, transcript, others>>

allVars == <<vars, clientVars, fresh>>

MeetingInit ==
  /\ Init
  /\ view = [c \in Conns |-> <<>>]
  /\ transcript = [c \in Conns |-> <<>>]
  /\ others = [c \in Conns |-> {}]
  /\ fresh = {}

(* Map.set and Map.delete on state.participants. *)
With(v, u, flags) == [w \in DOMAIN v \cup {u} |-> IF w = u THEN flags ELSE v[w]]
Without(v, u) == [w \in DOMAIN v \ {u} |-> v[w]]

(* handleMuteChanged, handleHandRaised, handleScreenShareStarted and        *)
(* handleScreenShareStopped ignore a participant they do not know.         *)
Flagged(v, m) ==
  IF m.from \in DOMAIN v
  THEN [v EXCEPT ![m.from] = (@ \ Governs(m.type)) \cup m.on]
  ELSE v

(* What a message makes of the participants known so far. *)
Applied(v, m) ==
  CASE m.type = "participants" -> m.list
    [] m.type = "peer-joined"  -> With(v, m.from, {})
    [] m.type = "peer-left"    -> Without(v, m.from)
    [] m.type \in StatusTypes  -> Flagged(v, m)
    [] OTHER                   -> v

(* Wrong variant: every message that arrives is shown. *)
ShownAgain(t, m) ==
  IF m.type # "chat-message" THEN t ELSE Window(Append(t, m.chat))

(* appendChatMessage: a message already shown is skipped by its id, and    *)
(* only the last ones are kept.                                            *)
Shown(t, m) ==
  IF m.type # "chat-message" \/ \E i \in DOMAIN t : t[i].id = m.chat.id
  THEN t
  ELSE Window(Append(t, m.chat))

(* Wrong variant: the list is of the participants known before the welcome. *)
OnWelcomeLate(c) ==
  /\ view' = [view EXCEPT ![c] = pending[c].list]
  /\ transcript' = [transcript EXCEPT ![c] = chatHistory]
  /\ others' = [others EXCEPT ![c] = DOMAIN view[c] \ {UserOf[c]}]

(* Wrong variant: the page is on its own list. *)
OnWelcomeToAll(c) ==
  /\ view' = [view EXCEPT ![c] = pending[c].list]
  /\ transcript' = [transcript EXCEPT ![c] = chatHistory]
  /\ others' = [others EXCEPT ![c] = DOMAIN pending[c].list]

(* handleWelcome, up to the loop over the others. *)
OnWelcome(c) ==
  /\ view' = [view EXCEPT ![c] = pending[c].list]
  /\ transcript' = [transcript EXCEPT ![c] = chatHistory]
  /\ others' = [others EXCEPT ![c] = DOMAIN pending[c].list \ {UserOf[c]}]

(* handleSignal for every other message. *)
OnMessage(c, m) ==
  /\ view' = [view EXCEPT ![c] = Applied(@, m)]
  /\ transcript' = [transcript EXCEPT ![c] = Shown(@, m)]
  /\ UNCHANGED others

(* A connection is up to date when it receives the present list; everybody *)
(* is out of date when the list changes.                                   *)
Told(c, list) == fresh' = IF list = Snapshot THEN fresh \cup {c} ELSE fresh
Outdated == fresh' = IF Snapshot' = Snapshot THEN fresh ELSE {}

Greet(c) ==
  /\ Welcome(c)
  /\ OnWelcome(c)
  /\ Told(c, pending[c].list)

Receive(c) ==
  LET m == Head(queue[c])
  IN  /\ Deliver(c)
      /\ OnMessage(c, m)
      /\ IF m.type = "participants" THEN Told(c, m.list) ELSE UNCHANGED fresh

(* The other steps of Server, which no browser sees. *)
Unseen(c) ==
  /\ \/ Join(c) \/ ListForWelcome(c) \/ WelcomeFails(c)
     \/ (\E u \in Users : SendOne(c, u)) \/ SendNone(c)
     \/ TakeSnapshot(c) \/ SendError(c)
     \/ Depart(c) \/ DepartUnnoticed(c) \/ Sweep(c) \/ DeleteRoom(c)
     \/ ClientStep(c) \/ WriteFails(c) \/ WriterStops(c)
  /\ UNCHANGED clientVars
  /\ Outdated

MeetingNext ==
  \/ (CreateRoom \/ Expire) /\ UNCHANGED <<roomVars, handlerVars, clientVars, fresh>>
  \/ \E c \in Conns : Greet(c) \/ Receive(c) \/ Unseen(c)
  \/ AllOver /\ UNCHANGED <<clientVars, fresh>>

MeetingSpec == MeetingInit /\ [][MeetingNext]_allVars

-----------------------------------------------------------------------------
(* Properties. *)

(* Connections the server serves, that hold their user id and whose        *)
(* channel never overflowed, with a writer that still writes.              *)
Listening ==
  {c \in Conns : /\ pc[c] = "reading"
                 /\ participants[UserOf[c]] = c
                 /\ writer[c] = "on"
                 /\ c \notin dropped}

(* Nobody has anything left to send. *)
Settled ==
  /\ \A c \in Conns : pc[c] \in Fresh \cup {"reading", "closed"}
  /\ \A c \in Listening : queue[c] = <<>>

(* The variables of the browsers keep their types; nobody is on the list   *)
(* of those to whom it is itself to make an offer.                         *)
MeetingTypeOK ==
  /\ TypeOK
  /\ view \in [Conns -> Rosters]
  /\ transcript \in [Conns -> Seq(Chats)]
  /\ others \in [Conns -> SUBSET Users]
  /\ \A c \in Conns : UserOf[c] \notin others[c]
  /\ fresh \in SUBSET Conns

(* When all is sent, every listening browser has been told the participant *)
(* list as it is now, after its last change: each handler that changes the *)
(* list broadcasts a later snapshot, and whoever joins meanwhile brings    *)
(* one of its own.                                                         *)
EverybodyWasTold == Settled => Listening \subseteq fresh

(* When all is sent, the list a listening browser shows is the present     *)
(* one (README.md: joins, leaves and status changes are broadcast).        *)
EverybodyShowsTheList == Settled => \A c \in Listening : view[c] = Snapshot

(* Of two users in the room who were welcomed, one at least found the      *)
(* other in its welcome and has it on handleWelcome's list, in whatever    *)
(* order they were added and took their lists: nobody else will ever make  *)
(* the offer between these two.                                            *)
OneIsToOffer ==
  \A c, d \in Conns :
    (/\ {pc[c], pc[d]} \subseteq Joined \ {"joined", "welcome", "leaving"}
     /\ participants[UserOf[c]] = c
     /\ participants[UserOf[d]] = d
     /\ c # d) => UserOf[d] \in others[c] \/ UserOf[c] \in others[d]

(* No message has been pushed out of the chat history yet: after that, a   *)
(* welcome whose history was read late no longer covers what the channel   *)
(* brings, and the last messages of two lists in different orders differ.  *)
HistoryWhole == reads <= HistoryLimit

(* When all is sent, every chat message the room keeps is shown by every   *)
(* listening browser: what was appended before its history was read is in  *)
(* the welcome, what is broadcast after it was added is in its channel.    *)
NoChatMissed ==
  (Settled /\ HistoryWhole) =>
    \A c \in Listening : \A i \in DOMAIN chatHistory :
      \E j \in DOMAIN transcript[c] : transcript[c][j] = chatHistory[i]

(* A browser shows the messages of one connection in the order they were   *)
(* sent, and each once, although the welcome and the channel overlap and   *)
(* the broadcasts of several senders interleave differently at each        *)
(* receiver.  Two connections of one user id are two senders: a broadcast  *)
(* of the one may be overtaken by a broadcast of the other.                *)
SenderOrderKept ==
  HistoryWhole =>
    \A c \in Conns : \A i, j \in DOMAIN transcript[c] :
      (i < j /\ transcript[c][i].sender = transcript[c][j].sender) =>
        transcript[c][i].id < transcript[c][j].id
=============================================================================

---------------------------- MODULE ScreenShare ----------------------------
(***************************************************************************)
(* What one page sends and shows: its screen sharing, camera and raised    *)
(* hand (web/app.js), and the stage on which it shows who shares.  A step  *)
(* of the page is what the browser runs without giving way, as in Client.  *)
(*                                                                         *)
(* Of the server the module has what the page gets to see: the flags of    *)
(* the participants, and the handlers of the members (server.go), each of  *)
(* which changes them, broadcasts the change, takes a list and broadcasts  *)
(* that, a step at a time.  What a handler broadcasts reaches the page in  *)
(* the order of the broadcasts (Server has the messages that are lost).    *)
(* A session begins with the welcome, and the handler of the last one is   *)
(* done by then (Room and Server have two connections of one user).        *)
(* Screen captures and peer connections are external: a capture runs until *)
(* its tracks are stopped or the user ends it in the browser; the          *)
(* connections do what is asked of them in order, or fail, or never answer *)
(* once they are closed.                                                   *)
(***************************************************************************)
EXTENDS Naturals, Sequences

CONSTANTS
  Me, Others,   \* the user ids
  Captures,     \* bound: the screen captures the user is asked for
  Camera,       \* state.cameraStream
  None,         \* no stream, nobody
  MaxJoins,     \* bound: sessions of the page
  MaxNews,      \* bound: what the others do
  MaxClicks     \* bound: clicks on camera, hand and refresh

Streams == Captures \cup {Camera}
Users == Others \cup {Me}

ASSUME ScreenShareAssumption ==
  /\ Me \notin Others /\ None \notin Users \cup Streams
  /\ Camera \notin Captures
  /\ {MaxJoins, MaxNews, MaxClicks} \subseteq Nat

VARIABLES
  record,           \* the server's participants, with the flags that are up
  job,              \* what the handler of a user is about to do
  inbox,            \* what the server has broadcast to the page
  sent,             \* what the page has sent and its handler not read
  refresh,          \* the request of refreshRoom
  participants,     \* state.participants, with the flags that are up
  self,             \* the flags of state.localParticipant
  activeSharerId,
  handRaised,
  handButton,       \* whether raiseHandBtn offers to lower the hand
  localStream,
  screenStream,
  isScreenSharing,
  off,              \* the streams whose video track is disabled
  call,             \* where the toggleScreenShare of a capture is
  live,             \* the captures whose tracks run
  switches,         \* starts and stops that await the peer connections
  count,            \* how many sessions, news and clicks there have been
  history           \* what the properties make an exception of

server == <<record, job, inbox, sent>>
shown == <<participants, self, activeSharerId, handRaised>>
media == <<localStream, screenStream, isScreenSharing, live>>
vars == <<server, refresh, shown, handButton, media, off, call, switches, count, history>>

(* The socket is open and the page has been welcomed. *)
Session == Me \in DOMAIN record

Pending == {c \in Captures : call[c] \in {"prompt", "tuning"}}

NoOne == [u \in {} |-> {}]

Message(type, from, body) == [type |-> type, from |-> from, body |-> body]
ListMessage(list) == Message("participants", None, list)

(* A handler reads, is about to broadcast a message, or to take a list. *)
Idle == [stage |-> "idle", what |-> None]
Broadcasting(m) == [stage |-> "broadcast", what |-> m]
Listing == [stage |-> "list", what |-> None]

Request(stage, list) == [stage |-> stage, list |-> list]

Init ==
  /\ record = NoOne /\ job = [u \in Users |-> Idle]
  /\ inbox = <<>> /\ sent = <<>>
  /\ refresh = Request("none", NoOne)
  /\ participants = NoOne /\ self = {}
  /\ activeSharerId = None
  /\ handRaised = FALSE /\ handButton = FALSE
  /\ localStream = None /\ screenStream = None /\ isScreenSharing = FALSE
  /\ off = {} /\ live = {}
  /\ call = [c \in Captures |-> "idle"]
  /\ switches = <<>>
  /\ count = [joins |-> 0, news |-> 0, clicks |-> 0]
  /\ history = [hasty |-> FALSE, torn |-> FALSE, forsaken |-> FALSE, cut |-> FALSE,
                missed |-> FALSE, dark |-> FALSE, kept |-> FALSE]

Counted(what, max) ==
  /\ count[what] < max
  /\ count' = [count EXCEPT ![what] = @ + 1]

-----------------------------------------------------------------------------
(* Participants and their flags. *)

StatusFlag(type) ==
  CASE type = "mute-changed" -> "videoMuted"
    [] type = "hand-raised"  -> "handRaised"
    [] OTHER                 -> "screenSharing"

With(list, u, flags) == [v \in DOMAIN list \cup {u} |-> IF v = u THEN flags ELSE list[v]]
Without(list, u) == [v \in DOMAIN list \ {u} |-> list[v]]

Put(flags, flag, up) == IF up THEN flags \cup {flag} ELSE flags \ {flag}

(* A flag of a participant, if it is known, goes up or down. *)
Flagged(list, u, flag, up) ==
  IF u \in DOMAIN list THEN [list EXCEPT ![u] = Put(@, flag, up)] ELSE list

Sharers(list) == {u \in DOMAIN list : "screenSharing" \in list[u]}

-----------------------------------------------------------------------------
(* The server. *)

(* The handler of a user changes the participants and has to tell it. *)
Says(u, list, m) ==
  /\ job[u] = Idle
  /\ record' = list
  /\ job' = [job EXCEPT ![u] = Broadcasting(m)]

(* handleSignalMessage, up to the broadcast of the page's status. *)
handleSignalMessage ==
  LET m == Head(sent) IN
  /\ sent # <<>>
  /\ Says(Me, Flagged(record, Me, StatusFlag(m.type), m.body), m)
  /\ sent' = Tail(sent)
  /\ UNCHANGED <<inbox, refresh, shown, handButton, media, off, call, switches, count, history>>

(* Another member joins, leaves, starts or stops sharing. *)
News(u) ==
  /\ \/ /\ u \notin DOMAIN record
        /\ Says(u, With(record, u, {}), Message("peer-joined", u, FALSE))
     \/ /\ u \in DOMAIN record
        /\ Says(u, Without(record, u), Message("peer-left", u, FALSE))
     \/ \E type \in {"screen-share-started", "screen-share-stopped"} :
          LET up == type = "screen-share-started" IN
          /\ u \in DOMAIN record
          /\ Says(u, Flagged(record, u, "screenSharing", up), Message(type, u, up))
  /\ Counted("news", MaxNews)
  /\ UNCHANGED <<inbox, sent, refresh, shown, handButton, media, off, call, switches, history>>

(* Broadcast, to the page if it is a member by then.  The list comes next. *)
Broadcast(u) ==
  /\ job[u].stage = "broadcast"
  /\ inbox' = IF Session THEN Append(inbox, job[u].what) ELSE inbox
  /\ job' = [job EXCEPT ![u] = IF @.what.type = "participants" THEN Idle ELSE Listing]
  /\ UNCHANGED <<record, sent, refresh, shown, handButton, media, off, call, switches, count,
                 history>>

(* broadcastParticipants, up to its broadcast. *)
SnapshotParticipants(u) ==
  /\ job[u] = Listing
  /\ job' = [job EXCEPT ![u] = Broadcasting(ListMessage(record))]
  /\ UNCHANGED <<record, inbox, sent, refresh, shown, handButton, media, off, call, switches,
                 count, history>>

-----------------------------------------------------------------------------
(* What the page gets to know. *)

(* deriveActiveSharerId: the page itself if it shares, or some sharer.     *)
(* "there" says whether there is a localParticipant.                       *)
Derived(list, there) ==
  IF there /\ isScreenSharing THEN {Me}
  ELSE IF Sharers(list) = {} THEN {None} ELSE Sharers(list)

(* Wrong variant: whoever is on stage stays there. *)
SyncedKeepingStage(list, there) ==
  LET mine == there /\ Me \in DOMAIN list IN
  /\ participants' = list
  /\ self' = IF mine THEN list[Me] ELSE self
  /\ handRaised' = IF mine THEN "handRaised" \in list[Me] ELSE handRaised
  /\ UNCHANGED activeSharerId

(* syncParticipants. *)
Synced(list, there) ==
  LET mine == there /\ Me \in DOMAIN list IN
  /\ participants' = list
  /\ self' = IF mine THEN list[Me] ELSE self
  /\ handRaised' = IF mine THEN "handRaised" \in list[Me] ELSE handRaised
  /\ activeSharerId' \in Derived(list, there)

(* The signal handlers.  handleScreenShareStarted believes its sender, the *)
(* end of a share or of a session looks for another sharer.                *)
Receive ==
  LET m == Head(inbox)
      list == CASE m.type = "peer-joined" -> With(participants, m.from, {})
                [] m.type = "peer-left"   -> Without(participants, m.from)
                [] OTHER -> Flagged(participants, m.from, StatusFlag(m.type), m.body)
  IN
  /\ inbox # <<>>
  /\ inbox' = Tail(inbox)
  /\ IF m.type = "participants" THEN Synced(m.body, TRUE)
     ELSE /\ participants' = list
          /\ self' = IF Me \in DOMAIN list THEN list[Me] ELSE self
          /\ activeSharerId' \in
               CASE m.type = "screen-share-started" -> {m.from}
                 [] m.type \in {"screen-share-stopped", "peer-left"}
                      /\ activeSharerId = m.from -> Derived(list, TRUE)
                 [] OTHER -> {activeSharerId}
          /\ UNCHANGED handRaised
  /\ UNCHANGED <<record, job, sent, refresh, handButton, media, off, call, switches, count,
                 history>>

(* refreshRoom.  Bound: one request at a time. *)
ClickRefresh ==
  /\ Session /\ refresh.stage = "none" /\ Counted("clicks", MaxClicks)
  /\ refresh' = Request("asked", NoOne)
  /\ UNCHANGED <<server, shown, handButton, media, off, call, switches, history>>

(* The answer has the members of the page's room, or of an empty one that  *)
(* the room id field names; or the request fails.                          *)
Answer ==
  /\ refresh.stage = "asked"
  /\ refresh' \in {Request("answered", record), Request("answered", NoOne),
                   Request("none", NoOne)}
  /\ UNCHANGED <<server, shown, handButton, media, off, call, switches, count, history>>

(* The answer is shown, wherever the page is by then. *)
Refreshed ==
  /\ refresh.stage = "answered"
  /\ refresh' = Request("none", NoOne)
  /\ Synced(refresh.list, Session)
  /\ UNCHANGED <<server, handButton, media, off, call, switches, count, history>>

(* What the page shows of itself, with its localParticipant. *)
ShowSelf(flags) ==
  IF Session THEN self' = flags /\ participants' = With(participants, Me, flags)
  ELSE UNCHANGED <<self, participants>>

(* Wrong variant: whether there is a session is not asked. *)
SendAnyway(messages) == sent' = sent \o messages

(* sendSignal: without a session there is nowhere to send it. *)
sendSignal(messages) == sent' = IF Session THEN sent \o messages ELSE sent

-----------------------------------------------------------------------------
(* Sessions. *)

(* ensureLocalMedia, which keeps the stream there is, the welcome and      *)
(* handleWelcome.  The handler has the list still to broadcast.            *)
Join ==
  LET list == With(record, Me, {}) IN
  /\ ~Session /\ Counted("joins", MaxJoins)
  /\ record' = list
  /\ job' = [job EXCEPT ![Me] = Listing]
  /\ Synced(list, TRUE)
  /\ localStream' = IF localStream = None THEN Camera ELSE localStream
  /\ history' = [history EXCEPT !.dark = localStream' \in off]
  /\ UNCHANGED <<inbox, sent, refresh, handButton, screenStream, isScreenSharing, live, off, call,
                 switches>>

(* Wrong variant: the tracks run on. *)
ForgetScreenStream(ended) == live' = live \ ended /\ screenStream' = None

(* stopScreenStreamOnly, when some captures have ended by themselves. *)
stopScreenStreamOnly(ended) == live' = live \ ({screenStream} \cup ended) /\ screenStream' = None

(* Wrong variant: the page goes on sharing. *)
CleanupKeepingShare ==
  /\ participants' = NoOne /\ self' = {}
  /\ activeSharerId' = None
  /\ handRaised' = FALSE
  /\ UNCHANGED <<screenStream, isScreenSharing>>

(* cleanupSocketState forgets the capture and the hand, but neither the    *)
(* local stream nor the label of the hand's button.                        *)
cleanupSocketState ==
  /\ participants' = NoOne /\ self' = {}
  /\ activeSharerId' = None
  /\ handRaised' = FALSE
  /\ screenStream' = None
  /\ isScreenSharing' = FALSE

(* What the page sent last is lost with its handler. *)
SessionEnds ==
  /\ Session
  /\ record' = Without(record, Me) /\ job' = [job EXCEPT ![Me] = Idle]
  /\ inbox' = <<>> /\ sent' = <<>>
  /\ cleanupSocketState
  /\ history' = [history EXCEPT !.torn = @ \/ Pending # {} \/ switches # <<>>,
                                !.forsaken = @ \/ isScreenSharing, !.kept = handButton]
  /\ UNCHANGED <<refresh, handButton, localStream, off, call, switches, count>>

(* leaveRoom stops the capture first. *)
Leave == SessionEnds /\ live' = live \ {screenStream}

(* The server or the network ends the session. *)
CloseEvent == SessionEnds /\ UNCHANGED live

-----------------------------------------------------------------------------
(* Screen sharing. *)

(* toggleScreenShare, when the page does not share: the user is asked. *)
ClickShare(c) ==
  /\ Session /\ ~isScreenSharing /\ call[c] = "idle"
  /\ call' = [call EXCEPT ![c] = "prompt"]
  /\ history' = [history EXCEPT !.hasty = @ \/ Pending # {}]
  /\ UNCHANGED <<server, refresh, shown, handButton, media, off, switches, count>>

Refused(c) ==
  /\ call[c] = "prompt"
  /\ call' = [call EXCEPT ![c] = "done"]
  /\ UNCHANGED <<server, refresh, shown, handButton, media, off, switches, count, history>>

(* The capture runs, and startScreenShare waits for applyConstraints. *)
Granted(c) ==
  /\ call[c] = "prompt"
  /\ call' = [call EXCEPT ![c] = "tuning"]
  /\ live' = live \cup {c}
  /\ UNCHANGED <<server, refresh, shown, handButton, localStream, screenStream, isScreenSharing,
                 off, switches, count, history>>

(* startScreenShare from there to its next await, wherever the page is by  *)
(* then.                                                                   *)
startScreenShare(c) ==
  /\ call[c] = "tuning"
  /\ call' = [call EXCEPT ![c] = "done"]
  /\ screenStream' = c
  /\ isScreenSharing' = TRUE
  /\ activeSharerId' = IF Session THEN Me ELSE None
  /\ localStream' = c
  /\ switches' = Append(switches, "start")
  /\ UNCHANGED <<server, refresh, participants, self, handRaised, handButton, live, off, count,
                 history>>

(* Wrong variant: the page goes on with the stream it has. *)
LastStream == localStream

Fallback == Camera

(* stopScreenShare up to its await. *)
stopScreenShare(ended) ==
  /\ isScreenSharing' = FALSE
  /\ ShowSelf(Put(self, "screenSharing", FALSE))
  /\ activeSharerId' = IF Session /\ activeSharerId = Me THEN None ELSE activeSharerId
  /\ stopScreenStreamOnly(ended)
  /\ localStream' = Fallback
  /\ switches' = Append(switches, "stop")
  /\ UNCHANGED <<server, refresh, handRaised, handButton, off, call, count, history>>

(* toggleScreenShare, when the page shares. *)
ClickStop == Session /\ isScreenSharing /\ stopScreenShare({})

(* Wrong variant: nobody listens for the end of a capture. *)
Unheard(c) == FALSE

(* startScreenShare has attached its listener for the end of the capture. *)
Heard(c) == call[c] = "done"

(* The user ends a capture in the browser, and the listener stops whatever *)
(* is shared by then.                                                      *)
CaptureEnds(c) ==
  /\ c \in live
  /\ IF Heard(c) /\ isScreenSharing THEN stopScreenShare({c})
     ELSE /\ live' = live \ {c}
          /\ history' = [history EXCEPT !.missed = @ \/ call[c] = "tuning"]
          /\ UNCHANGED <<server, refresh, shown, handButton, localStream, screenStream,
                         isScreenSharing, off, call, switches, count>>

(* What sendMuteChanged says of the camera, and what it does. *)
Muted == localStream' = None \/ localStream' \in off'

Status(type, up) == Message(type, Me, up)

(* Wrong variant: the camera is not mentioned. *)
AnnouncedSilently(start) ==
  /\ ShowSelf(IF start THEN Put(self, "screenSharing", TRUE) ELSE self)
  /\ sendSignal(<<Status(IF start THEN "screen-share-started" ELSE "screen-share-stopped", start)>>)
  /\ UNCHANGED history

(* The others are told of a start or stop, and how the camera is now. *)
Announced(start) ==
  /\ ShowSelf(Put(IF start THEN Put(self, "screenSharing", TRUE) ELSE self, "videoMuted", Muted))
  /\ sendSignal(<<Status(IF start THEN "screen-share-started" ELSE "screen-share-stopped", start),
                  Status("mute-changed", Muted)>>)
  /\ history' = [history EXCEPT !.dark = FALSE]

(* Wrong variant: the last to begin is the first to end. *)
SwitchedLast ==
  /\ switches # <<>>
  /\ UNCHANGED <<record, job, inbox, refresh, activeSharerId, handRaised, handButton, media, off,
                 call, count>>
  /\ switches' = SubSeq(switches, 1, Len(switches) - 1)
  /\ Announced(switches[Len(switches)] = "start")

(* replaceOutgoingTracks and renegotiateAllPeers are done, whatever the    *)
(* page does by then.                                                      *)
Switched ==
  /\ switches # <<>>
  /\ UNCHANGED <<record, job, inbox, refresh, activeSharerId, handRaised, handButton, media, off,
                 call, count>>
  /\ switches' = Tail(switches)
  /\ Announced(Head(switches) = "start")

(* A connection fails or has been closed: nothing more comes of it. *)
SwitchFails ==
  /\ switches # <<>>
  /\ switches' = Tail(switches)
  /\ history' = [history EXCEPT !.cut = TRUE]
  /\ UNCHANGED <<server, refresh, shown, handButton, media, off, call, count>>

-----------------------------------------------------------------------------
(* Camera and hand. *)

toggleVideo ==
  LET target == IF isScreenSharing THEN screenStream ELSE Camera IN
  /\ Session /\ Counted("clicks", MaxClicks)
  /\ off' = IF target \in off THEN off \ {target} ELSE off \cup {target}
  /\ UNCHANGED <<record, job, inbox, refresh, activeSharerId, handRaised, handButton, media, call,
                 switches>>
  /\ ShowSelf(Put(self, "videoMuted", Muted))
  /\ sendSignal(<<Status("mute-changed", Muted)>>)
  /\ history' = [history EXCEPT !.dark = FALSE]

(* Wrong variant: the message carries the hand as it was. *)
ToggleHandLate ==
  /\ Session /\ Counted("clicks", MaxClicks)
  /\ handRaised' = ~handRaised
  /\ handButton' = handRaised'
  /\ ShowSelf(Put(self, "handRaised", handRaised'))
  /\ sendSignal(<<Status("hand-raised", handRaised)>>)
  /\ history' = [history EXCEPT !.kept = FALSE]
  /\ UNCHANGED <<record, job, inbox, refresh, activeSharerId, media, off, call, switches>>

toggleHandRaise ==
  /\ Session /\ Counted("clicks", MaxClicks)
  /\ handRaised' = ~handRaised
  /\ handButton' = handRaised'
  /\ ShowSelf(Put(self, "handRaised", handRaised'))
  /\ sendSignal(<<Status("hand-raised", handRaised')>>)
  /\ history' = [history EXCEPT !.kept = FALSE]
  /\ UNCHANGED <<record, job, inbox, refresh, activeSharerId, media, off, call, switches>>

(* pickStageSource: who is on stage as a sharer, and which stream of the   *)
(* page itself.                                                            *)
Stage ==
  [of |-> activeSharerId, own |-> IF Session /\ activeSharerId = Me THEN localStream ELSE None]

-----------------------------------------------------------------------------
(* Nothing is under way, but perhaps a refresh. *)
Quiet ==
  /\ inbox = <<>> /\ sent = <<>> /\ switches = <<>>
  /\ \A u \in Users : job[u] = Idle

AtRest == Quiet /\ UNCHANGED vars

Next ==
  \/ handleSignalMessage
  \/ \E u \in Others : News(u)
  \/ \E u \in Users : Broadcast(u) \/ SnapshotParticipants(u)
  \/ Receive \/ ClickRefresh \/ Answer \/ Refreshed
  \/ Join \/ Leave \/ CloseEvent
  \/ \E c \in Captures :
       ClickShare(c) \/ Refused(c) \/ Granted(c) \/ startScreenShare(c) \/ CaptureEnds(c)
  \/ ClickStop \/ Switched \/ SwitchFails \/ toggleVideo \/ toggleHandRaise
  \/ AtRest

Spec == Init /\ [][Next]_vars

-----------------------------------------------------------------------------
(* Properties.  The exceptions they make are in history:                   *)
(*   hasty     a share was asked for while another was on its way          *)
(*   torn      a session ended while a share was starting or stopping      *)
(*   forsaken  a session ended while the page shared                       *)
(*   cut       the peer connections did not finish a start or stop         *)
(*   missed    a capture ended before its listener was attached            *)
(*   dark      the session began with the camera off                       *)
(*   kept      the session before ended with the hand up                   *)

Flags == {"videoMuted", "handRaised", "screenSharing"}
Lists == UNION {[M -> SUBSET Flags] : M \in SUBSET Users}
StatusTypes == {"mute-changed", "hand-raised", "screen-share-started", "screen-share-stopped"}
StatusMessages == [type : StatusTypes, from : {Me}, body : BOOLEAN]
Messages ==
  [type : StatusTypes \cup {"peer-joined", "peer-left"}, from : Users, body : BOOLEAN]
    \cup [type : {"participants"}, from : {None}, body : Lists]
Jobs == [stage : {"idle", "list"}, what : {None}] \cup [stage : {"broadcast"}, what : Messages]

(* Every variable keeps its type; nothing waits for or from a page that is *)
(* no member; and what the page shows of itself is its localParticipant.   *)
TypeOK ==
  /\ record \in Lists /\ job \in [Users -> Jobs]
  /\ inbox \in Seq(Messages) /\ sent \in Seq(StatusMessages)
  /\ refresh \in [stage : {"none", "asked", "answered"}, list : Lists]
  /\ participants \in Lists /\ self \in SUBSET Flags
  /\ activeSharerId \in Users \cup {None}
  /\ {handRaised, handButton, isScreenSharing} \subseteq BOOLEAN
  /\ localStream \in Streams \cup {None} /\ screenStream \in Captures \cup {None}
  /\ off \in SUBSET Streams /\ live \in SUBSET Captures
  /\ call \in [Captures -> {"idle", "prompt", "tuning", "done"}]
  /\ switches \in Seq({"start", "stop"})
  /\ count \in [joins : Nat, news : Nat, clicks : Nat]
  /\ history \in [hasty : BOOLEAN, torn : BOOLEAN, forsaken : BOOLEAN, cut : BOOLEAN,
                  missed : BOOLEAN, dark : BOOLEAN, kept : BOOLEAN]
  /\ ~Session => inbox = <<>> /\ sent = <<>> /\ job[Me] = Idle
  /\ Session /\ Me \in DOMAIN participants => participants[Me] = self

(* A capture runs only while the page shares it or is about to: none is    *)
(* forgotten with its tracks running.                                      *)
CaptureKnown ==
  ~history.hasty /\ ~history.torn /\ ~history.forsaken =>
    live \subseteq {screenStream} \cup Pending

(* What goes out is the capture while the page says it shares and the      *)
(* camera while it says it does not, until a session ends while the page   *)
(* shares (SentIsTagged is about what comes of that).                      *)
OnlyTheShareIsSent ==
  ~history.forsaken =>
    localStream = IF isScreenSharing THEN screenStream
                  ELSE IF count.joins = 0 THEN None ELSE Camera

(* The page says it shares only while the capture runs.                    *)
ShareIsLive == isScreenSharing /\ ~history.missed => screenStream \in live

(* Nobody shares outside a meeting.                                        *)
ShareIsInSession == isScreenSharing /\ ~history.torn => Session

(* When all is done, the server and with it every member knows whether the *)
(* page shares, however quickly starts and stops followed each other.      *)
FlagIsTrue ==
  Quiet /\ Session /\ ~history.torn /\ ~history.cut =>
    (Me \in Sharers(record) <=> isScreenSharing)

(* When all is done, the stage fits what the page shows beside it: its own *)
(* capture if it shares, whoever else has started and whatever older list  *)
(* or refresh has come in between, else one who shares by the list shown,  *)
(* if anybody does.                                                        *)
StageFitsList ==
  Quiet /\ Session /\ ~history.cut =>
    IF isScreenSharing THEN Stage = [of |-> Me, own |-> screenStream]
    ELSE IF Sharers(participants) = {} THEN Stage.of = None
    ELSE Stage.of \in Sharers(participants)

(* When all is done, the others see the camera off exactly when nothing of *)
(* it goes out.                                                            *)
MuteIsTrue ==
  Quiet /\ Session /\ ~history.cut /\ ~history.dark =>
    ("videoMuted" \in record[Me] <=> localStream \in off)

(* When all is done, the server has the hand as the button has it, though  *)
(* the lists that come between click and echo overwrite handRaised, from   *)
(* which the next click goes on.                                           *)
HandIsTrue ==
  Quiet /\ Session /\ ~history.kept => (handButton <=> "handRaised" \in record[Me])

(* index.html has a tag for the page that shares, shown by isScreenSharing *)
(* alone: no capture that runs goes out to a meeting without it.           *)
SentIsTagged == Session /\ localStream \in live => isScreenSharing
=============================================================================

# LocalAreaNetworkLive in TLA+

This directory specifies the meeting server of this repository (Go, `internal/`,
`cmd/`) and, step by step, the browser client (`web/app.js`) in TLA+, checks the
specifications with TLC and proves theorems about them with TLAPS.
`PROJECT.json` holds the same facts in a form for tools: the components, the
runs, the lines of source behind every definition, the hazards and the theorems.

## 1. Inventory

### The system

A Go process serves a page and keeps, in memory, a **hub** of **rooms**. A
browser creates a room over HTTP, then opens a WebSocket with a room id, a user
id and a name in the query string. From then on one goroutine (the **handler**)
reads the browser's messages and a second one (the **writer**) sends it what
others put in its channel. Everything between two browsers goes through the
room: joins, leaves, status flags, chat, and the WebRTC offers, answers and
candidates with which the browsers set up their direct media connections.

| Component | State | Operations | Interacts with |
|---|---|---|---|
| Room (`internal/meeting/room.go`) | `participants` (user id to session: record and channel), `chatHistory`, `mu` (RWMutex) | AddParticipant, RemoveParticipant, UpdateParticipant, SnapshotParticipants, AppendChatMessage, ChatHistory, Broadcast, SendTo | called by every handler; channels read by writers |
| Hub (`internal/meeting/hub.go`) | `rooms`, `mu` (RWMutex) | CreateRoom, GetRoom, DeleteRoomIfEmpty, RoomSummary | handlers and HTTP; takes a room's lock while it holds its own, never the other way round |
| Connection handlers (`internal/app/server.go`, `cmd/server/main.go`) | position in `handleWebSocket`, the context, the writer | join, welcome, relay, status, chat, cleanup | room, hub, transport |
| HTTP API and static files (`server.go`) | none | create, query, health, files | hub |
| Transport (`internal/transport/`) | buffered reader | upgrade, read a frame, write a frame | handlers |
| Browser: participants and chat (`app.js`) | `state.participants`, `state.chatMessages`, `activeSharerId` | `handleSignal` and the handlers under it | server messages in, `sendSignal` out |
| Browser: session life cycle | `state.socket`, `state.roomId`, `state.localStream`, the room id field | createRoom, joinRoom, openSocket, leaveRoom, cleanupSocketState, refreshRoom | HTTP API, WebSocket events |
| Browser: peer connections | `state.peers`, `state.remoteStreams` | ensurePeerConnection, offer/answer/candidate handlers, closePeer | RTCPeerConnection (external), relay through the server |
| Browser: media and screen sharing | tracks, `isScreenSharing` | ensureLocalMedia, startScreenShare, stopScreenShare, renegotiateAllPeers, toggles | peer connections, status messages |
| Browser: rendering | none of its own | render*, toast, log | the state above |

### What is hard

- **Every lock is short.** A handler that joins, leaves, changes a status or
  sends a chat message makes two to five calls into the room, each with a lock
  of its own, and other handlers act in between.
- **`Broadcast` shares its lock.** It holds `mu` for reading: two broadcasts walk
  the participants at once, in map order, so two receivers may see two messages
  in different orders. Removal, which closes channels, is kept out meanwhile.
- **One user id, several connections.** Ids come from the query string; a second
  connection takes the id over, and whichever of the two ends first removes the
  session of the other.
- **Bounded channels that drop.** 16 messages per session, the rest is lost
  without a trace; until the welcome and the first broadcasts are out, a session
  has a channel and no writer.
- **The welcome overlaps the channel.** The session is registered first; the
  participant list and the history are read afterwards.
- **Two locks and a room that goes away.** `DeleteRoomIfEmpty` holds the hub's
  lock, `AddParticipant` does not take it.
- **A client may stop reading** and its writer then blocks in the socket, or its handler
  itself, which writes the welcome.
- **In the browser**, nearly every operation awaits something between what it
  tests and what it sets, and events of the socket, of the peer connections and
  of the user arrive meanwhile.

The list with a line for each is under `hazards` in `PROJECT.json`.

### What makes each component correct

- *Room*: no send on a closed channel; channels and history within bounds; a
  broadcast reaches who is there.
- *Hub*: an expired room that empties is deleted, one with members is not.
- *Handlers*: a session in the map belongs to a handler that will remove it;
  a connection is cut off only by one with the same id; everybody is told the
  final list; nobody waits for a slow client.
- *Browser, participants and chat*: no chat message is missed or doubled, a
  sender's order is kept, the list shown is the present one, and of two members
  one is to make the offer.
- *Browser, session*: at most one live socket per page, known to the page; a dead one
  never blocks the next join; what is shown belongs to the present session.
- *Peer connections*: any two members end up with the same offer and answer and with a
  way to reach each other, and somebody listens when tracks are announced.
- *Media and sharing*: what goes out is what the page says goes out, no capture runs
  on unknown to the page, and what the others believe of its share, camera and
  hand becomes true.
- *Transport*: what one side encodes the other decodes, at every length.

## 2. Modules

| Module | Models | Depends on |
|---|---|---|
| `Room.tla` | the room's methods, one operator each, and the message types | |
| `Hub.tla` | the life of one room in the hub, and the hub's lock | |
| `Presence.tla` | abstract: who holds a user id | |
| `Server.tla` | handlers and writers over one room: `Spec`, `FairSpec`, properties | Room, Hub, Presence |
| `Meeting.tla` | Server and what each browser shows: `MeetingSpec`, properties | Server |
| `Client.tla` | the session life cycle of one page, with its sockets | |
| `Negotiation.tla` | the peer connections of the pages in a room, over the relay | |
| `ScreenShare.tla` | what one page sends and shows: captures, camera, hand, stage | |
| `Frame.tla` | the frame codec, as far as lengths and bytes taken go | |
| `MCServer.tla`, `MCMeeting.tla`, `MCClient.tla`, `MCNegotiation.tla`, `MCScreenShare.tla` | instances for TLC | the module of that name |
| `RoomProofs.tla` | what each room method keeps (TLAPS) | Room |
| `ServerProofs.tla` | type invariant, session invariants, implementation of Presence (TLAPS) | Server, RoomProofs |
| `MeetingProofs.tla` | what the pages show: types, `OneIsToOffer`, `EverybodyWasTold` (TLAPS) | Meeting, ServerProofs |
| `ChatProofs.tla` | order and completeness of the chat on every page (TLAPS) | MeetingProofs |
| `ClientProofs.tla` | the invariants of the page's session (TLAPS) | Client |
| `ScreenShareProofs.tla` | the invariants of what a page sends and shows (TLAPS) | ScreenShare |
| `NegotiationProofs.tla` | types, agreement, listeners and candidates of the peer connections (TLAPS) | Negotiation |
| `FrameProofs.tla` | frames of every length are read whole (TLAPS) | Frame |

### How the models correspond to the code

**One room.** Rooms share only the hub's map and its lock, and ids are random, so
one room is enough; the hub is whether that room is listed.

**Connections.** `Conns` are calls of `handleWebSocket`; `UserOf` gives the user id
of each, and two may have the same. A connection makes one session, so the
channel it created is `queue[c]`, and `participants[u]` is the connection whose
session is registered under `u`.

**Steps.** `pc[c]` is where a handler is; each call into the room or the hub is one
step, for each is one critical section. `Broadcast` is a step per recipient, in any
order. It holds the lock from its first recipient to its last: taking the read
lock earlier or giving it back later only delays others, and changes nothing they
see. A handler at `refuse` has an error reply to send, one at `echo` a
broadcast. `WriteLock` and `HubLock` are the two mutexes; a step that needs one is
not enabled while it is taken. `RWMutex` lets a waiting writer pass before new
readers, the models do not, which only adds behaviours.

**Writers.** `writer[c]` is the goroutine that empties the channel. `Deliver` is the
write and the browser's event in one step; a slow client is a writer that does not
step. After a failed write the handler keeps reading, as in the code. A cancelled
context and a message in the channel may both be ready: the writer may take either.

**Data.** A status message carries the flags it puts up, a chat message its sender
and a number that stands for the unique id, a relayed message its type. The sender of
a chat message is its connection, where the code sends the user id: two connections may
share an id, and each keeps an order of its own. Names, roles,
times and the payload of offers are left out. An empty chat text and an unknown
type are the input `"invalid"`.

**The browser.** In `Meeting`, `view` and `transcript` are what the page at the other end of
a connection shows, and `others` is the list `handleWelcome` draws up of those it is to make an
offer to. The handlers write all of this before their first `await`, so a message is one
step. The loop over `others` awaits each offer before the next and may never get to its end; it
is part of `Negotiation`. `fresh` is a history variable: who has been told the present list.

**The page's session.** `Client` stands beside the server models: its server is only what
the sockets and the answers to requests show of it. A browser runs one thing at a
time, so a step is a stretch of JavaScript between two awaits. `call[k]` is how far the
`createRoom` or `joinRoom` of a click has come, `net[s]` what became of a socket, and
`socket` is `state.socket`. The listeners of a socket do not ask whether it is still the
page's, so any socket may take those steps. `field` is the input field of the room id, which the
user edits (`EditRoom`) and `createRoom` sets; `joinRoom` reads it, and so does `refreshRoom`,
during a meeting too. `target` is the room a running `joinRoom` has read, `roomOf` the room of a
socket. `shown` identifies a participant list by its room, and `asked` are the refreshes on their
way. `hasty`, `late` and `strayed` are history variables: the user did not wait, an answer came
after its session, a refresh asked for a room other than the session's. Left out:
`startRoomPolling`, which nothing calls. What `leaveRoom` and `cleanupSocketState` do to peer
connections and captures is in the two modules that follow.

**Peer connections.** `Negotiation` has several pages. `peer[p][q]` is the connection that page
`p` keeps for `q` in `state.peers`, or `None`; `inbox[p]` is the channel and the socket together,
first in first out. The handlers of a page do not wait for each other: `handleOffer` awaits, and
the next message is handled meanwhile. So a handler is cut at its awaits. What it does next is an
operation at the end of the connection's queue (`setRemote`, `createAnswer`, `setLocal`,
`createOffer`, `addCandidate`), and whoever made the connection first waits for
`syncPeerSenders` (`waiting`, ended by `SendersReady`), which is also when its listeners are
attached (`heard`). `rest` is what is left of `handleWelcome`'s loop, which turns to the next
member only when the offer to this one is out. `RTCPeerConnection` is external and modelled as
the code relies on it: operations run one at a time in the order they were asked for; an offer
that meets an own offer rolls it back; an operation its signalling state does not allow is
refused, which ends the handler; nothing settles once the connection is closed, so replacing an
entry of `peer` loses its operations. An offer is a page and a number, a description says what
had been gathered when it was made, and the many candidates of a connection are one. The relay
is immediate and no channel overflows (that is `Server`'s subject); a page joins again only
when the server has seen the end of its last session. `overlap` and `stray` are history
variables: an offer was begun while these two were in the middle of a negotiation, and a
candidate arrived before any offer and made a connection. So is `cut`: a departure closed a
connection over which `handleWelcome`'s loop had an offer to make and others still on its list.
`Pending` are the operations still to come over a connection.

**Media and sharing.** `ScreenShare` has one page, and of the server what the page gets to see:
`record` is the participants with their flags, `job[u]` what the handler of a user is about to
do, `inbox` what has been broadcast to the page, `sent` what the page has sent. As in
`Server`, a handler changes the record (`handleSignalMessage`, or `News` for the other members),
broadcasts the change, takes the list and broadcasts it in separate steps, so the handler of
another member may broadcast an older list last. `refresh` is the request of `refreshRoom`, whose
answer goes through `syncParticipants` as a list does; the room in the field is the meeting's or
an empty one. `self` is `state.localParticipant`, `handButton` what the label of the hand's button
says. `call[c]` is where the `toggleScreenShare` for a capture
is: at the browser's picker, or waiting for `applyConstraints`. `startScreenShare` and
`stopScreenShare` then run up to their await of the peer connections; `switches` are
those that wait, and `Switched` is what each does when it goes on: the flags, the announcement,
`sendMuteChanged`. They go on in the order they began, since the connections work in
order; `SwitchFails` is one whose connection fails or is closed. `live` are the captures whose
tracks run, `off` the streams whose video track is disabled. Joining is one step with
the welcome, the camera is there, and audio, which has the form of video, is left out. `history`
says which exceptional things have happened; each property names the ones it cannot stand.

**Frames.** `Frame` has a payload as its length. `buildTextFrame` and `BrowserFrame` are the bytes
before it, `readFrame` says how long a reader takes the payload to be and how many bytes it
takes from the stream.

**Wrong variants.** A few operators are marked as a wrong variant. No specification
uses them: each is a plausible mistake in the definition that follows it, and with
it in the place of that definition a run finds the property named in
`PROJECT.json` under `mutants` violated.

## 3. Runs

Runs that pass:

| Run | Instance | Shows |
|---|---|---|
| `server_sessions` | 3 connections, two with one id; one client message of four kinds; room may expire | `NoSendOnClosed`, `BroadcastReachesPresent`, `RegisteredIsLive`, `CutOffOnlyByTakeover`, `ImplementsPresence` |
| `server_progress` | 2 connections, channels of one message, room expires | `TypeOK`, `SlowClientsStallNobody`, `ExpiredRoomIsSwept` |
| `meeting_roster` | 2 connections, channels of 2, one status message | `MeetingTypeOK`, `EverybodyWasTold`, `OneIsToOffer` |
| `meeting_chat` | 2 connections, channels of 2, history of 2, two chat messages | `NoChatMissed`, `SenderOrderKept` |
| `client_session` | 3 clicks on create or join, 3 sockets, 2 rooms; edits, refreshes and leaving at any time | `TypeOK`, `SocketIsLive`, `CanLeave`, `NoOrphanUnlessHasty`, `ShownIsCurrent` |
| `negotiation` | 2 pages, 4 sessions, one renegotiation, sessions the network ends | `TypeOK`, `AgreeUnlessSpoilt`, `TracksAreHeard`, `SomeCandidate` |
| `screen_share` | 2 captures, 2 sessions, one click on camera, hand or refresh; with one capture also another member that does two things (joins, leaves, shares, stops) | `TypeOK`, `CaptureKnown`, `OnlyTheShareIsSent`, `ShareIsLive`, `ShareIsInSession`, `FlagIsTrue`, `StageFitsList`, `MuteIsTrue`, `HandIsTrue` |

Runs that find a statement of the repository, in its README or in a message to the user, violated:

| Run | Statement | What happens |
|---|---|---|
| `stale_list` | joins, leaves and status changes are broadcast, so the list shown is the present one | two handlers snapshot in one order and broadcast in the other; the older list is applied last and stays. `EverybodyWasTold` says how far the code gets: everybody was sent the right list, perhaps not last |
| `members_query` | the members of a room can be queried | a handler that found the room joins it after `DeleteRoomIfEmpty` saw it empty: members of a room that answers 404 |
| `two_meetings` | whoever is in a meeting already does not join again (`joinRoom`'s message) | two clicks on join before the first has opened its socket open two. `NoOrphanUnlessHasty` says what does hold |
| `left_out` | the new member makes a connection to every member, one by one | a member leaves while the newcomer prepares its offer to it; the connection is closed, the awaited operation never settles, and the loop of `handleWelcome` never turns to the third member (`cut`). Two members whose offers cross end up the same way (`overlap`) |
| `unshown_share` | the tag for one's own share on the page is shown exactly while one shares | the socket closes during a share: `cleanupSocketState` forgets the share but keeps the capture as local stream, and after the next join it goes out untagged |

Three more things were seen while modelling and have no run of their own; the properties name
them as exceptions or stop short of them:

- A room that empties before its retention time is over is never looked at again and stays in the
  hub, though the repository's `README.md:117` says that rooms are destroyed when nobody is in them (`hub.go:52` is
  reached from `server.go:160` only). `ExpiredRoomIsSwept` says what does hold.
- `refreshRoom` asks for the room in the input field (`app.js:719`), which the user edits and
  `createRoom` sets, also during a meeting: the page then shows the members of another room
  (`strayed`). `ShownIsCurrent` says what holds of those who do neither.
- An answer to a refresh, or a list of another handler, that was taken before the hand went up and
  comes last puts `handRaised` down, but not the label of the button (`app.js:823`): the next click
  on "lower" raises the hand again. `HandIsTrue` says that the server goes with the button.

### Bounds

- *Two or three connections.* The hazards are between two handlers; the third, in
  `server_sessions`, is a bystander of two that share an id. The proofs cover any number.
- *`QueueCap`* is 1 or 2 for 16: channels overflow in every run. The properties about
  what browsers show speak of connections whose channel never did (`dropped`).
- *`MaxReads`* bounds the client messages of a behaviour (0 to 2), `Inputs` their types.
- *`HistoryLimit`* is as large as the messages sent in `meeting_chat`: `HistoryWhole`, the
  assumption of the chat properties, holds. Beyond the limit they fail: a message still in
  the channel of a client that reads its history 100 messages later is shown after newer ones.
- *`MayExpire`* says whether the retention time runs out in the instance.
- *Views.* `HandlerView` leaves out the content of the channels and the writers:
  no step of a handler reads them, and no property of that run speaks of them.
  `LiveView` and `ChatView` leave out what a connection whose writer is done shows,
  which never changes again and no property looks at, and what the run's
  properties do not mention (`others`, `view` in the chat run; no step that matters to them
  reads either). Runs with a liveness property use no view and no symmetry.
- *`Calls` and `Sockets`* are 3 in `client_session`: an orphaned socket, a current one and one
  about to close. `Rooms` are 2: the room of the session and another. The proofs cover any number.
- *Four sessions of two pages* in `negotiation` are enough for both to have come back after the
  other did, over connections left behind by a lost session. `Unspoilt` explores nothing after
  an overlap or a cut, of which the properties say nothing; with two pages no list is ever cut.
  `left_out` has three pages, as the loop needs a next member. The proofs cover any number of
  pages, sessions and renegotiations.
- *Two captures and two sessions* in `screen_share`: a share forgotten for another, and one that
  outlives its session. `MaxNews` is what another member does (2: it joins and shares, so that an
  older list has something to be wrong about), `MaxClicks` the user's clicks on camera, hand and
  refresh. `Budget` says how much of all this happens in one behaviour: five things, and the
  other member beside one capture only, since what it does is nothing to captures. `MaxInbox` and
  `MaxSent` are 2, a change and a list on their way. `Unspoilt` cuts what follows a failed
  announcement. The proofs have none of these bounds.
- *Symmetry* permutes clicks and sockets in `Client`, pages, captures and other members in the
  modules after it; in the server's runs it permutes connections, each with its own user id; only
  in runs of invariants.

### Fairness

`FairSpec` has weak fairness for the steps a handler takes without waiting for its
client (`HandlerStep`), one condition per connection, and for the passing of the retention time.
The Go scheduler runs every runnable goroutine and `RWMutex` starves nobody. There is none
for clients, who may stay silent for ever, and none for writes to a socket, which have no
deadline and block while the peer reads nothing: neither for the writers nor for the welcome,
which the handler writes itself (`WelcomeStep`). A client that never reads its welcome holds its
own handler there and stays a member; `SlowClientsStallNobody` says that it holds up nobody else.

`Client` promises no progress: a user may stop clicking, and neither the network nor the
permission dialog for the camera owes an answer. Neither do `Negotiation` and `ScreenShare`,
where a connection may never finish an operation: what should come of all this is stated of
the states in which nothing is under way (`Quiet`).

Deadlock is checked in every run; `AllOver` is the idle server after the last connection,
`AtRest` the idle page or pages.

## 4. Proofs

`tlapm` checks the eight modules whose names end in `Proofs` completely. The
theorems hold for any sets of connections and users, any assignment of ids to connections,
any capacity and history limit, any set of client messages, any sets of clicks and
sockets, any rooms, any set of pages, and any numbers of captures, members, sessions,
renegotiations and toggles. They rest on the named assumptions `RoomAssumption`, `HubAssumption`,
`ServerAssumption`, `ClientAssumption`, `ScreenShareAssumption`, `NegotiationAssumption` and
`NoneAssumption` only, which say of what kind the constants are and that the placeholders
(no connection, no message, no description) are none of the things they stand in for.

- `TypeCorrect`. `TypeOK` is not inductive: a broadcast sends `pending[c]`, which must be a
  message and not the placeholder, to a user who must be present for the channel to
  exist. `TypeInv` adds `PendingIsMessage` and `BroadcastReachesPresent`. `RoomProofs` has
  one lemma for each method; the step lemma has one step per action.
- `NoSendOnClosedHolds`, `RegisteredIsLiveHolds`, `CutOffOnlyByTakeoverHolds` and
  `BroadcastReachesPresentHolds`. Only joining and the two ways of leaving touch the
  participants map or move a connection between the stages `Fresh`, `Joined` and `Departed`
  (`StepKinds`); every other step is `Quiet`, so each invariant is argued three times and
  not twenty. `NoSendOnClosed` needs that a connection about to join has no closed channel
  yet (`ClosedHaveJoined`) and that a session is registered under one id only, its own
  (`RegisteredIsLive`).
- `PresenceImplemented`: the refinement mapping takes `participants` for the holders and
  the stages for who came and left; joining is `Come`, leaving is `Leave`, also when nobody
  held the id any more, and a quiet step stutters.
- `SocketIsLiveHolds` and `CanLeaveHolds` are inductive with the types: every close event
  clears `state.socket`, whichever socket it came from. `NoOrphanHolds` and
  `ShownIsCurrentHolds` need `PatientInv`: while the user waits for each action to end, one call
  runs at a time, a call past joinRoom's guard finds no socket, and no socket is still closing
  while there is a call or another socket. `ShownIsCurrent` also needs `AskedInv`: until a refresh
  has strayed, the one in flight asks for the room of the session it was clicked in.
- The nine theorems of `ScreenShareProofs` follow from one inductive invariant, `IInv`, of three
  parts. `TypeOK` needs `SharedStream` for the stream `toggleVideo` switches. `SharingInv` says how
  captures, calls and sessions go together: a page that shares sends a capture whose call is over,
  a waiting user shares nothing yet (unless `hasty`), and unless a session was torn nothing
  is left of it. `Shown` says what is true on the way to `Quiet`. Of the flags at the server: the
  last of the `switches` that wait says whether the page shares (`FlagInv`), and reading all that
  was sent will leave each flag as it should be (`WillBe`; `MuteInv`, `HandInv`), whatever lists
  come in between: `HandIsTrue` speaks of the button, which no list touches. Of the page: while
  messages wait, the last of them is a list or somebody still has one to broadcast
  (`EndsWithList`), and a list has the last word on who is on stage (`StageInv`). Which list it is
  does not matter, and is not known: it may be an older one of another handler.
- `FramesAreRead`: a frame of any length below 2^32, plain from the server or masked from a
  browser, is read as it was written and to its last byte. There is no run for it: a codec has no
  states, and the theorem covers the lengths around 126 and 65536 with all others.

- `MeetingTypeCorrect`. Every step of `Meeting` is a step of `Server`, so `ServerInv` holds. What a
  page shows has its type because a handler at `welcome` has a list to send (`WelcomeHasList`).
  `ReadersBroadcast` is for the later ones: who holds the read lock still has somebody to send to.
- `OneIsToOfferHolds` needs to say of earlier stages what the property says of later ones.
  `PairInv`: of two registered connections that have taken their list, one has found the other in
  it, whether or not its welcome is out (`FoundBy`): the one that was registered later.
- `EverybodyWasToldHolds`. `ToldInv`: every tracked connection has read the present list, has it in
  its channel, or somebody owes it: a handler that is about to take a snapshot
  (`Announcing`), or one whose broadcast of the present list has not passed this connection
  (`Publishing`). Every change of the list makes somebody owe, and a debt is
  handed on when its owner is thrown out or its list is overtaken by another change.
- `SenderOrderKeptHolds` and `NoChatMissedHolds` follow from one invariant, `ChatInv`, under
  `HistoryWhole`. A message being broadcast is the last of its sender (`EchoIsLast`), since a handler
  ends a broadcast before it reads on; so the messages of a sender are in order in every channel
  (`QueueOrdered`), and one in the channel is either shown, by the welcome, or newer than all of its
  sender that are (`QueueIsNewer`). `ChatArrives`: each message of the history is shown, in the
  channel or on its way to every tracked connection.
- `NegotiationProofs!TypeCorrect` needs that the members are finitely many, for a welcome has a
  list to send. `AgreeUnlessSpoiltHolds`, `SomeCandidateHolds` and part of `TracksAreHeardHolds`
  follow from `LinkInv`, which follows the negotiation of each pair through queues, operations and inboxes of
  both. The page that offers is `Preparing`, then its offer is on its way (`OfferOut`), the other
  applies it and makes its answer (`Answering`), the answer is on its way or being applied
  (`AnswerOut`), and the two are `Settled`; before the first of these one of them `Owes` the
  offer, since the other is on the list it has or will have. Each action takes one pair one phase
  further and leaves the others as they are (`PairKept`). It is inductive only with its other
  parts: an offer begins without another negotiation (`OffersAlone`); a `peer-left` still in an
  inbox is older than the offer that is needed (`Harmless`, `OneFarewell`: of two pages, only one
  can have missed the other's departure); no page has itself as peer; and whoever makes a
  connection has a step of a negotiation to do (`NoStray`). At `Quiet` only `Settled` is left of the phases.
- `SomeCandidateHolds` needs more of each phase. `addIceCandidate` refuses what comes before a
  description, and whoever makes a connection announces nothing until its listeners are attached;
  so the invariant speaks of the two pages together (`Met`): one of them has accepted a candidate,
  or has a description already and a candidate on its way to it (`Hears`, `OnItsWay`). In
  `Settled` they have met. Before it, what is still missing must be what a step to come will
  supply. When an offer is out, `Fit`: its maker listens, and the other side has gathered nothing
  yet, or the maker has a description already, or the other side hears. While the answer is made,
  `Fitted`: the same, but the answer may hold the candidates already. When the answer is out,
  `FittedWell`: it holds them, or they come behind it, in the inbox or among the operations
  (`Trails`), or the two have met. `NoStray` adds that candidates are gathered only once there is
  a description (`HasBegun`). That an action keeps this for the pairs it does not concern is
  `IceKept`: a candidate on its way stays so or is accepted, and one that trails a step keeps
  trailing it. All of it is left open once a candidate was `stray`. TLC checked the stronger
  `LinkInv` on two pages, four sessions and a renegotiation before it was proved.

- `TracksAreHeardHolds` needs that nobody comes between. `InTurns`: of two pages at most one has
  anything to do in their negotiation, and only one thing, a step to take or a message to read. So
  the step that made a connection, and with it waits for the listeners, is the only one there
  when they are attached, and a description that is applied later finds them. Each action does the
  one thing there is and leaves at most one new one, to one of the two (`TurnsFrame`).

Every invariant and every step property of the passing runs is a theorem. Only model-checked are
the liveness properties of `Server`, `SlowClientsStallNobody` and `ExpiredRoomIsSwept`: they rest
on fairness, and so on ENABLED, which the prover cannot reason about.

## 5. Not modelled, and the plan

Not modelled:

- Rendering and styles (no state of their own), logging, forms, links and validation of HTTP
  parameters (a refused request changes nothing), the choice between a file and the index page,
  `Server.Shutdown` (never called), the 101 handshake and the masking of payloads.
- The media of the peer connections: transceivers and the directions of their tracks
  (`ensureMediaTransceivers`), what a tile shows, and `connectionstatechange`, which takes a tile
  off when a connection fails or the other page closed its end. They need a model of the media and
  of the network between the pages, which the code has nothing to say about; the entry in
  `state.peers` stays, so negotiation goes on as modelled. `TracksAreHeard` says that the
  `track` listener is there when a description is applied, not that it is called. A page that
  lost its session keeps its connections, and `candidate` with them: that a candidate was
  accepted is said of the connection, not of the session.
- `toggleAudio` (the form of `toggleVideo`), a page without a camera, the grouping of tracks into
  remote streams.
- A late close event of an old socket in `ScreenShare` and `Negotiation`: `Client` shows when it
  can happen. Nor does `ScreenShare` have the handler of the page's last session still running
  beside the present one, or other members in the room a stray refresh asks for.
- Lost messages in the browser modules: `Server` drops what a full channel cannot take, and
  what such a page shows afterwards is promised by nothing.

What would come next, if the code changes:

1. What follows an overlap in `Negotiation`, if the code comes to handle crossing offers.
2. A history that has lost messages (`HistoryWhole`), if the code comes to promise an order then.

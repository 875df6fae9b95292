---------------------------- MODULE Negotiation ----------------------------
(***************************************************************************)
(* The peer connections of the pages in one room: state.peers of           *)
(* web/app.js, the signal handlers that work on it, and the relay between  *)
(* them.  Handlers do not wait for each other: what one has to do after an *)
(* await is an operation in the queue of its connection, or waits for the  *)
(* senders of that connection, while the next message is handled already.  *)
(*                                                                         *)
(* RTCPeerConnection is external and modelled from how it is used: it runs *)
(* the operations asked of it one at a time in their order, refuses what   *)
(* its signalling state does not allow, and settles nothing once closed.   *)
(* Its transceivers, and whether its media flow, are not modelled: what a  *)
(* tile shows, and when connectionstatechange takes it off, is not said.   *)
(***************************************************************************)
EXTENDS Naturals, SequencesExt

CONSTANTS
  Pages,
  None,       \* no connection, no description
  MaxJoins,   \* bound: sessions
  MaxShares,  \* bound: beginnings and ends of screen sharing
  MayDrop     \* whether the network may end a session

ASSUME NegotiationAssumption ==
  None \notin Pages /\ {MaxJoins, MaxShares} \subseteq Nat /\ MayDrop \in BOOLEAN

VARIABLES
  session,   \* of each page: "out", "joining" until it is welcomed, then "in"
  inbox,     \* what the server has for each page
  peer,      \* state.peers of each page
  made,      \* how many offers each page has created; they number the offers
  joins,     \* how many sessions there have been
  shares,    \* how many beginnings and ends of screen sharing
  overlap,   \* history: an offer was begun while the two were negotiating
  stray,     \* history: a candidate found no connection and made one
  cut        \* history: a departure ended a loop of handleWelcome early

sessionVars == <<session, made, joins, shares>>
history == <<overlap, stray, cut>>
vars == <<inbox, peer, sessionVars, history>>

Members == {p \in Pages : session[p] # "out"}

Init ==
  /\ session = [p \in Pages |-> "out"]
  /\ inbox = [p \in Pages |-> <<>>]
  /\ peer = [p \in Pages |-> [q \in Pages |-> None]]
  /\ made = [p \in Pages |-> 0]
  /\ joins = 0 /\ shares = 0
  /\ overlap = FALSE /\ stray = FALSE /\ cut = FALSE

-----------------------------------------------------------------------------
(* Messages, descriptions and operations. *)

Message(type, from, body) == [type |-> type, from |-> from, body |-> body]

(* What a connection has gathered before is part of its description. *)
Description(type, p, n, pc) ==
  [type |-> type, by |-> p, n |-> n, found |-> pc.gathering = "complete"]

(* What a handler asks of a connection.  handleWelcome's loop also carries *)
(* the members it turns to when its offer is out.                          *)
Op(do, desc, rest) == [do |-> do, desc |-> desc, rest |-> rest]

(* A new connection: the offer being negotiated, the descriptions agreed   *)
(* on, the operations queued and those that wait for the senders, whether  *)
(* the listeners are attached, how far its candidates are gathered, and    *)
(* whether one of the other side was accepted.                             *)
NewPeer ==
  [offer |-> None, local |-> None, remote |-> None, queue |-> <<>>, waiting |-> {},
   heard |-> FALSE, gathering |-> "new", candidate |-> FALSE]

(* Wrong variant: nobody waits for the senders, nor for the listeners. *)
AskedAtOnce(pc, op) ==
  IF pc = None THEN [NewPeer EXCEPT !.queue = <<op>>] ELSE [pc EXCEPT !.queue = Append(@, op)]

(* Wrong variant: whoever comes before the listeners waits as well. *)
AskedByMany(pc, op) ==
  CASE pc = None -> [NewPeer EXCEPT !.waiting = {op}]
    [] pc # None /\ ~pc.heard -> [pc EXCEPT !.waiting = @ \cup {op}]
    [] OTHER -> [pc EXCEPT !.queue = Append(@, op)]

(* ensurePeerConnection and the operation after it: whoever makes the      *)
(* connection waits for syncPeerSenders, whoever finds it does not.        *)
Asked(pc, op) ==
  IF pc = None THEN [NewPeer EXCEPT !.waiting = {op}] ELSE [pc EXCEPT !.queue = Append(@, op)]

(* The operations that are still to come over a connection. *)
Pending(pc) == IF pc = None THEN {} ELSE ToSet(pc.queue) \cup pc.waiting

First(list) == IF list = <<>> THEN {} ELSE {Head(list)}

(* Wrong variant: an offer only to whom there is no connection to. *)
TurnToNew(peers, list) ==
  [q \in Pages |-> IF q \in First(list) /\ peers[q] = None
                   THEN Asked(peers[q], Op("createOffer", None, Tail(list))) ELSE peers[q]]

(* createOfferForParticipant for the next in handleWelcome's list. *)
Turn(peers, list) ==
  [q \in Pages |-> IF q \in First(list)
                   THEN Asked(peers[q], Op("createOffer", None, Tail(list))) ELSE peers[q]]

SignalingState(pc, p) ==
  IF pc.offer = None THEN "stable"
  ELSE IF pc.offer.by = p THEN "have-local-offer" ELSE "have-remote-offer"

(* Is p in the middle of a negotiation with q, or about to be? *)
Busy(p, q) ==
  \/ \E m \in ToSet(inbox[p]) : m.from = q /\ m.type \in {"offer", "answer"}
  \/ peer[p][q] # None /\ peer[p][q].offer # None
  \/ \E op \in Pending(peer[p][q]) : op.do # "addCandidate"

Begins(p, S) == overlap' = (overlap \/ \E q \in S : Busy(p, q) \/ Busy(q, p))

(* sendSignal and the relay; what is for nobody comes back as an error. *)
Send(p, q, type, body) ==
  inbox' = IF {p, q} \subseteq Members
           THEN [inbox EXCEPT ![q] = Append(@, Message(type, p, body))]
           ELSE inbox

-----------------------------------------------------------------------------
(* Sessions. *)

(* The session is registered, and its channel begins to fill. *)
Join(p) ==
  /\ session[p] = "out" /\ joins < MaxJoins
  /\ session' = [session EXCEPT ![p] = "joining"]
  /\ joins' = joins + 1
  /\ UNCHANGED <<inbox, peer, made, shares, history>>

(* The list comes from a map, in any order; the welcome goes out before    *)
(* anything in the channel.                                                *)
Welcome(p) ==
  /\ session[p] = "joining"
  /\ session' = [session EXCEPT ![p] = "in"]
  /\ \E list \in SetToSeqs(Members \ {p}) :
       inbox' = [inbox EXCEPT ![p] = <<Message("welcome", p, list)>> \o @]
  /\ UNCHANGED <<peer, made, joins, shares, history>>

(* The session ends, and the others are told. *)
Depart(p) ==
  /\ p \in Members
  /\ session' = [session EXCEPT ![p] = "out"]
  /\ inbox' = [q \in Pages |->
       IF q = p THEN <<>>
       ELSE IF q \in Members THEN Append(inbox[q], Message("peer-left", p, None)) ELSE inbox[q]]
  /\ UNCHANGED <<made, joins, shares, history>>

(* leaveRoom closes every connection. *)
Leave(p) == Depart(p) /\ peer' = [peer EXCEPT ![p] = [q \in Pages |-> None]]

(* A socket that closes by itself: cleanupSocketState keeps them. *)
Drop(p) == MayDrop /\ Depart(p) /\ UNCHANGED peer

(* renegotiateAllPeers, when screen sharing begins or ends. *)
Renegotiate(p) ==
  LET ready == {q \in Pages : peer[p][q] # None /\ SignalingState(peer[p][q], p) = "stable"} IN
  /\ p \in Members /\ shares < MaxShares
  /\ shares' = shares + 1
  /\ peer' = [peer EXCEPT ![p] = [q \in Pages |->
       IF q \in ready THEN Asked(@[q], Op("createOffer", None, <<>>)) ELSE @[q]]]
  /\ Begins(p, ready)
  /\ UNCHANGED <<session, inbox, made, joins, stray, cut>>

-----------------------------------------------------------------------------
(* handleSignal, up to the first operation each handler awaits. *)

handleWelcome(p, m) ==
  /\ m.type = "welcome"
  /\ peer' = [peer EXCEPT ![p] = Turn(@, m.body)]
  /\ Begins(p, First(m.body))
  /\ UNCHANGED <<stray, cut>>

(* Nothing that waits for a closed connection goes on, nor does the loop   *)
(* of handleWelcome that is in the middle of an offer over it.             *)
handlePeerLeft(p, m) ==
  /\ m.type = "peer-left"
  /\ peer' = [peer EXCEPT ![p][m.from] = None]
  /\ cut' = (cut \/ \E op \in Pending(peer[p][m.from]) : op.rest # <<>>)
  /\ UNCHANGED <<overlap, stray>>

Asks(p, q, do, desc) == peer' = [peer EXCEPT ![p][q] = Asked(@, Op(do, desc, <<>>))]

handleOffer(p, m) ==
  /\ m.type = "offer"
  /\ Asks(p, m.from, "setRemote", m.body)
  /\ UNCHANGED history

handleAnswer(p, m) ==
  /\ m.type = "answer"
  /\ IF peer[p][m.from] = None THEN UNCHANGED peer ELSE Asks(p, m.from, "setRemote", m.body)
  /\ UNCHANGED history

handleICECandidate(p, m) ==
  /\ m.type = "ice-candidate"
  /\ Asks(p, m.from, "addCandidate", None)
  /\ stray' = (stray \/ peer[p][m.from] = None)
  /\ UNCHANGED <<overlap, cut>>

Receive(p) ==
  /\ session[p] = "in" /\ inbox[p] # <<>>
  /\ inbox' = [inbox EXCEPT ![p] = Tail(@)]
  /\ LET m == Head(inbox[p]) IN
       \/ handleWelcome(p, m) \/ handlePeerLeft(p, m)
       \/ handleOffer(p, m) \/ handleAnswer(p, m) \/ handleICECandidate(p, m)
  /\ UNCHANGED sessionVars

-----------------------------------------------------------------------------
(* What the connections do. *)

(* What is first in a queue, and what its end makes of the connection.     *)
IsNext(p, q, do) ==
  /\ peer[p][q] # None
  /\ peer[p][q].queue # <<>>
  /\ Head(peer[p][q].queue).do = do

Becomes(p, q, pc) == peer' = [peer EXCEPT ![p][q] = pc]

(* syncPeerSenders is done: the listeners are attached, the maker goes on. *)
SendersReady(p, q) ==
  LET pc == peer[p][q] IN
  /\ pc # None
  /\ \E op \in pc.waiting :
       Becomes(p, q, [pc EXCEPT !.waiting = {}, !.heard = TRUE, !.queue = Append(@, op)])
  /\ UNCHANGED <<inbox, sessionVars, history>>

Done(pc) == [pc EXCEPT !.queue = Tail(@)]

Then(pc, do, desc, rest) == [pc EXCEPT !.queue = Append(Tail(@), Op(do, desc, rest))]

(* A refused operation ends its handler, and handleWelcome's loop with it. *)
CreateOffer(p, q) ==
  LET pc == peer[p][q] IN
  /\ IsNext(p, q, "createOffer")
  /\ IF SignalingState(pc, p) = "have-remote-offer"
     THEN Becomes(p, q, Done(pc)) /\ UNCHANGED made
     ELSE /\ made' = [made EXCEPT ![p] = @ + 1]
          /\ Becomes(p, q, Then(pc, "setLocal", Description("offer", p, made'[p], pc),
                                Head(pc.queue).rest))
  /\ UNCHANGED <<inbox, session, joins, shares, history>>

CreateAnswer(p, q) ==
  LET pc == peer[p][q] IN
  /\ IsNext(p, q, "createAnswer")
  /\ Becomes(p, q, IF SignalingState(pc, p) = "have-remote-offer"
                   THEN Then(pc, "setLocal", Description("answer", p, pc.offer.n, pc), <<>>)
                   ELSE Done(pc))
  /\ UNCHANGED <<inbox, sessionVars, history>>

(* The first local description starts the gathering of candidates. *)
SetLocal(p, q) ==
  LET pc == peer[p][q]
      op == Head(pc.queue)
      now == [Done(pc) EXCEPT !.gathering = IF @ = "new" THEN "gathering" ELSE @]
  IN
  /\ IsNext(p, q, "setLocal")
  /\ CASE op.desc.type = "offer" /\ SignalingState(pc, p) # "have-remote-offer" ->
            /\ peer' = [peer EXCEPT ![p] =
                          Turn([@ EXCEPT ![q] = [now EXCEPT !.offer = op.desc]], op.rest)]
            /\ Begins(p, First(op.rest))
            /\ Send(p, q, "offer", op.desc)
       [] op.desc.type = "answer" /\ SignalingState(pc, p) = "have-remote-offer" ->
            /\ Becomes(p, q, [now EXCEPT !.offer = None, !.local = op.desc, !.remote = pc.offer])
            /\ UNCHANGED overlap
            /\ Send(p, q, "answer", op.desc)
       [] OTHER -> Becomes(p, q, Done(pc)) /\ UNCHANGED <<inbox, overlap>>
  /\ UNCHANGED <<sessionVars, stray, cut>>

(* An offer that meets one of this page's own rolls that back.             *)
SetRemote(p, q) ==
  LET pc == peer[p][q]
      desc == Head(pc.queue).desc
  IN
  /\ IsNext(p, q, "setRemote")
  /\ Becomes(p, q,
       CASE desc.type = "offer" ->
              [Then(pc, "createAnswer", None, <<>>) EXCEPT
                 !.offer = desc, !.candidate = @ \/ desc.found]
         [] desc.type = "answer" /\ SignalingState(pc, p) = "have-local-offer" ->
              [Done(pc) EXCEPT !.offer = None, !.local = pc.offer, !.remote = desc,
                               !.candidate = @ \/ desc.found]
         [] OTHER -> Done(pc))
  /\ UNCHANGED <<inbox, sessionVars, history>>

(* A candidate is refused while there is no description to go with it. *)
AddCandidate(p, q) ==
  LET pc == peer[p][q]
      fits == pc.remote # None \/ SignalingState(pc, p) = "have-remote-offer"
  IN
  /\ IsNext(p, q, "addCandidate")
  /\ Becomes(p, q, [Done(pc) EXCEPT !.candidate = @ \/ fits])
  /\ UNCHANGED <<inbox, sessionVars, history>>

(* The candidates are announced, to who listens. *)
Gathered(p, q) ==
  /\ peer[p][q] # None /\ peer[p][q].gathering = "gathering"
  /\ Becomes(p, q, [peer[p][q] EXCEPT !.gathering = "complete"])
  /\ IF peer[p][q].heard THEN Send(p, q, "ice-candidate", None) ELSE UNCHANGED inbox
  /\ UNCHANGED <<sessionVars, history>>

-----------------------------------------------------------------------------
Quiet ==
  /\ \A p \in Pages : session[p] # "joining" /\ inbox[p] = <<>>
  /\ \A p, q \in Pages : peer[p][q] # None =>
       peer[p][q].queue = <<>> /\ peer[p][q].waiting = {} /\ peer[p][q].gathering # "gathering"

(* Nothing is under way, and nobody does anything more. *)
AtRest == Quiet /\ UNCHANGED vars

Next ==
  \/ \E p \in Pages :
       Join(p) \/ Welcome(p) \/ Leave(p) \/ Drop(p) \/ Renegotiate(p) \/ Receive(p)
  \/ \E p, q \in Pages :
       \/ SendersReady(p, q) \/ Gathered(p, q)
       \/ CreateOffer(p, q) \/ CreateAnswer(p, q) \/ SetLocal(p, q)
       \/ SetRemote(p, q) \/ AddCandidate(p, q)
  \/ AtRest

Spec == Init /\ [][Next]_vars

-----------------------------------------------------------------------------
(* Properties. *)

Described(type) == [type : {type}, by : Pages, n : Nat, found : BOOLEAN]

Descriptions == Described("offer") \cup Described("answer")

Messages ==
  [type : {"welcome"}, from : Pages, body : Seq(Pages)]
    \cup [type : {"offer"}, from : Pages, body : Described("offer")]
    \cup [type : {"answer"}, from : Pages, body : Described("answer")]
    \cup [type : {"peer-left", "ice-candidate"}, from : Pages, body : {None}]

(* Only who makes offers may be in the middle of a list. *)
Ops ==
  [do : {"createOffer"}, desc : {None}, rest : Seq(Pages)]
    \cup [do : {"setLocal"}, desc : Described("offer"), rest : Seq(Pages)]
    \cup [do : {"setLocal"}, desc : Described("answer"), rest : {<<>>}]
    \cup [do : {"setRemote"}, desc : Descriptions, rest : {<<>>}]
    \cup [do : {"createAnswer", "addCandidate"}, desc : {None}, rest : {<<>>}]

Peers ==
  [offer : Described("offer") \cup {None}, local : Descriptions \cup {None},
   remote : Descriptions \cup {None}, queue : Seq(Ops), waiting : SUBSET Ops,
   heard : BOOLEAN, gathering : {"new", "gathering", "complete"}, candidate : BOOLEAN]

ASSUME NoneAssumption == None \notin Descriptions /\ None \notin Peers

(* Every variable keeps its type, and only the maker of a connection ever  *)
(* waits for its listeners.                                                *)
TypeOK ==
  /\ session \in [Pages -> {"out", "joining", "in"}]
  /\ inbox \in [Pages -> Seq(Messages)]
  /\ peer \in [Pages -> [Pages -> Peers \cup {None}]]
  /\ made \in [Pages -> Nat]
  /\ joins \in 0 .. MaxJoins /\ shares \in 0 .. MaxShares
  /\ {overlap, stray, cut} \subseteq BOOLEAN
  /\ \A p, q \in Pages : peer[p][q] # None =>
       /\ \A op1, op2 \in peer[p][q].waiting : op1 = op2
       /\ peer[p][q].waiting = {} <=> peer[p][q].heard

Pairs == {pq \in Members \X Members : pq[1] # pq[2]}

(* Both ends of a connection have settled on the same offer and answer.    *)
Agree(p, q) ==
  /\ peer[p][q] # None /\ peer[q][p] # None
  /\ peer[p][q].offer = None
  /\ peer[p][q].local # None /\ peer[p][q].remote # None
  /\ peer[p][q].local = peer[q][p].remote
  /\ peer[p][q].remote = peer[q][p].local

(* README: the new member makes a connection to every member, one by one;  *)
(* offer and answer are exchanged, and the two are connected.              *)
Connected == Quiet => \A pq \in Pairs : Agree(pq[1], pq[2])

(* An offer met another negotiation of the two, or nobody was there to go  *)
(* on with the list: the code has no way back from either.                 *)
Spoilt == overlap \/ cut

(* When all is done, any two members agree on offer and answer, through    *)
(* joins, leaves, lost sessions and renegotiations in any order: only an   *)
(* offer begun while the two were negotiating, or a member that leaves     *)
(* while a newcomer with others still on its list offers to it, spoils it. *)
AgreeUnlessSpoilt == ~Spoilt => Connected

(* The tracks of the other side are announced while its description is     *)
(* applied, once, and the listeners are attached after an await: no        *)
(* description is ever applied before they are, unless a candidate of an   *)
(* earlier session has made the connection.                                *)
TracksAreHeard ==
  ~Spoilt /\ ~stray => \A p, q \in Pages : IsNext(p, q, "setRemote") => peer[p][q].heard

(* A candidate that comes before the description is lost, but never on     *)
(* both sides of a connection, so the two can find each other.  One that a *)
(* connection accepted stays accepted: a lost session closes none.         *)
SomeCandidate ==
  Quiet /\ ~Spoilt /\ ~stray => \A pq \in Pairs :
    peer[pq[1]][pq[2]].candidate \/ peer[pq[2]][pq[1]].candidate
=============================================================================

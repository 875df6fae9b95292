------------------------- MODULE NegotiationProofs --------------------------
(***************************************************************************)
(* Proofs about Negotiation, for any number of pages, sessions and         *)
(* beginnings and ends of screen sharing, whether the network ends         *)
(* sessions or not.                                                        *)
(***************************************************************************)
EXTENDS Negotiation, SequenceTheorems, FiniteSetTheorems, TLAPS

(* Who waits in a connection is alone and waits for the listeners. *)
WaitsForListeners(pc) ==
  pc # None =>
    /\ \A op1, op2 \in pc.waiting : op1 = op2
    /\ pc.waiting = {} <=> pc.heard

(* Few have joined: a welcome has a list to send. *)
TypeInv == TypeOK /\ IsFiniteSet(Members)

-----------------------------------------------------------------------------
(* Messages, operations and connections. *)

LEMMA OpFields ==
  ASSUME NEW op \in Ops
  PROVE  /\ op.rest \in Seq(Pages)
         /\ op.do \in {"setLocal", "setRemote"} => op.desc \in Descriptions
         /\ op.do \notin {"createOffer", "setLocal"} => op.rest = <<>>
         /\ op.do = "setLocal" =>
              \/ op.desc \in Described("offer")
              \/ op.desc \in Described("answer") /\ op.rest = <<>>
BY EmptySeq DEF Ops, Descriptions

LEMMA DescriptionParts ==
  ASSUME NEW desc \in Descriptions
  PROVE  /\ desc.type \in {"offer", "answer"} /\ desc \in Described(desc.type)
         /\ desc.by \in Pages /\ desc.n \in Nat /\ desc.found \in BOOLEAN
BY DEF Descriptions, Described

LEMMA DescriptionKinds ==
  /\ Described("offer") \subseteq Descriptions /\ Described("answer") \subseteq Descriptions
  /\ \A t : \A desc \in Described(t) : desc.type = t
BY DEF Descriptions, Described

LEMMA OpType ==
  /\ \A rest \in Seq(Pages) :
       /\ Op("createOffer", None, rest) \in Ops
       /\ \A desc \in Described("offer") : Op("setLocal", desc, rest) \in Ops
  /\ \A desc \in Described("answer") : Op("setLocal", desc, <<>>) \in Ops
  /\ \A desc \in Descriptions : Op("setRemote", desc, <<>>) \in Ops
  /\ \A do \in {"createAnswer", "addCandidate"} : Op(do, None, <<>>) \in Ops
BY DEF Ops, Op

LEMMA MessageFields ==
  ASSUME NEW m \in Messages
  PROVE  /\ m.from \in Pages
         /\ m.type = "welcome" => m.body \in Seq(Pages)
         /\ m.type \in {"offer", "answer"} => m.body \in Described(m.type) /\ m.body \in Descriptions
BY DEF Messages, Descriptions

LEMMA MessageType ==
  ASSUME NEW p \in Pages
  PROVE  /\ \A list \in Seq(Pages) : Message("welcome", p, list) \in Messages
         /\ \A t \in {"offer", "answer"} : \A desc \in Described(t) : Message(t, p, desc) \in Messages
         /\ \A t \in {"peer-left", "ice-candidate"} : Message(t, p, None) \in Messages
BY DEF Messages, Message

LEMMA DescriptionType ==
  ASSUME NEW t \in {"offer", "answer"}, NEW p \in Pages, NEW n \in Nat, NEW pc \in Peers
  PROVE  Description(t, p, n, pc) \in Described(t)
BY DEF Description, Described

LEMMA AskedType ==
  ASSUME NEW pc \in Peers \cup {None}, WaitsForListeners(pc), NEW op \in Ops
  PROVE  Asked(pc, op) \in Peers /\ WaitsForListeners(Asked(pc, op))
<1>1. CASE pc = None
  <2>1. [NewPeer EXCEPT !.waiting = {op}] \in Peers
    BY EmptySeq DEF NewPeer, Peers
  <2>2. WaitsForListeners([NewPeer EXCEPT !.waiting = {op}])
    BY DEF WaitsForListeners, NewPeer
  <2> QED
    BY <1>1, <2>1, <2>2 DEF Asked
<1>2. CASE pc # None
  <2>1. pc \in Peers /\ Append(pc.queue, op) \in Seq(Ops)
    BY <1>2, AppendProperties DEF Peers
  <2>2. [pc EXCEPT !.queue = Append(@, op)] \in Peers
    BY <2>1 DEF Peers
  <2>3. WaitsForListeners([pc EXCEPT !.queue = Append(@, op)])
    BY <1>2, <2>1 DEF WaitsForListeners, Peers
  <2> QED
    BY <1>2, <2>2, <2>3 DEF Asked
<1> QED
  BY <1>1, <1>2

(* What the end of the first operation leaves of a connection. *)
LEMMA DoneType ==
  ASSUME NEW pc \in Peers, pc # None, WaitsForListeners(pc), pc.queue # <<>>
  PROVE  /\ Head(pc.queue) \in Ops
         /\ Done(pc) \in Peers /\ WaitsForListeners(Done(pc))
         /\ \A do, desc, rest : Op(do, desc, rest) \in Ops =>
              Then(pc, do, desc, rest) \in Peers /\ WaitsForListeners(Then(pc, do, desc, rest))
<1>1. pc.queue \in Seq(Ops) /\ Head(pc.queue) \in Ops /\ Tail(pc.queue) \in Seq(Ops)
  <2>1. pc.queue \in Seq(Ops)
    BY DEF Peers
  <2> QED
    BY <2>1, HeadTailProperties
<1>2. ASSUME NEW rest \in Seq(Ops)
      PROVE  /\ [pc EXCEPT !.queue = rest] \in Peers
             /\ WaitsForListeners([pc EXCEPT !.queue = rest])
  BY DEF WaitsForListeners, Peers
<1>3. \A op \in Ops : Append(Tail(pc.queue), op) \in Seq(Ops)
  BY <1>1, AppendProperties
<1> QED
  BY <1>1, <1>2, <1>3 DEF Done, Then

-----------------------------------------------------------------------------
(* The type invariant. *)

LEMMA TypeParts ==
  ASSUME TypeInv
  PROVE  /\ session \in [Pages -> {"out", "joining", "in"}]
         /\ inbox \in [Pages -> Seq(Messages)] /\ made \in [Pages -> Nat]
         /\ peer \in [Pages -> [Pages -> Peers \cup {None}]]
         /\ joins \in 0 .. MaxJoins /\ shares \in 0 .. MaxShares
         /\ {overlap, stray, cut} \subseteq BOOLEAN
         /\ \A p, q \in Pages : WaitsForListeners(peer[p][q])
         /\ IsFiniteSet(Members)
         /\ MaxJoins \in Nat /\ MaxShares \in Nat /\ None \notin Pages
BY NegotiationAssumption DEF TypeInv, TypeOK, WaitsForListeners

(* A connection that is replaced by a well typed one leaves all so. *)
PeerOK == {pc \in Peers \cup {None} : WaitsForListeners(pc)}

PeersOK == peer \in [Pages -> [Pages -> PeerOK]]

LEMMA PeersTyped == TypeInv => PeersOK
<1> SUFFICES ASSUME TypeInv PROVE PeersOK
  OBVIOUS
<1>1. \A p, q \in Pages : peer[p][q] \in PeerOK
  BY TypeParts DEF PeerOK
<1> QED
  BY <1>1, TypeParts DEF PeersOK

LEMMA SendType ==
  ASSUME TypeInv, NEW p \in Pages, NEW q \in Pages, NEW t, NEW b,
         Message(t, p, b) \in Messages, Send(p, q, t, b)
  PROVE  inbox' \in [Pages -> Seq(Messages)]
<1>1. \A r \in Pages : Append(inbox[r], Message(t, p, b)) \in Seq(Messages)
  BY TypeParts, AppendProperties
<1> QED
  BY <1>1, TypeParts DEF Send

(* The elements that a list of pages begins and goes on with. *)
LEMMA TurnType ==
  ASSUME NEW peers \in [Pages -> PeerOK], NEW list \in Seq(Pages)
  PROVE  Turn(peers, list) \in [Pages -> PeerOK]
<1>1. ASSUME NEW q \in Pages, q \in First(list)
      PROVE  Asked(peers[q], Op("createOffer", None, Tail(list))) \in PeerOK
  <2>1. list # <<>>
    BY <1>1 DEF First
  <2>2. Op("createOffer", None, Tail(list)) \in Ops
    BY <2>1, HeadTailProperties, OpType
  <2> QED
    BY <2>2, AskedType DEF PeerOK
<1> QED
  BY <1>1 DEF Turn

LEMMA AsksType ==
  ASSUME TypeInv, NEW p \in Pages, NEW q \in Pages, NEW do, NEW desc,
         Op(do, desc, <<>>) \in Ops, Asks(p, q, do, desc)
  PROVE  PeersOK'
<1>1. peer \in [Pages -> [Pages -> PeerOK]]
  BY PeersTyped DEF PeersOK
<1>2. Asked(peer[p][q], Op(do, desc, <<>>)) \in PeerOK
  BY <1>1, AskedType DEF PeerOK
<1>3. peer' = [peer EXCEPT ![p] = [peer[p] EXCEPT ![q] = Asked(peer[p][q], Op(do, desc, <<>>))]]
  BY <1>1 DEF Asks
<1> QED
  BY <1>1, <1>2, <1>3 DEF PeersOK, PeerOK, WaitsForListeners

LEMMA BecomesType ==
  ASSUME TypeInv, NEW p \in Pages, NEW q \in Pages, NEW pc \in PeerOK, Becomes(p, q, pc)
  PROVE  PeersOK'
<1>1. peer \in [Pages -> [Pages -> PeerOK]]
  BY PeersTyped DEF PeersOK
<1> QED
  BY <1>1 DEF Becomes, PeersOK, PeerOK, WaitsForListeners

LEMMA NextType ==
  ASSUME TypeInv, NEW p \in Pages, NEW q \in Pages, NEW do, IsNext(p, q, do)
  PROVE  LET pc == peer[p][q]
         IN  /\ pc \in Peers /\ pc # None /\ WaitsForListeners(pc)
             /\ Head(pc.queue) \in Ops /\ Head(pc.queue).do = do
             /\ Done(pc) \in PeerOK /\ Done(pc) \in Peers /\ WaitsForListeners(Done(pc))
             /\ \A d, desc, rest : Op(d, desc, rest) \in Ops =>
                  /\ Then(pc, d, desc, rest) \in PeerOK
                  /\ Then(pc, d, desc, rest) \in Peers
                  /\ WaitsForListeners(Then(pc, d, desc, rest))
<1>1. peer[p][q] \in Peers /\ peer[p][q] # None /\ WaitsForListeners(peer[p][q])
      /\ peer[p][q].queue # <<>> /\ Head(peer[p][q].queue).do = do
  BY TypeParts DEF IsNext
<1> QED
  BY <1>1, DoneType DEF PeerOK

(* TypeInv with the parts that steps argue about. *)
Sessions ==
  /\ session \in [Pages -> {"out", "joining", "in"}] /\ IsFiniteSet(Members)
  /\ made \in [Pages -> Nat] /\ joins \in 0 .. MaxJoins /\ shares \in 0 .. MaxShares
InboxOK   == inbox \in [Pages -> Seq(Messages)]
HistoryOK == {overlap, stray, cut} \subseteq BOOLEAN

LEMMA TypeIntoParts == TypeInv => Sessions /\ InboxOK /\ PeersOK /\ HistoryOK
BY PeersTyped, TypeParts DEF Sessions, InboxOK, HistoryOK

LEMMA TypeFromParts ==
  ASSUME Sessions', InboxOK', PeersOK', HistoryOK' PROVE TypeInv'
<1>1. /\ peer' \in [Pages -> [Pages -> Peers \cup {None}]]
      /\ \A p, q \in Pages : WaitsForListeners(peer'[p][q])
  BY DEF PeersOK, PeerOK
<1> QED
  BY <1>1 DEF TypeInv, TypeOK, Sessions, InboxOK, HistoryOK, WaitsForListeners

LEMMA SessionsStay ==
  ASSUME TypeInv, UNCHANGED session, made' \in [Pages -> Nat], UNCHANGED joins,
         shares' \in 0 .. MaxShares
  PROVE  Sessions'
BY TypeParts DEF Sessions, Members

LEMMA BeginsType == ASSUME NEW p, NEW S, Begins(p, S) PROVE overlap' \in BOOLEAN
BY Zenon DEF Begins

LEMMA JoinType ==
  ASSUME TypeInv, NEW p \in Pages, Join(p) PROVE TypeInv'
<1>1. session' = [session EXCEPT ![p] = "joining"] /\ joins < MaxJoins /\ joins' = joins + 1
      /\ UNCHANGED <<inbox, peer, made, shares, overlap, stray, cut>>
  BY DEF Join, history
<1>2. Members' = Members \cup {p}
  BY <1>1, TypeParts DEF Members
<1>3. IsFiniteSet(Members')
  BY <1>2, TypeParts, FS_AddElement
<1>4. Sessions'
  BY <1>1, <1>3, TypeParts DEF Sessions
<1>5. InboxOK' /\ PeersOK' /\ HistoryOK'
  BY <1>1, TypeIntoParts DEF InboxOK, PeersOK, PeerOK, WaitsForListeners, HistoryOK
<1> QED
  BY <1>4, <1>5, TypeFromParts

LEMMA WelcomeType ==
  ASSUME TypeInv, NEW p \in Pages, Welcome(p) PROVE TypeInv'
<1>1. /\ session[p] = "joining" /\ session' = [session EXCEPT ![p] = "in"]
      /\ UNCHANGED <<peer, made, joins, shares, overlap, stray, cut>>
  BY DEF Welcome, history
<1>2. PICK list \in SetToSeqs(Members \ {p}) :
        inbox' = [inbox EXCEPT ![p] = <<Message("welcome", p, list)>> \o inbox[p]]
  BY DEF Welcome
<1>3. Members' = Members
  BY <1>1, TypeParts DEF Members
<1>4. Sessions'
  BY <1>1, <1>3, TypeParts DEF Sessions
<1>5. list \in Seq(Pages)
  <2>1. IsFiniteSet(Members \ {p})
    BY TypeParts, FS_RemoveElement
  <2> DEFINE n == Cardinality(Members \ {p})
  <2>2. n \in Nat
    BY <2>1, FS_CardinalityType
  <2>3. list \in [1..n -> Members \ {p}]
    BY <1>2 DEF SetToSeqs
  <2> HIDE DEF n
  <2>4. list \in [1..n -> Pages]
    BY <2>3 DEF Members
  <2> QED
    BY <2>2, <2>4
<1>6. <<Message("welcome", p, list)>> \o inbox[p] \in Seq(Messages)
  <2>1. Message("welcome", p, list) \in Messages
    BY <1>5, MessageType
  <2>2. <<Message("welcome", p, list)>> \in Seq(Messages)
    BY <2>1
  <2> QED
    BY <2>2, TypeParts, ConcatProperties
<1>7. InboxOK'
  BY <1>2, <1>6, TypeParts DEF InboxOK
<1>8. PeersOK' /\ HistoryOK'
  BY <1>1, TypeIntoParts DEF PeersOK, PeerOK, WaitsForListeners, HistoryOK
<1> QED
  BY <1>4, <1>7, <1>8, TypeFromParts

LEMMA DepartType ==
  ASSUME TypeInv, NEW p \in Pages, Leave(p) \/ Drop(p) PROVE TypeInv'
<1>1. session' = [session EXCEPT ![p] = "out"] /\ UNCHANGED <<made, joins, shares, overlap, stray, cut>>
  BY DEF Leave, Drop, Depart, history
<1>2. Members' = Members \ {p}
  BY <1>1, TypeParts DEF Members
<1>3. Sessions'
  BY <1>1, <1>2, TypeParts, FS_RemoveElement DEF Sessions
<1>4. InboxOK'
  <2>1. Message("peer-left", p, None) \in Messages
    BY MessageType
  <2>2. \A q \in Pages : Append(inbox[q], Message("peer-left", p, None)) \in Seq(Messages)
    BY <2>1, TypeParts, AppendProperties
  <2>3. <<>> \in Seq(Messages)
    BY EmptySeq
  <2>4. Depart(p)
    BY DEF Leave, Drop
  <2> QED
    BY <2>2, <2>3, <2>4, TypeParts DEF Depart, InboxOK
<1>5. PeersOK'
  <2>1. peer \in [Pages -> [Pages -> PeerOK]] /\ None \in PeerOK
    BY PeersTyped DEF PeersOK, PeerOK, WaitsForListeners
  <2>2. peer' = peer \/ peer' = [peer EXCEPT ![p] = [q \in Pages |-> None]]
    BY DEF Leave, Drop
  <2> QED
    BY <2>1, <2>2 DEF PeersOK, PeerOK, WaitsForListeners
<1>6. HistoryOK'
  BY <1>1, TypeParts DEF HistoryOK
<1> QED
  BY <1>3, <1>4, <1>5, <1>6, TypeFromParts

LEMMA RenegotiateType ==
  ASSUME TypeInv, NEW p \in Pages, Renegotiate(p) PROVE TypeInv'
<1>1. shares < MaxShares /\ shares' = shares + 1 /\ UNCHANGED <<session, inbox, made, joins, stray, cut>>
  BY DEF Renegotiate
<1>2. Sessions'
  BY <1>1, TypeParts, SessionsStay
<1>3. overlap' \in BOOLEAN
  BY BeginsType DEF Renegotiate
<1>4. PeersOK'
  <2>1. peer \in [Pages -> [Pages -> PeerOK]]
    BY PeersTyped DEF PeersOK
  <2>2. \A q \in Pages : Asked(peer[p][q], Op("createOffer", None, <<>>)) \in PeerOK
    BY <2>1, EmptySeq, OpType, AskedType DEF PeerOK
  <2> DEFINE ready == {q \in Pages : peer[p][q] # None /\ SignalingState(peer[p][q], p) = "stable"}
             now == [q \in Pages |-> IF q \in ready THEN Asked(peer[p][q], Op("createOffer", None, <<>>))
                                                    ELSE peer[p][q]]
  <2>3. peer' = [peer EXCEPT ![p] = now]
    BY <2>1 DEF Renegotiate
  <2>4. now \in [Pages -> PeerOK]
    BY <2>1, <2>2
  <2> HIDE DEF ready, now
  <2> QED
    BY <2>1, <2>3, <2>4 DEF PeersOK, PeerOK, WaitsForListeners
<1>5. InboxOK' /\ HistoryOK'
  BY <1>1, <1>3, TypeIntoParts DEF InboxOK, HistoryOK
<1> QED
  BY <1>2, <1>4, <1>5, TypeFromParts

LEMMA ReceiveType ==
  ASSUME TypeInv, NEW p \in Pages, Receive(p) PROVE TypeInv'
<1> DEFINE m == Head(inbox[p])
<1>1. inbox[p] \in Seq(Messages) /\ inbox[p] # <<>> /\ m \in Messages
      /\ Tail(inbox[p]) \in Seq(Messages)
  BY TypeParts, HeadTailProperties DEF Receive
<1>2. inbox' = [inbox EXCEPT ![p] = Tail(inbox[p])] /\ UNCHANGED sessionVars
      /\ \/ handleWelcome(p, m) \/ handlePeerLeft(p, m)
         \/ handleOffer(p, m) \/ handleAnswer(p, m) \/ handleICECandidate(p, m)
  BY DEF Receive
<1> HIDE DEF m
<1>3. InboxOK'
  BY <1>1, <1>2, TypeParts DEF InboxOK
<1>4. Sessions'
  BY <1>2, TypeParts, SessionsStay DEF sessionVars
<1>5. peer \in [Pages -> [Pages -> PeerOK]] /\ {overlap, stray, cut} \subseteq BOOLEAN
      /\ <<>> \in Seq(Pages) /\ None \in PeerOK
  BY PeersTyped, TypeParts, EmptySeq DEF PeersOK, PeerOK, WaitsForListeners
<1>6. CASE handleWelcome(p, m)
  <2>1. Turn(peer[p], m.body) \in [Pages -> PeerOK]
    BY <1>1, <1>5, <1>6, MessageFields, TurnType DEF handleWelcome
  <2>2. PeersOK'
    BY <1>5, <1>6, <2>1 DEF handleWelcome, PeersOK, PeerOK, WaitsForListeners
  <2>3. HistoryOK'
    BY <1>5, <1>6, BeginsType DEF handleWelcome, HistoryOK
  <2> QED
    BY <1>3, <1>4, <2>2, <2>3, TypeFromParts
<1>7. CASE handlePeerLeft(p, m)
  <2>1. PeersOK'
    BY <1>1, <1>5, <1>7, MessageFields DEF handlePeerLeft, PeersOK, PeerOK, WaitsForListeners
  <2>2. cut' \in BOOLEAN
    BY <1>7, Zenon DEF handlePeerLeft
  <2>3. HistoryOK'
    BY <1>5, <1>7, <2>2 DEF handlePeerLeft, HistoryOK
  <2> QED
    BY <1>3, <1>4, <2>1, <2>3, TypeFromParts
<1>8. CASE handleOffer(p, m) \/ handleAnswer(p, m)
  <2>1. m.from \in Pages /\ Op("setRemote", m.body, <<>>) \in Ops
    BY <1>1, <1>5, <1>8, MessageFields, OpType DEF handleOffer, handleAnswer
  <2>2. PeersOK'
    <3>1. CASE Asks(p, m.from, "setRemote", m.body)
      BY <2>1, <3>1, AsksType
    <3>2. CASE UNCHANGED peer
      BY <1>5, <3>2 DEF PeersOK, PeerOK, WaitsForListeners
    <3> QED
      BY <1>8, <3>1, <3>2 DEF handleOffer, handleAnswer
  <2>3. HistoryOK'
    BY <1>5, <1>8 DEF handleOffer, handleAnswer, history, HistoryOK
  <2> QED
    BY <1>3, <1>4, <2>2, <2>3, TypeFromParts
<1>9. CASE handleICECandidate(p, m)
  <2>1. m.from \in Pages /\ Op("addCandidate", None, <<>>) \in Ops
    BY <1>1, <1>5, MessageFields, OpType
  <2>2. PeersOK'
    BY <1>9, <2>1, AsksType DEF handleICECandidate
  <2>3. stray' \in BOOLEAN
    BY <1>9, Zenon DEF handleICECandidate
  <2>4. HistoryOK'
    BY <1>5, <1>9, <2>3 DEF handleICECandidate, HistoryOK
  <2> QED
    BY <1>3, <1>4, <2>2, <2>4, TypeFromParts
<1> QED
  BY <1>2, <1>6, <1>7, <1>8, <1>9

(* A step that only changes one connection, and sends what is a message.   *)
LEMMA OneConnection ==
  ASSUME TypeInv, NEW p \in Pages, NEW q \in Pages, NEW pc \in PeerOK, Becomes(p, q, pc),
         InboxOK', UNCHANGED <<session, joins, shares, overlap, stray, cut>>,
         made' \in [Pages -> Nat]
  PROVE  TypeInv'
<1>1. PeersOK'
  BY BecomesType
<1>2. Sessions'
  BY TypeParts, SessionsStay
<1>3. HistoryOK'
  BY TypeParts DEF HistoryOK
<1> QED
  BY <1>1, <1>2, <1>3, TypeFromParts

LEMMA OperationType ==
  ASSUME TypeInv, NEW p \in Pages, NEW q \in Pages,
         \/ SendersReady(p, q) \/ CreateOffer(p, q) \/ CreateAnswer(p, q)
         \/ SetRemote(p, q) \/ AddCandidate(p, q) \/ Gathered(p, q)
  PROVE  TypeInv'
<1> DEFINE pc == peer[p][q]
           head == Head(pc.queue)
<1>1. /\ peer \in [Pages -> [Pages -> Peers \cup {None}]] /\ made \in [Pages -> Nat]
      /\ pc # None => pc \in Peers /\ WaitsForListeners(pc)
      /\ InboxOK /\ <<>> \in Seq(Pages)
  BY TypeParts, TypeIntoParts, EmptySeq
<1>2. CASE SendersReady(p, q)
  <2>1. PICK op \in pc.waiting :
          Becomes(p, q, [pc EXCEPT !.waiting = {}, !.heard = TRUE, !.queue = Append(pc.queue, op)])
    BY <1>2 DEF SendersReady
  <2> DEFINE new == [pc EXCEPT !.waiting = {}, !.heard = TRUE, !.queue = Append(pc.queue, op)]
  <2>2. pc \in Peers /\ op \in Ops
    BY <1>1, <1>2 DEF SendersReady, Peers
  <2>3. Append(pc.queue, op) \in Seq(Ops)
    BY <2>2, AppendProperties DEF Peers
  <2>4. new \in Peers /\ WaitsForListeners(new)
    BY <2>2, <2>3 DEF Peers, WaitsForListeners
  <2>5. Becomes(p, q, new)
    BY <2>1
  <2>6. UNCHANGED <<inbox, session, made, joins, shares, overlap, stray, cut>>
    BY <1>2 DEF SendersReady, sessionVars, history
  <2> QED
    BY <1>1, <2>4, <2>5, <2>6, OneConnection DEF InboxOK, PeerOK
<1>3. CASE CreateOffer(p, q)
  <2>1. IsNext(p, q, "createOffer") /\ UNCHANGED <<inbox, session, joins, shares, overlap, stray, cut>>
    BY <1>3 DEF CreateOffer, history
  <2>2. pc \in Peers /\ head \in Ops
    BY <2>1, NextType
  <2>3. CASE Becomes(p, q, Done(pc)) /\ UNCHANGED made
    BY <1>1, <2>1, <2>3, NextType, OneConnection DEF InboxOK
  <2>4. CASE /\ made' = [made EXCEPT ![p] = @ + 1]
             /\ Becomes(p, q, Then(pc, "setLocal", Description("offer", p, made'[p], pc), head.rest))
    <3>1. made' \in [Pages -> Nat] /\ made'[p] \in Nat
      BY <1>1, <2>4
    <3>2. Op("setLocal", Description("offer", p, made'[p], pc), head.rest) \in Ops
      BY <2>2, <3>1, DescriptionType, OpFields, OpType
    <3> DEFINE new == Then(pc, "setLocal", Description("offer", p, made'[p], pc), head.rest)
    <3>3. new \in PeerOK
      BY <2>1, <3>2, NextType
    <3> HIDE DEF new
    <3>4. Becomes(p, q, new)
      BY <2>4 DEF new
    <3> QED
      BY <1>1, <2>1, <3>1, <3>3, <3>4, OneConnection DEF InboxOK
  <2> QED
    BY <1>3, <2>3, <2>4 DEF CreateOffer
<1>4. CASE CreateAnswer(p, q)
  <2>1. /\ IsNext(p, q, "createAnswer")
        /\ UNCHANGED <<inbox, session, made, joins, shares, overlap, stray, cut>>
        /\ Becomes(p, q, IF SignalingState(pc, p) = "have-remote-offer"
                         THEN Then(pc, "setLocal", Description("answer", p, pc.offer.n, pc), <<>>)
                         ELSE Done(pc))
    BY <1>4 DEF CreateAnswer, sessionVars, history
  <2>2. pc \in Peers
    BY <2>1, NextType
  <2>3. CASE SignalingState(pc, p) = "have-remote-offer"
    <3>1. pc.offer.n \in Nat
      BY <2>2, <2>3 DEF SignalingState, Peers, Described
    <3>2. Op("setLocal", Description("answer", p, pc.offer.n, pc), <<>>) \in Ops
      BY <1>1, <2>2, <3>1, DescriptionType, OpType
    <3> DEFINE new == Then(pc, "setLocal", Description("answer", p, pc.offer.n, pc), <<>>)
    <3>3. new \in PeerOK
      BY <2>1, <3>2, NextType
    <3>4. Becomes(p, q, new)
      BY <2>1, <2>3
    <3> HIDE DEF new
    <3> QED
      BY <1>1, <2>1, <3>3, <3>4, OneConnection DEF InboxOK
  <2>4. CASE SignalingState(pc, p) # "have-remote-offer"
    <3>1. Becomes(p, q, Done(pc))
      BY <2>1, <2>4
    <3> QED
      BY <1>1, <2>1, <3>1, NextType, OneConnection DEF InboxOK
  <2> QED
    BY <2>3, <2>4
<1>5. CASE SetRemote(p, q)
  <2> DEFINE desc == head.desc
             more == pc.candidate \/ desc.found
             asked == [Then(pc, "createAnswer", None, <<>>) EXCEPT
                         !.offer = desc, !.candidate = @ \/ desc.found]
             settled == [Done(pc) EXCEPT !.offer = None, !.local = pc.offer, !.remote = desc,
                                         !.candidate = @ \/ desc.found]
  <2>1. /\ IsNext(p, q, "setRemote")
        /\ UNCHANGED <<inbox, session, made, joins, shares, overlap, stray, cut>>
        /\ Becomes(p, q, CASE desc.type = "offer" -> asked
                           [] desc.type = "answer" /\ SignalingState(pc, p) = "have-local-offer" -> settled
                           [] OTHER -> Done(pc))
    BY <1>5 DEF SetRemote, sessionVars, history
  <2>2. pc \in Peers /\ WaitsForListeners(pc) /\ head \in Ops /\ head.do = "setRemote"
        /\ pc # None /\ Done(pc) \in PeerOK /\ Done(pc) \in Peers /\ WaitsForListeners(Done(pc))
    BY <2>1, NextType
  <2>3. desc \in Descriptions
    BY <2>2, OpFields
  <2>4. Then(pc, "createAnswer", None, <<>>) \in Peers
        /\ WaitsForListeners(Then(pc, "createAnswer", None, <<>>))
    BY <1>1, <2>1, OpType, NextType
  <2>5. more \in BOOLEAN
    OBVIOUS
  <2> HIDE DEF desc, head
  <2>6. ASSUME desc.type = "offer" PROVE asked \in PeerOK
    <3>1. desc \in Described("offer")
      BY <2>3, <2>6, DescriptionParts
    <3>2. asked = [Then(pc, "createAnswer", None, <<>>) EXCEPT
                     !.offer = desc, !.candidate = more]
      BY DEF Then
    <3> HIDE DEF more
    <3>3. asked \in Peers
      BY <2>3, <2>4, <2>5, <3>1, <3>2 DEF Peers
    <3>4. asked.waiting = pc.waiting /\ asked.heard = pc.heard
      BY DEF Then
    <3> HIDE DEF asked
    <3> QED
      BY <2>2, <3>3, <3>4 DEF PeerOK, WaitsForListeners
  <2>7. CASE SignalingState(pc, p) = "have-local-offer"
    <3>1. settled = [Done(pc) EXCEPT !.offer = None, !.local = pc.offer, !.remote = desc,
                                     !.candidate = more]
      BY DEF Done
    <3>2. pc.offer \in Descriptions
      BY <2>2, <2>7, DescriptionKinds DEF SignalingState, Peers
    <3> HIDE DEF more
    <3>3. settled \in Peers
      BY <2>2, <2>3, <2>5, <3>1, <3>2 DEF Peers
    <3>4. settled.waiting = pc.waiting /\ settled.heard = pc.heard
      BY DEF Done
    <3> HIDE DEF settled
    <3>5. settled \in PeerOK
      BY <2>2, <3>3, <3>4 DEF PeerOK, WaitsForListeners
    <3>6. (desc.type = "offer" /\ Becomes(p, q, asked)) \/ Becomes(p, q, settled) \/ Becomes(p, q, Done(pc))
      BY <2>1
    <3> HIDE DEF asked
    <3> QED
      BY <1>1, <2>1, <2>2, <2>6, <3>5, <3>6, OneConnection DEF InboxOK
  <2>8. CASE SignalingState(pc, p) # "have-local-offer"
    <3>1. (desc.type = "offer" /\ Becomes(p, q, asked)) \/ Becomes(p, q, Done(pc))
      BY <2>1, <2>8
    <3> HIDE DEF asked
    <3> QED
      BY <1>1, <2>1, <2>2, <2>6, <3>1, OneConnection DEF InboxOK
  <2> QED
    BY <2>7, <2>8
<1>6. CASE AddCandidate(p, q)
  <2> DEFINE fits == pc.remote # None \/ SignalingState(pc, p) = "have-remote-offer"
             new == [Done(pc) EXCEPT !.candidate = @ \/ fits]
             more == pc.candidate \/ fits
  <2>1. /\ IsNext(p, q, "addCandidate") /\ Becomes(p, q, new)
        /\ UNCHANGED <<inbox, session, made, joins, shares, overlap, stray, cut>>
    BY <1>6 DEF AddCandidate, sessionVars, history
  <2>2. pc \in Peers /\ WaitsForListeners(pc) /\ pc # None /\ Done(pc) \in Peers
    BY <2>1, NextType
  <2>3. new = [Done(pc) EXCEPT !.candidate = more] /\ more \in BOOLEAN
    BY DEF Done
  <2> HIDE DEF more
  <2>4. new \in Peers
    BY <2>2, <2>3 DEF Peers
  <2>5. new.waiting = pc.waiting /\ new.heard = pc.heard
    BY DEF Done
  <2> HIDE DEF new
  <2>6. new \in PeerOK
    BY <2>2, <2>4, <2>5 DEF PeerOK, WaitsForListeners
  <2> QED
    BY <1>1, <2>1, <2>6, OneConnection DEF InboxOK
<1>7. CASE Gathered(p, q)
  <2>1. /\ pc # None /\ Becomes(p, q, [pc EXCEPT !.gathering = "complete"])
        /\ UNCHANGED <<session, made, joins, shares, overlap, stray, cut>>
        /\ Send(p, q, "ice-candidate", None) \/ UNCHANGED inbox
    BY <1>7 DEF Gathered, sessionVars, history
  <2>2. InboxOK'
    BY <1>1, <2>1, MessageType, SendType DEF InboxOK
  <2>3. [pc EXCEPT !.gathering = "complete"] \in PeerOK
    BY <1>1, <2>1 DEF PeerOK, Peers, WaitsForListeners
  <2> QED
    BY <1>1, <2>1, <2>2, <2>3, OneConnection
<1> QED
  BY <1>2, <1>3, <1>4, <1>5, <1>6, <1>7

LEMMA SetLocalType ==
  ASSUME TypeInv, NEW p \in Pages, NEW q \in Pages, SetLocal(p, q)
  PROVE  TypeInv'
<1> DEFINE pc == peer[p][q]
           op == Head(pc.queue)
           now == [Done(pc) EXCEPT !.gathering = IF @ = "new" THEN "gathering" ELSE @]
           offered == [now EXCEPT !.offer = op.desc]
           answered == [now EXCEPT !.offer = None, !.local = op.desc, !.remote = pc.offer]
<1>1. IsNext(p, q, "setLocal") /\ UNCHANGED <<session, made, joins, shares, stray, cut>>
  BY DEF SetLocal, sessionVars
<1>2. /\ pc \in Peers /\ WaitsForListeners(pc) /\ pc # None /\ op \in Ops /\ op.do = "setLocal"
      /\ Done(pc) \in PeerOK /\ Done(pc) \in Peers /\ WaitsForListeners(Done(pc))
      /\ peer \in [Pages -> [Pages -> PeerOK]] /\ InboxOK /\ HistoryOK
      /\ made \in [Pages -> Nat] /\ shares \in 0 .. MaxShares
  BY <1>1, NextType, PeersTyped, TypeParts, TypeIntoParts DEF PeersOK
<1>3. op.desc \in Descriptions /\ op.rest \in Seq(Pages)
  BY <1>2, OpFields
<1>4. now \in Peers /\ now.waiting = pc.waiting /\ now.heard = pc.heard
  BY <1>2 DEF Peers, Done
<1>5. Sessions'
  BY <1>1, <1>2, SessionsStay
<1>6. /\ op.desc.type = "offer" => offered \in PeerOK
      /\ SignalingState(pc, p) = "have-remote-offer" => answered \in PeerOK
  <2> HIDE DEF now, op
  <2>1. ASSUME op.desc.type = "offer"
        PROVE  offered \in Peers /\ offered.waiting = pc.waiting /\ offered.heard = pc.heard
    <3>1. op.desc \in Described("offer")
      BY <1>3, <2>1, DescriptionParts
    <3> QED
      BY <1>4, <3>1 DEF Peers
  <2>2. ASSUME SignalingState(pc, p) = "have-remote-offer"
        PROVE  answered \in Peers /\ answered.waiting = pc.waiting /\ answered.heard = pc.heard
    <3>1. pc.offer \in Descriptions
      BY <1>2, <2>2, DescriptionKinds DEF SignalingState, Peers
    <3> QED
      BY <1>3, <1>4, <3>1 DEF Peers
  <2> HIDE DEF offered, answered
  <2> QED
    BY <1>2, <2>1, <2>2 DEF PeerOK, WaitsForListeners
<1>7. CASE op.desc.type = "offer" /\ SignalingState(pc, p) # "have-remote-offer"
  <2>1. /\ peer' = [peer EXCEPT ![p] = Turn([peer[p] EXCEPT ![q] = offered], op.rest)]
        /\ Begins(p, First(op.rest)) /\ Send(p, q, "offer", op.desc)
    BY <1>2, <1>7 DEF SetLocal
  <2> HIDE DEF offered, op
  <2>2. [peer[p] EXCEPT ![q] = offered] \in [Pages -> PeerOK]
    BY <1>2, <1>6, <1>7
  <2>3. Turn([peer[p] EXCEPT ![q] = offered], op.rest) \in [Pages -> PeerOK]
    BY <1>3, <2>2, TurnType
  <2>4. PeersOK'
    BY <1>2, <2>1, <2>3 DEF PeersOK, PeerOK, WaitsForListeners
  <2>5. InboxOK'
    BY <1>3, <1>7, <2>1, DescriptionParts, MessageType, SendType DEF InboxOK, op
  <2>6. HistoryOK'
    BY <1>1, <1>2, <2>1, BeginsType DEF HistoryOK
  <2> QED
    BY <1>5, <2>4, <2>5, <2>6, TypeFromParts
<1>8. CASE op.desc.type = "answer" /\ SignalingState(pc, p) = "have-remote-offer"
  <2>1. Becomes(p, q, answered) /\ UNCHANGED overlap /\ Send(p, q, "answer", op.desc)
    BY <1>8 DEF SetLocal
  <2>2. answered \in PeerOK
    BY <1>6, <1>8
  <2> HIDE DEF answered, op
  <2>3. InboxOK'
    BY <1>3, <1>8, <2>1, DescriptionParts, MessageType, SendType DEF InboxOK, op
  <2> QED
    BY <1>1, <1>2, <2>1, <2>2, <2>3, OneConnection
<1>9. CASE /\ ~(op.desc.type = "offer" /\ SignalingState(pc, p) # "have-remote-offer")
           /\ ~(op.desc.type = "answer" /\ SignalingState(pc, p) = "have-remote-offer")
  <2>1. Becomes(p, q, Done(pc)) /\ UNCHANGED <<inbox, overlap>>
    BY <1>9 DEF SetLocal
  <2> QED
    BY <1>1, <1>2, <2>1, OneConnection DEF InboxOK
<1> QED
  BY <1>7, <1>8, <1>9

LEMMA TypeInvStep == TypeInv /\ [Next]_vars => TypeInv'
<1>1. ASSUME TypeInv, UNCHANGED vars PROVE TypeInv'
  BY <1>1, TypeIntoParts, TypeFromParts
  DEF vars, sessionVars, history, Sessions, Members, InboxOK, PeersOK, PeerOK,
      WaitsForListeners, HistoryOK
<1> QED
  BY <1>1, JoinType, WelcomeType, DepartType, RenegotiateType, ReceiveType, OperationType,
     SetLocalType DEF Next, AtRest

LEMMA InitTypeInv == Init => TypeInv
<1> SUFFICES ASSUME Init PROVE TypeInv
  OBVIOUS
<1>1. IsFiniteSet(Members)
  <2>1. Members = {}
    BY DEF Init, Members
  <2> QED
    BY <2>1, FS_EmptySet
<1>2. joins \in 0 .. MaxJoins /\ shares \in 0 .. MaxShares
  <2>1. MaxJoins \in Nat /\ MaxShares \in Nat
    BY NegotiationAssumption
  <2> QED
    BY <2>1 DEF Init
<1>3. inbox \in [Pages -> Seq(Messages)]
  BY EmptySeq DEF Init
<1>4. peer \in [Pages -> [Pages -> Peers \cup {None}]]
  BY DEF Init
<1>5. \A p, q \in Pages : peer[p][q] = None
  BY DEF Init
<1>6. /\ session \in [Pages -> {"out", "joining", "in"}]
      /\ made \in [Pages -> Nat]
      /\ {overlap, stray, cut} \subseteq BOOLEAN
  BY DEF Init
<1> QED
  BY <1>1, <1>2, <1>3, <1>4, <1>5, <1>6 DEF TypeInv, TypeOK

(* Every variable keeps its type: what the handlers queue, send and put    *)
(* into a connection is what it expects, an answer is only made to an      *)
(* offer, and only the maker of a connection ever waits for its listeners. *)
THEOREM TypeCorrect == Spec => []TypeOK
<1>1. TypeInv => TypeOK
  BY DEF TypeInv
<1> QED
  BY <1>1, InitTypeInv, TypeInvStep, PTL DEF Spec
-----------------------------------------------------------------------------
(* Agreement.  A negotiation passes through the queues, operations and     *)
(* inboxes of both pages; these are its traces there.                      *)

(* Only candidates may come at any time. *)
StepOps     == {op \in Ops : op.do # "addCandidate"}
Signals(q)  == {m \in Messages : m.from = q /\ m.type \in {"offer", "answer"}}
PeerLeft(q) == {m \in Messages : m.from = q /\ m.type = "peer-left"}

NoneOf(s, S) == \A i \in DOMAIN s : s[i] \notin S

(* A member of T is behind one of S. *)
Behind(s, S, T) == \E i, j \in DOMAIN s : i < j /\ s[i] \in S /\ s[j] \in T

(* x is the only member of S in s, and nothing of L is behind it. *)
OneOf(s, S, L, x) ==
  \E i \in DOMAIN s : /\ s[i] = x
                      /\ \A j \in DOMAIN s : /\ s[j] \in S => j = i
                                             /\ s[j] \in L => j < i

(* No step of a negotiation is to come over a connection; or only op is.   *)
Calm(pc) == pc # None => NoneOf(pc.queue, StepOps) /\ pc.waiting \cap StepOps = {}

HasOnly(pc, op) ==
  /\ pc # None
  /\ \/ pc.waiting = {op} /\ NoneOf(pc.queue, StepOps)
     \/ pc.waiting \cap StepOps = {} /\ OneOf(pc.queue, StepOps, {}, op)

Current(pc) == {op \in Pending(pc) : op \in StepOps /\ HasOnly(pc, op)}

OfferOf(pc) == IF pc = None THEN None ELSE pc.offer

(* The members a loop of handleWelcome still turns to, after the one whose *)
(* connection this is.                                                     *)
Rests(pc) == UNION {ToSet(op.rest) : op \in Pending(pc)}

-----------------------------------------------------------------------------
(* Sequences with none or one of a set. *)

LEMMA AppendElement ==
  ASSUME NEW T, NEW s \in Seq(T), NEW e \in T
  PROVE  /\ Append(s, e) \in Seq(T) /\ Len(Append(s, e)) = Len(s) + 1
         /\ DOMAIN s = 1 .. Len(s) /\ DOMAIN Append(s, e) = 1 .. Len(s) + 1
         /\ Len(s) \in Nat
         /\ \A i \in 1 .. Len(s) : Append(s, e)[i] = s[i]
         /\ Append(s, e)[Len(s) + 1] = e
BY AppendProperties, LenProperties

LEMMA TailElement ==
  ASSUME NEW T, NEW s \in Seq(T), s # <<>>
  PROVE  /\ Tail(s) \in Seq(T) /\ Head(s) \in T /\ Head(s) = s[1]
         /\ Len(s) \in Nat /\ Len(s) > 0 /\ Len(Tail(s)) = Len(s) - 1
         /\ DOMAIN s = 1 .. Len(s) /\ DOMAIN Tail(s) = 1 .. Len(s) - 1
         /\ \A i \in 1 .. Len(s) - 1 : Tail(s)[i] = s[i + 1]
BY HeadTailProperties, LenProperties

LEMMA FrontElement ==
  ASSUME NEW T, NEW s \in Seq(T), NEW e \in T
  PROVE  /\ <<e>> \o s \in Seq(T) /\ Len(s) \in Nat
         /\ DOMAIN s = 1 .. Len(s) /\ DOMAIN (<<e>> \o s) = 1 .. Len(s) + 1
         /\ (<<e>> \o s)[1] = e
         /\ \A i \in 1 .. Len(s) : (<<e>> \o s)[i + 1] = s[i]
<1>1. <<e>> \in Seq(T) /\ Len(<<e>>) = 1 /\ <<e>>[1] = e
  OBVIOUS
<1>2. /\ <<e>> \o s \in Seq(T) /\ Len(<<e>> \o s) = Len(s) + 1
      /\ \A i \in 1 .. Len(s) + 1 :
           (<<e>> \o s)[i] = IF i <= 1 THEN <<e>>[i] ELSE s[i - 1]
  BY <1>1, ConcatProperties, LenProperties
<1> QED
  BY <1>1, <1>2, LenProperties

LEMMA NoneAppend ==
  ASSUME NEW T, NEW s \in Seq(T), NEW e \in T, NEW S
  PROVE  /\ NoneOf(s, S) /\ e \notin S => NoneOf(Append(s, e), S)
         /\ NoneOf(Append(s, e), S) => NoneOf(s, S) /\ e \notin S
BY AppendElement DEF NoneOf

LEMMA NoneTail ==
  ASSUME NEW T, NEW s \in Seq(T), s # <<>>, NEW S
  PROVE  /\ NoneOf(s, S) => NoneOf(Tail(s), S) /\ Head(s) \notin S
         /\ NoneOf(Tail(s), S) /\ Head(s) \notin S => NoneOf(s, S)
<1>1. ASSUME NoneOf(s, S) PROVE NoneOf(Tail(s), S) /\ Head(s) \notin S
  BY <1>1, TailElement DEF NoneOf
<1>2. ASSUME NoneOf(Tail(s), S), Head(s) \notin S, NEW i \in DOMAIN s PROVE s[i] \notin S
  <2>1. CASE i = 1
    BY <1>2, <2>1, TailElement
  <2>2. CASE i # 1
    <3>1. i - 1 \in DOMAIN Tail(s) /\ Tail(s)[i - 1] = s[i]
      BY <2>2, TailElement
    <3> QED
      BY <1>2, <3>1 DEF NoneOf
  <2> QED
    BY <2>1, <2>2
<1> QED
  BY <1>1, <1>2 DEF NoneOf

LEMMA NoneFront ==
  ASSUME NEW T, NEW s \in Seq(T), NEW e \in T, NEW S, NoneOf(s, S), e \notin S
  PROVE  NoneOf(<<e>> \o s, S)
<1> SUFFICES ASSUME NEW i \in 1 .. Len(s) + 1 PROVE (<<e>> \o s)[i] \notin S
  BY FrontElement DEF NoneOf
<1>1. CASE i = 1
  BY <1>1, FrontElement
<1>2. CASE i # 1
  <2>1. i - 1 \in 1 .. Len(s) /\ (<<e>> \o s)[(i - 1) + 1] = s[i - 1] /\ (i - 1) + 1 = i
    BY <1>2, FrontElement
  <2> QED
    BY <2>1, FrontElement DEF NoneOf
<1> QED
  BY <1>1, <1>2

LEMMA NoneEmpty == ASSUME NEW S PROVE NoneOf(<<>>, S)
BY DEF NoneOf

LEMMA OneAppend ==
  ASSUME NEW T, NEW s \in Seq(T), NEW e \in T, NEW S, NEW L, NEW x,
         e \notin S, e \notin L, OneOf(s, S, L, x)
  PROVE  OneOf(Append(s, e), S, L, x)
<1>1. PICK i \in DOMAIN s : /\ s[i] = x
                            /\ \A j \in DOMAIN s : (s[j] \in S => j = i) /\ (s[j] \in L => j < i)
  BY DEF OneOf
<1>2. i \in DOMAIN Append(s, e) /\ Append(s, e)[i] = x
  BY <1>1, AppendElement
<1>3. ASSUME NEW j \in DOMAIN Append(s, e)
      PROVE  (Append(s, e)[j] \in S => j = i) /\ (Append(s, e)[j] \in L => j < i)
  BY <1>1, AppendElement
<1> QED
  BY <1>2, <1>3 DEF OneOf

LEMMA OneNew ==
  ASSUME NEW T, NEW s \in Seq(T), NEW e \in T, NEW S, NEW L, e \notin L, NoneOf(s, S)
  PROVE  OneOf(Append(s, e), S, L, e)
<1>1. Len(s) + 1 \in DOMAIN Append(s, e) /\ Append(s, e)[Len(s) + 1] = e
  BY AppendElement
<1>2. ASSUME NEW j \in DOMAIN Append(s, e)
      PROVE  /\ Append(s, e)[j] \in S => j = Len(s) + 1
             /\ Append(s, e)[j] \in L => j < Len(s) + 1
  BY AppendElement DEF NoneOf
<1> QED
  BY <1>1, <1>2 DEF OneOf

LEMMA OneTail ==
  ASSUME NEW T, NEW s \in Seq(T), s # <<>>, NEW S, NEW L, NEW x \in S, OneOf(s, S, L, x)
  PROVE  /\ Head(s) \notin S => OneOf(Tail(s), S, L, x)
         /\ Head(s) \in S => Head(s) = x /\ NoneOf(Tail(s), S) /\ NoneOf(Tail(s), L)
<1>1. PICK i \in DOMAIN s : /\ s[i] = x
                            /\ \A j \in DOMAIN s : (s[j] \in S => j = i) /\ (s[j] \in L => j < i)
  BY DEF OneOf
<1>2. ASSUME Head(s) \notin S PROVE OneOf(Tail(s), S, L, x)
  <2>1. i - 1 \in DOMAIN Tail(s) /\ Tail(s)[i - 1] = x
    BY <1>1, <1>2, TailElement
  <2>2. ASSUME NEW j \in DOMAIN Tail(s)
        PROVE  (Tail(s)[j] \in S => j = i - 1) /\ (Tail(s)[j] \in L => j < i - 1)
    <3>1. j + 1 \in DOMAIN s /\ Tail(s)[j] = s[j + 1] /\ j \in Int /\ i \in Int
      BY TailElement
    <3> QED
      BY <1>1, <3>1
  <2> QED
    BY <2>1, <2>2 DEF OneOf
<1>3. ASSUME Head(s) \in S PROVE Head(s) = x /\ NoneOf(Tail(s), S) /\ NoneOf(Tail(s), L)
  <2>1. i = 1 /\ Head(s) = x
    BY <1>1, <1>3, TailElement
  <2>2. ASSUME NEW j \in DOMAIN Tail(s) PROVE Tail(s)[j] \notin S /\ Tail(s)[j] \notin L
    <3>1. j + 1 \in DOMAIN s /\ Tail(s)[j] = s[j + 1] /\ j \in Int /\ j > 0
      BY TailElement
    <3> QED
      BY <1>1, <2>1, <3>1
  <2> QED
    BY <2>1, <2>2 DEF NoneOf
<1> QED
  BY <1>2, <1>3

LEMMA OneFront ==
  ASSUME NEW T, NEW s \in Seq(T), NEW e \in T, NEW S, NEW L, NEW x,
         e \notin S, OneOf(s, S, L, x)
  PROVE  OneOf(<<e>> \o s, S, L, x)
<1>1. PICK i \in DOMAIN s : /\ s[i] = x
                            /\ \A j \in DOMAIN s : (s[j] \in S => j = i) /\ (s[j] \in L => j < i)
  BY DEF OneOf
<1>2. i + 1 \in DOMAIN (<<e>> \o s) /\ (<<e>> \o s)[i + 1] = x /\ i \in Int /\ i > 0
  BY <1>1, FrontElement
<1>3. ASSUME NEW j \in 1 .. Len(s) + 1
      PROVE  ((<<e>> \o s)[j] \in S => j = i + 1) /\ ((<<e>> \o s)[j] \in L => j < i + 1)
  <2>1. CASE j = 1
    BY <1>2, <2>1, FrontElement
  <2>2. CASE j # 1
    <3>1. j - 1 \in DOMAIN s /\ (<<e>> \o s)[(j - 1) + 1] = s[j - 1] /\ (j - 1) + 1 = j
      BY <2>2, FrontElement
    <3> QED
      BY <1>1, <1>2, <3>1
  <2> QED
    BY <2>1, <2>2
<1>4. DOMAIN (<<e>> \o s) = 1 .. Len(s) + 1
  BY FrontElement
<1> QED
  BY <1>2, <1>3, <1>4 DEF OneOf

LEMMA OneIsIn ==
  ASSUME NEW s, NEW S, NEW L, NEW x, OneOf(s, S, L, x)
  PROVE  /\ x \in ToSet(s)
         /\ \A y \in ToSet(s) : y \in S => y = x
         /\ x \in S => ~NoneOf(s, S)
BY DEF OneOf, NoneOf, ToSet

LEMMA NoneIsIn ==
  ASSUME NEW s, NEW S PROVE NoneOf(s, S) <=> ToSet(s) \cap S = {}
BY DEF NoneOf, ToSet

LEMMA ElementsAppend ==
  ASSUME NEW T, NEW s \in Seq(T), NEW e \in T
  PROVE  ToSet(Append(s, e)) = ToSet(s) \cup {e}
<1>1. ASSUME NEW x \in ToSet(Append(s, e)) PROVE x \in ToSet(s) \cup {e}
  BY AppendElement DEF ToSet
<1>2. e \in ToSet(Append(s, e))
  <2>1. Len(s) + 1 \in DOMAIN Append(s, e) /\ Append(s, e)[Len(s) + 1] = e
    BY AppendElement
  <2> QED
    BY <2>1 DEF ToSet
<1>3. ASSUME NEW i \in DOMAIN s PROVE s[i] \in ToSet(Append(s, e))
  <2>1. i \in DOMAIN Append(s, e) /\ Append(s, e)[i] = s[i]
    BY AppendElement
  <2> QED
    BY <2>1 DEF ToSet
<1> QED
  BY <1>1, <1>2, <1>3 DEF ToSet

LEMMA ElementsTail ==
  ASSUME NEW T, NEW s \in Seq(T), s # <<>>
  PROVE  ToSet(s) = {Head(s)} \cup ToSet(Tail(s))
<1>1. ASSUME NEW i \in DOMAIN s PROVE s[i] \in {Head(s)} \cup ToSet(Tail(s))
  <2>1. CASE i = 1
    BY <2>1, TailElement
  <2>2. CASE i # 1
    <3>1. i - 1 \in DOMAIN Tail(s) /\ Tail(s)[i - 1] = s[i]
      BY <2>2, TailElement
    <3> QED
      BY <3>1 DEF ToSet
  <2> QED
    BY <2>1, <2>2
<1>2. Head(s) \in ToSet(s)
  <2>1. 1 \in DOMAIN s /\ s[1] = Head(s)
    BY TailElement
  <2> QED
    BY <2>1 DEF ToSet
<1>3. ASSUME NEW i \in DOMAIN Tail(s) PROVE Tail(s)[i] \in ToSet(s)
  <2>1. i + 1 \in DOMAIN s /\ s[i + 1] = Tail(s)[i]
    BY TailElement
  <2> QED
    BY <2>1 DEF ToSet
<1> QED
  BY <1>1, <1>2, <1>3 DEF ToSet

LEMMA ElementsFront ==
  ASSUME NEW T, NEW s \in Seq(T), NEW e \in T
  PROVE  ToSet(<<e>> \o s) = {e} \cup ToSet(s)
<1>1. ASSUME NEW i \in 1 .. Len(s) + 1 PROVE (<<e>> \o s)[i] \in {e} \cup ToSet(s)
  <2>1. CASE i = 1
    BY <2>1, FrontElement
  <2>2. CASE i # 1
    <3>1. i - 1 \in DOMAIN s /\ (<<e>> \o s)[(i - 1) + 1] = s[i - 1] /\ (i - 1) + 1 = i
      BY <2>2, FrontElement
    <3> QED
      BY <3>1 DEF ToSet
  <2> QED
    BY <2>1, <2>2
<1>2. e \in ToSet(<<e>> \o s)
  <2>1. 1 \in DOMAIN (<<e>> \o s) /\ (<<e>> \o s)[1] = e
    BY FrontElement
  <2> QED
    BY <2>1 DEF ToSet
<1>3. ASSUME NEW i \in DOMAIN s PROVE s[i] \in ToSet(<<e>> \o s)
  <2>1. i + 1 \in DOMAIN (<<e>> \o s) /\ (<<e>> \o s)[i + 1] = s[i]
    BY FrontElement
  <2> QED
    BY <2>1 DEF ToSet
<1>4. DOMAIN (<<e>> \o s) = 1 .. Len(s) + 1
  BY FrontElement
<1>5. ToSet(<<e>> \o s) \subseteq {e} \cup ToSet(s)
  BY <1>1, <1>4 DEF ToSet
<1>6. ToSet(s) \subseteq ToSet(<<e>> \o s)
  BY <1>3 DEF ToSet
<1> QED
  BY <1>2, <1>5, <1>6

-----------------------------------------------------------------------------
(* Sequences in which something of T follows something of S. *)

LEMMA BehindAppend ==
  ASSUME NEW X, NEW s \in Seq(X), NEW e \in X, NEW S, NEW T
  PROVE  /\ Behind(s, S, T) => Behind(Append(s, e), S, T)
         /\ ~ NoneOf(s, S) /\ e \in T => Behind(Append(s, e), S, T)
<1>1. ASSUME Behind(s, S, T) PROVE Behind(Append(s, e), S, T)
  <2>1. PICK i \in DOMAIN s, j \in DOMAIN s : i < j /\ s[i] \in S /\ s[j] \in T
    BY <1>1 DEF Behind
  <2>2. /\ i \in DOMAIN Append(s, e) /\ j \in DOMAIN Append(s, e)
        /\ Append(s, e)[i] = s[i] /\ Append(s, e)[j] = s[j]
    BY AppendElement
  <2> QED
    BY <2>1, <2>2 DEF Behind
<1>2. ASSUME ~ NoneOf(s, S), e \in T PROVE Behind(Append(s, e), S, T)
  <2>1. PICK i \in DOMAIN s : s[i] \in S
    BY <1>2 DEF NoneOf
  <2>2. /\ i \in DOMAIN Append(s, e) /\ Len(s) + 1 \in DOMAIN Append(s, e) /\ i < Len(s) + 1
        /\ Append(s, e)[i] = s[i] /\ Append(s, e)[Len(s) + 1] = e
    BY AppendElement
  <2> QED
    BY <1>2, <2>1, <2>2 DEF Behind
<1> QED
  BY <1>1, <1>2

LEMMA BehindTail ==
  ASSUME NEW X, NEW s \in Seq(X), s # <<>>, NEW S, NEW T, Behind(s, S, T)
  PROVE  /\ Head(s) \notin S => Behind(Tail(s), S, T)
         /\ ~ NoneOf(Tail(s), T) /\ ~ NoneOf(s, T)
<1>1. PICK i \in DOMAIN s, j \in DOMAIN s : i < j /\ s[i] \in S /\ s[j] \in T
  BY DEF Behind
<1>2. i \in Int /\ j \in Int /\ i >= 1
  BY TailElement
<1>3. j - 1 \in DOMAIN Tail(s) /\ Tail(s)[j - 1] = s[j]
  BY <1>1, <1>2, TailElement
<1>4. ASSUME Head(s) \notin S PROVE Behind(Tail(s), S, T)
  <2>1. i # 1
    BY <1>1, <1>4, TailElement
  <2>2. i - 1 \in DOMAIN Tail(s) /\ Tail(s)[i - 1] = s[i] /\ i - 1 < j - 1
    BY <1>1, <1>2, <2>1, TailElement
  <2> QED
    BY <1>1, <1>3, <2>2 DEF Behind
<1> QED
  BY <1>1, <1>3, <1>4 DEF NoneOf

LEMMA BehindFront ==
  ASSUME NEW X, NEW s \in Seq(X), NEW e \in X, NEW S, NEW T
  PROVE  /\ Behind(s, S, T) => Behind(<<e>> \o s, S, T)
         /\ NoneOf(<<e>> \o s, S) => NoneOf(s, S)
<1>1. ASSUME NEW i \in DOMAIN s
      PROVE  i + 1 \in DOMAIN (<<e>> \o s) /\ (<<e>> \o s)[i + 1] = s[i] /\ i \in Int
  BY FrontElement
<1>2. ASSUME Behind(s, S, T) PROVE Behind(<<e>> \o s, S, T)
  <2>1. PICK i \in DOMAIN s, j \in DOMAIN s : i < j /\ s[i] \in S /\ s[j] \in T
    BY <1>2 DEF Behind
  <2>2. i + 1 < j + 1
    BY <1>1, <2>1
  <2> QED
    BY <1>1, <2>1, <2>2 DEF Behind
<1>3. NoneOf(<<e>> \o s, S) => NoneOf(s, S)
  BY <1>1 DEF NoneOf
<1> QED
  BY <1>2, <1>3

LEMMA LastIn ==
  ASSUME NEW X, NEW s \in Seq(X), NEW S, NEW e \in X, e \in S PROVE ~ NoneOf(Append(s, e), S)
BY AppendElement DEF NoneOf

(* What s has of S and T, and T's behind S's, s2 has as well. *)
Holds(s, s2, S, T) ==
  /\ NoneOf(s2, S) => NoneOf(s, S)
  /\ NoneOf(s2, T) => NoneOf(s, T)
  /\ Behind(s, S, T) => Behind(s2, S, T)

LEMMA HoldsSame == ASSUME NEW s, NEW S, NEW T PROVE Holds(s, s, S, T)
BY DEF Holds

LEMMA HoldsAppend ==
  ASSUME NEW X, NEW s \in Seq(X), NEW e \in X, NEW S, NEW T
  PROVE  Holds(s, Append(s, e), S, T)
BY NoneAppend, BehindAppend DEF Holds

LEMMA HoldsFront ==
  ASSUME NEW X, NEW s \in Seq(X), NEW e \in X, NEW S, NEW T
  PROVE  Holds(s, <<e>> \o s, S, T)
BY BehindFront DEF Holds

LEMMA HoldsTail ==
  ASSUME NEW X, NEW s \in Seq(X), s # <<>>, NEW S, NEW T, Head(s) \notin S, Head(s) \notin T
  PROVE  Holds(s, Tail(s), S, T)
BY NoneTail, BehindTail DEF Holds

-----------------------------------------------------------------------------
(* Connections with none or one step to come. *)

LEMMA PeerFields ==
  ASSUME NEW pc \in PeerOK, pc # None
  PROVE  /\ pc \in Peers /\ pc.queue \in Seq(Ops) /\ pc.waiting \subseteq Ops
         /\ \A op1, op2 \in pc.waiting : op1 = op2
         /\ Pending(pc) = ToSet(pc.queue) \cup pc.waiting
         /\ OfferOf(pc) = pc.offer
         /\ pc.offer \in Described("offer") \cup {None}
         /\ pc.local \in Descriptions \cup {None} /\ pc.remote \in Descriptions \cup {None}
BY DEF PeerOK, Peers, WaitsForListeners, Pending, OfferOf

LEMMA PendingOps ==
  ASSUME NEW pc \in PeerOK
  PROVE  /\ Pending(pc) \subseteq Ops
         /\ Calm(pc) <=> Pending(pc) \cap StepOps = {}
<1>1. CASE pc = None
  BY <1>1 DEF Pending, Calm
<1>2. CASE pc # None
  <2>1. ToSet(pc.queue) \subseteq Ops
    BY <1>2, PeerFields DEF ToSet
  <2> QED
    BY <1>2, <2>1, PeerFields, NoneIsIn DEF Calm
<1> QED
  BY <1>1, <1>2

LEMMA CurrentIs ==
  ASSUME NEW pc \in PeerOK, NEW op \in StepOps
  PROVE  op \in Current(pc) <=> HasOnly(pc, op)
<1> SUFFICES ASSUME HasOnly(pc, op) PROVE op \in Pending(pc)
  BY DEF Current
<1> QED
  BY OneIsIn, PeerFields DEF HasOnly

LEMMA CurrentOnly ==
  ASSUME NEW pc \in PeerOK, NEW op \in Current(pc)
  PROVE  /\ pc # None /\ op \in StepOps /\ op \in Pending(pc) /\ HasOnly(pc, op)
         /\ ~ Calm(pc)
         /\ \A o \in Pending(pc) : o \in StepOps => o = op
<1>1. op \in Pending(pc) /\ op \in StepOps /\ HasOnly(pc, op) /\ pc # None
  BY DEF Current, HasOnly
<1>2. ASSUME NEW o \in Pending(pc), o \in StepOps PROVE o = op
  <2>1. o \in ToSet(pc.queue) \/ o \in pc.waiting
    BY <1>1, PeerFields
  <2>2. CASE pc.waiting = {op} /\ NoneOf(pc.queue, StepOps)
    BY <1>2, <2>1, <2>2, NoneIsIn
  <2>3. CASE pc.waiting \cap StepOps = {} /\ OneOf(pc.queue, StepOps, {}, op)
    BY <1>2, <2>1, <2>3, OneIsIn
  <2> QED
    BY <1>1, <2>2, <2>3 DEF HasOnly
<1> QED
  BY <1>1, <1>2, PendingOps

(* A connection that has gathered no candidates. *)
New(pc) == pc = None \/ pc.gathering = "new"

(* What a change that is no step of a negotiation leaves as it was.        *)
Kept(pc, pc2) ==
  /\ Pending(pc2) \cap StepOps \subseteq Pending(pc)
  /\ Current(pc) \subseteq Current(pc2)
  /\ OfferOf(pc2) = OfferOf(pc)
  /\ pc # None => /\ pc2 # None /\ pc2.local = pc.local /\ pc2.remote = pc.remote
                  /\ pc.heard => pc2.heard
                  /\ pc.candidate => pc2.candidate
  /\ New(pc) => New(pc2)
  /\ Rests(pc) \subseteq Rests(pc2)

LEMMA KeptSame == ASSUME NEW pc PROVE Kept(pc, pc)
BY DEF Kept

LEMMA KeptCalm ==
  ASSUME NEW pc \in PeerOK, NEW pc2 \in PeerOK, Kept(pc, pc2), Calm(pc)
  PROVE  Calm(pc2)
BY PendingOps DEF Kept

LEMMA AskedFields ==
  ASSUME NEW pc \in PeerOK, NEW op \in Ops
  PROVE  /\ Asked(pc, op) \in PeerOK /\ Asked(pc, op) # None
         /\ Pending(Asked(pc, op)) = Pending(pc) \cup {op}
         /\ Rests(Asked(pc, op)) = Rests(pc) \cup ToSet(op.rest)
         /\ OfferOf(Asked(pc, op)) = OfferOf(pc)
         /\ pc # None => /\ Asked(pc, op).local = pc.local /\ Asked(pc, op).remote = pc.remote
                         /\ Asked(pc, op).waiting = pc.waiting
                         /\ Asked(pc, op).queue = Append(pc.queue, op)
                         /\ Asked(pc, op).heard = pc.heard
                         /\ Asked(pc, op).candidate = pc.candidate
                         /\ Asked(pc, op).gathering = pc.gathering
         /\ New(pc) => New(Asked(pc, op))
         /\ pc = None => Asked(pc, op).waiting = {op} /\ Asked(pc, op).queue = <<>>
<1>1. Asked(pc, op) \in Peers /\ WaitsForListeners(Asked(pc, op))
  BY AskedType DEF PeerOK
<1>2. Asked(pc, op) \in PeerOK /\ Asked(pc, op) # None
  BY <1>1, NoneAssumption DEF PeerOK
<1>3. pc # None => /\ Asked(pc, op).local = pc.local /\ Asked(pc, op).remote = pc.remote
                   /\ Asked(pc, op).waiting = pc.waiting /\ Asked(pc, op).offer = pc.offer
                   /\ Asked(pc, op).queue = Append(pc.queue, op)
                   /\ Asked(pc, op).heard = pc.heard
                   /\ Asked(pc, op).candidate = pc.candidate
                   /\ Asked(pc, op).gathering = pc.gathering
  BY DEF Asked, PeerOK, Peers
<1>4. pc = None => /\ Asked(pc, op).waiting = {op} /\ Asked(pc, op).queue = <<>>
                   /\ Asked(pc, op).offer = None /\ Asked(pc, op).gathering = "new"
  BY DEF Asked, NewPeer
<1>5. OfferOf(Asked(pc, op)) = OfferOf(pc)
  BY <1>2, <1>3, <1>4 DEF OfferOf
<1>6. Pending(Asked(pc, op)) = Pending(pc) \cup {op}
  <2>1. CASE pc = None
    <3>1. ToSet(<<>>) = {}
      BY DEF ToSet
    <3> QED
      BY <1>2, <1>4, <2>1, <3>1 DEF Pending
  <2>2. CASE pc # None
    <3>1. ToSet(Append(pc.queue, op)) = ToSet(pc.queue) \cup {op}
      BY <2>2, PeerFields, ElementsAppend
    <3> QED
      BY <1>2, <1>3, <2>2, <3>1 DEF Pending
  <2> QED
    BY <2>1, <2>2
<1>7. Rests(Asked(pc, op)) = Rests(pc) \cup ToSet(op.rest)
  BY <1>6 DEF Rests
<1>8. New(pc) => New(Asked(pc, op))
  BY <1>3, <1>4 DEF New
<1> QED
  BY <1>2, <1>3, <1>4, <1>5, <1>6, <1>7, <1>8

LEMMA KeptAsked ==
  ASSUME NEW pc \in PeerOK, NEW op \in Ops, op \notin StepOps
  PROVE  Kept(pc, Asked(pc, op))
<1>1. ASSUME NEW x \in Current(pc) PROVE x \in Current(Asked(pc, op))
  <2>1. pc # None /\ x \in StepOps /\ HasOnly(pc, x)
    BY <1>1, CurrentOnly
  <2>2. CASE pc.waiting = {x} /\ NoneOf(pc.queue, StepOps)
    <3>1. NoneOf(Append(pc.queue, op), StepOps)
      BY <2>1, <2>2, PeerFields, NoneAppend
    <3>2. /\ Asked(pc, op) \in PeerOK /\ Asked(pc, op) # None
          /\ Asked(pc, op).waiting = {x} /\ NoneOf(Asked(pc, op).queue, StepOps)
      BY <2>1, <2>2, <3>1, AskedFields
    <3> QED
      BY <2>1, <3>2, CurrentIs DEF HasOnly
  <2>3. CASE pc.waiting \cap StepOps = {} /\ OneOf(pc.queue, StepOps, {}, x)
    <3>1. OneOf(Append(pc.queue, op), StepOps, {}, x)
      BY <2>1, <2>3, PeerFields, OneAppend
    <3> QED
      BY <2>1, <2>3, <3>1, AskedFields, CurrentIs DEF HasOnly
  <2> QED
    BY <2>1, <2>2, <2>3 DEF HasOnly
<1> QED
  BY <1>1, AskedFields DEF Kept

LEMMA AskedStep ==
  ASSUME NEW pc \in PeerOK, NEW op \in StepOps, Calm(pc)
  PROVE  op \in Current(Asked(pc, op))
<1>1. op \in Ops
  BY DEF StepOps
<1>2. CASE pc = None
  <2>1. NoneOf(<<>>, StepOps)
    BY NoneEmpty
  <2> QED
    BY <1>1, <1>2, <2>1, AskedFields, CurrentIs DEF HasOnly
<1>3. CASE pc # None
  <2>1. OneOf(Append(pc.queue, op), StepOps, {}, op)
    BY <1>1, <1>3, PeerFields, OneNew DEF Calm
  <2> QED
    BY <1>1, <1>3, <2>1, AskedFields, CurrentIs DEF HasOnly, Calm
<1> QED
  BY <1>2, <1>3

(* The listeners are attached: who waited for them is queued. *)
LEMMA KeptReady ==
  ASSUME NEW pc \in PeerOK, pc # None, NEW op \in pc.waiting, NEW pc2 \in PeerOK, pc2 # None,
         pc2.waiting = {}, pc2.queue = Append(pc.queue, op),
         pc2.offer = pc.offer, pc2.local = pc.local, pc2.remote = pc.remote,
         pc2.heard, pc2.candidate = pc.candidate,
         pc2.gathering = pc.gathering
  PROVE  Kept(pc, pc2)
<1>1. op \in Ops /\ pc.waiting = {op} /\ pc.queue \in Seq(Ops)
  BY PeerFields
<1>2. Pending(pc2) = Pending(pc)
  <2>1. ToSet(pc2.queue) = ToSet(pc.queue) \cup {op}
    BY <1>1, ElementsAppend
  <2> QED
    BY <1>1, <2>1 DEF Pending
<1>3. ASSUME NEW x \in Current(pc) PROVE x \in Current(pc2)
  <2>1. x \in StepOps /\ HasOnly(pc, x)
    BY <1>3, CurrentOnly
  <2>2. CASE pc.waiting = {x} /\ NoneOf(pc.queue, StepOps)
    <3>1. x = op
      BY <1>1, <2>2
    <3>2. OneOf(pc2.queue, StepOps, {}, x)
      BY <1>1, <2>2, <3>1, OneNew
    <3> QED
      BY <2>1, <3>2, CurrentIs DEF HasOnly
  <2>3. CASE pc.waiting \cap StepOps = {} /\ OneOf(pc.queue, StepOps, {}, x)
    <3>1. OneOf(pc2.queue, StepOps, {}, x)
      BY <1>1, <2>3, OneAppend
    <3> QED
      BY <2>1, <3>1, CurrentIs DEF HasOnly
  <2> QED
    BY <2>1, <2>2, <2>3 DEF HasOnly
<1>4. OfferOf(pc2) = OfferOf(pc)
  BY DEF OfferOf
<1> QED
  BY <1>2, <1>3, <1>4 DEF Kept, Rests, New

(* Nothing of the negotiation changes. *)
LEMMA KeptLike ==
  ASSUME NEW pc \in PeerOK, pc # None, NEW pc2 \in PeerOK, pc2 # None,
         pc2.waiting = pc.waiting, pc2.queue = pc.queue,
         pc2.offer = pc.offer, pc2.local = pc.local, pc2.remote = pc.remote,
         pc2.heard = pc.heard, pc2.candidate = pc.candidate,
         New(pc) => New(pc2)
  PROVE  Kept(pc, pc2)
BY DEF Kept, Pending, Current, HasOnly, OfferOf, Rests

(* The first operation is done, and another one may follow at the end.     *)
LEMMA TailPending ==
  ASSUME NEW pc \in PeerOK, pc # None, pc.queue # <<>>, NEW pc2 \in PeerOK, pc2 # None,
         pc2.waiting = pc.waiting, pc2.queue = Tail(pc.queue)
  PROVE  /\ Head(pc.queue) \in Pending(pc) /\ Head(pc.queue) \in Ops
         /\ Pending(pc) = {Head(pc.queue)} \cup Pending(pc2)
         /\ Rests(pc) = ToSet(Head(pc.queue).rest) \cup Rests(pc2)
         /\ Head(pc.queue) \in Current(pc) => Calm(pc2)
<1>1. ToSet(pc.queue) = {Head(pc.queue)} \cup ToSet(pc2.queue) /\ Head(pc.queue) \in Ops
  BY PeerFields, ElementsTail, HeadTailProperties
<1>2. Pending(pc) = {Head(pc.queue)} \cup Pending(pc2)
  BY <1>1, PeerFields
<1>3. Rests(pc) = ToSet(Head(pc.queue).rest) \cup Rests(pc2)
  BY <1>2 DEF Rests
<1>4. ASSUME Head(pc.queue) \in Current(pc) PROVE Calm(pc2)
  <2>1. Head(pc.queue) \in StepOps /\ HasOnly(pc, Head(pc.queue))
    BY <1>4, CurrentOnly
  <2>2. pc.queue \in Seq(Ops) /\ ~ NoneOf(pc.queue, StepOps)
    BY <2>1, PeerFields, NoneTail
  <2>3. pc.waiting \cap StepOps = {} /\ OneOf(pc.queue, StepOps, {}, Head(pc.queue))
    BY <2>1, <2>2 DEF HasOnly
  <2>4. NoneOf(Tail(pc.queue), StepOps)
    BY <2>1, <2>2, <2>3, OneTail
  <2> QED
    BY <2>3, <2>4 DEF Calm
<1> QED
  BY <1>1, <1>2, <1>3, <1>4

LEMMA ThenPending ==
  ASSUME NEW pc \in PeerOK, pc # None, pc.queue # <<>>, NEW op \in StepOps,
         NEW pc2 \in PeerOK, pc2 # None,
         pc2.waiting = pc.waiting, pc2.queue = Append(Tail(pc.queue), op)
  PROVE  /\ Head(pc.queue) \in Pending(pc) /\ Head(pc.queue) \in Ops
         /\ Pending(pc) \cup {op} = {Head(pc.queue)} \cup Pending(pc2)
         /\ op \in Pending(pc2) /\ Pending(pc2) \subseteq Pending(pc) \cup {op}
         /\ Rests(pc) \subseteq ToSet(Head(pc.queue).rest) \cup Rests(pc2)
         /\ ToSet(op.rest) \subseteq Rests(pc2)
         /\ Head(pc.queue) \in Current(pc) => op \in Current(pc2)
<1>1. op \in Ops /\ pc.queue \in Seq(Ops) /\ Tail(pc.queue) \in Seq(Ops)
  BY PeerFields, HeadTailProperties DEF StepOps
<1>2. /\ ToSet(pc.queue) = {Head(pc.queue)} \cup ToSet(Tail(pc.queue)) /\ Head(pc.queue) \in Ops
      /\ ToSet(pc2.queue) = ToSet(Tail(pc.queue)) \cup {op}
  <2>1. ToSet(pc.queue) = {Head(pc.queue)} \cup ToSet(Tail(pc.queue)) /\ Head(pc.queue) \in Ops
    BY <1>1, ElementsTail, HeadTailProperties
  <2>2. ToSet(pc2.queue) = ToSet(Tail(pc.queue)) \cup {op}
    <3> DEFINE t == Tail(pc.queue)
    <3>1. t \in Seq(Ops)
      BY <1>1
    <3> HIDE DEF t
    <3>2. ToSet(Append(t, op)) = ToSet(t) \cup {op}
      BY <1>1, <3>1, ElementsAppend
    <3> QED
      BY <3>2 DEF t
  <2> QED
    BY <2>1, <2>2
<1>3. /\ Pending(pc) \cup {op} = {Head(pc.queue)} \cup Pending(pc2)
      /\ op \in Pending(pc2) /\ Pending(pc2) \subseteq Pending(pc) \cup {op}
  BY <1>2 DEF Pending
<1>4. /\ Rests(pc) \subseteq ToSet(Head(pc.queue).rest) \cup Rests(pc2)
      /\ ToSet(op.rest) \subseteq Rests(pc2)
  BY <1>3 DEF Rests
<1>5. ASSUME Head(pc.queue) \in Current(pc) PROVE op \in Current(pc2)
  <2>1. Head(pc.queue) \in StepOps /\ HasOnly(pc, Head(pc.queue))
    BY <1>5, CurrentOnly
  <2>2. ~ NoneOf(pc.queue, StepOps)
    BY <1>1, <2>1, NoneTail
  <2>3. pc.waiting \cap StepOps = {} /\ OneOf(pc.queue, StepOps, {}, Head(pc.queue))
    BY <2>1, <2>2 DEF HasOnly
  <2>4. NoneOf(Tail(pc.queue), StepOps)
    BY <1>1, <2>1, <2>3, OneTail
  <2>5. OneOf(pc2.queue, StepOps, {}, op)
    BY <1>1, <2>4, OneNew
  <2> QED
    BY <2>3, <2>5, CurrentIs DEF HasOnly
<1> QED
  BY <1>2, <1>3, <1>4, <1>5, PeerFields

(* A candidate is dealt with. *)
LEMMA KeptTail ==
  ASSUME NEW pc \in PeerOK, pc # None, pc.queue # <<>>, Head(pc.queue) \notin StepOps,
         Head(pc.queue).rest = <<>>, NEW pc2 \in PeerOK, pc2 # None,
         pc2.waiting = pc.waiting, pc2.queue = Tail(pc.queue),
         pc2.offer = pc.offer, pc2.local = pc.local, pc2.remote = pc.remote,
         pc2.heard = pc.heard, pc.candidate => pc2.candidate,
         pc2.gathering = pc.gathering
  PROVE  Kept(pc, pc2)
<1>1. ASSUME NEW x \in Current(pc) PROVE x \in Current(pc2)
  <2>1. x \in StepOps /\ HasOnly(pc, x) /\ pc.queue \in Seq(Ops)
    BY <1>1, CurrentOnly, PeerFields
  <2>2. CASE pc.waiting = {x} /\ NoneOf(pc.queue, StepOps)
    <3>1. NoneOf(pc2.queue, StepOps)
      BY <2>1, <2>2, NoneTail
    <3> QED
      BY <2>1, <2>2, <3>1, CurrentIs DEF HasOnly
  <2>3. CASE pc.waiting \cap StepOps = {} /\ OneOf(pc.queue, StepOps, {}, x)
    <3>1. OneOf(pc2.queue, StepOps, {}, x)
      BY <2>1, <2>3, OneTail
    <3> QED
      BY <2>1, <2>3, <3>1, CurrentIs DEF HasOnly
  <2> QED
    BY <2>1, <2>2, <2>3 DEF HasOnly
<1>2. ToSet(<<>>) = {}
  BY DEF ToSet
<1> QED
  BY <1>1, <1>2, TailPending DEF Kept, OfferOf, New

-----------------------------------------------------------------------------
(* The phases of a negotiation in which p makes the offer to q. *)

(* Nothing of q's is on its way to p; or only m is, behind q's departures. *)
Silent(p, q)  == NoneOf(inbox[p], Signals(q))
Only(p, q, m) == OneOf(inbox[p], Signals(q), PeerLeft(q), m)

(* An operation on the way from the beginning of an offer to its sending.  *)
Starts(op) == op.do = "createOffer" \/ (op.do = "setLocal" /\ op.desc.type = "offer")

(* Candidates of the other side, as messages and as operations. *)
Ice(q) == {m \in Messages : m.from = q /\ m.type = "ice-candidate"}
IceOps == {op \in Ops : op.do = "addCandidate"}

(* The candidates of this side are still to be announced. *)
Gathers(pc) == pc # None /\ pc.heard /\ pc.gathering = "gathering"

(* p is to hear of a candidate of q. *)
OnItsWay(p, q) ==
  \/ Gathers(peer[q][p])
  \/ ~ NoneOf(inbox[p], Ice(q))
  \/ ~ NoneOf(peer[p][q].queue, IceOps)

(* The same, behind the step of the negotiation that p is to take. *)
Trails(p, q) ==
  \/ Gathers(peer[q][p])
  \/ Behind(inbox[p], Signals(q), Ice(q))
  \/ ~ NoneOf(peer[p][q].queue, StepOps) /\ ~ NoneOf(inbox[p], Ice(q))
  \/ Behind(peer[p][q].queue, StepOps, IceOps)

(* p has accepted a candidate of q, or one that comes will be accepted.    *)
Hears(p, q) ==
  /\ peer[p][q] # None
  /\ peer[p][q].candidate \/ (peer[p][q].remote # None /\ OnItsWay(p, q))

Met(p, q) == Hears(p, q) \/ Hears(q, p)

(* What an offer of p finds: somebody who will gather candidates, who will *)
(* be heard, or who will hear of those of p.                               *)
Fit(p, q) ==
  /\ peer[p][q].heard
  /\ New(peer[q][p]) \/ peer[p][q].remote # None \/ Hears(q, p)

(* The same, when the candidates found are in an answer already.           *)
Fitted(p, q, found) ==
  /\ peer[p][q].heard
  /\ New(peer[q][p]) \/ (peer[p][q].remote # None /\ found) \/ Met(p, q)

(* The same, when q has answered. *)
FittedWell(p, q) ==
  peer[p][q].heard /\ (peer[q][p].local.found \/ Trails(p, q) \/ Met(p, q))

(* p makes an offer, of which q cannot know. *)
Preparing(p, q) ==
  /\ \E op \in Current(peer[p][q]) : Starts(op) /\ (op.do = "setLocal" => op.desc.by = p)
  /\ OfferOf(peer[p][q]) = None
  /\ Calm(peer[q][p]) /\ OfferOf(peer[q][p]) = None
  /\ Silent(p, q) /\ Silent(q, p)

(* The offer of p is out. *)
HasOffer(p, q) == OfferOf(peer[p][q]) # None /\ OfferOf(peer[p][q]).by = p

(* It is on its way to q. *)
OfferOut(p, q) ==
  /\ HasOffer(p, q) /\ Calm(peer[p][q])
  /\ Calm(peer[q][p]) /\ OfferOf(peer[q][p]) = None
  /\ Silent(p, q) /\ Only(q, p, Message("offer", p, OfferOf(peer[p][q])))
  /\ stray \/ Fit(p, q)

(* q applies it and prepares its answer. *)
AnswerStep(op, before, offer) ==
  \/ op.do = "setRemote" /\ op.desc = offer /\ before = None
  \/ op.do = "createAnswer" /\ before = offer
  \/ op.do = "setLocal" /\ op.desc.type = "answer" /\ before = offer

(* What the step that q is at finds of the candidates. *)
AnswerFits(p, q, op) ==
  stray \/ IF op.do = "setLocal" THEN Fitted(p, q, op.desc.found) ELSE Fit(p, q)

Answering(p, q) ==
  /\ HasOffer(p, q) /\ Calm(peer[p][q])
  /\ \E op \in Current(peer[q][p]) :
       /\ AnswerStep(op, OfferOf(peer[q][p]), OfferOf(peer[p][q]))
       /\ AnswerFits(p, q, op)
  /\ Silent(p, q) /\ Silent(q, p)

(* q has answered, and p is to hear of it. *)
AnswerOut(p, q) ==
  /\ HasOffer(p, q)
  /\ peer[q][p] # None /\ Calm(peer[q][p]) /\ OfferOf(peer[q][p]) = None
  /\ peer[q][p].remote = OfferOf(peer[p][q])
  /\ peer[q][p].local # None /\ peer[q][p].local.type = "answer"
  /\ stray \/ FittedWell(p, q)
  /\ Silent(q, p)
  /\ \/ Calm(peer[p][q]) /\ Only(p, q, Message("answer", q, peer[q][p].local))
     \/ /\ Silent(p, q)
        /\ \E op \in Current(peer[p][q]) : op.do = "setRemote" /\ op.desc = peer[q][p].local

Working(p, q) == Preparing(p, q) \/ OfferOut(p, q) \/ Answering(p, q) \/ AnswerOut(p, q)

(* The two agree, and nothing is under way. *)
Settled(p, q) ==
  /\ Agree(p, q) /\ Agree(q, p)
  /\ Calm(peer[p][q]) /\ Calm(peer[q][p])
  /\ Silent(p, q) /\ Silent(q, p)
  /\ stray \/ Met(p, q)

(* p will turn to q with an offer: it is to be welcomed, has a welcome to  *)
(* read, or is on its way through the list of one.                         *)
Owes(p, q) ==
  \/ session[p] = "joining"
  \/ \E m \in ToSet(inbox[p]) : m.type = "welcome" /\ q \in ToSet(m.body)
  \/ \E r \in Pages : q \in Rests(peer[p][r])

Linked(p, q) ==
  Owes(p, q) \/ Owes(q, p) \/ Settled(p, q) \/ Working(p, q) \/ Working(q, p)

(* A departure of q that p has still to hear of closes nothing that is     *)
(* needed: q is back, and its offer is still to come.                      *)
Harmless(p, q) ==
  NoneOf(inbox[p], PeerLeft(q)) \/ Owes(q, p) \/ Preparing(q, p) \/ OfferOut(q, p)

PairsLinked == \A p, q \in Members : p # q => Linked(p, q) /\ Harmless(p, q)

(* Who makes an offer has found the two without any negotiation.           *)
StartsAlone(p, q) == \A op \in Pending(peer[p][q]) : Starts(op) => Preparing(p, q)

OffersAlone == \A p, q \in Pages : StartsAlone(p, q)

OutIsSilent == \A p \in Pages : session[p] = "out" => inbox[p] = <<>>

(* Of two pages, one has left after the other. *)
OneFarewell ==
  \A p, q \in Pages : p # q => NoneOf(inbox[p], PeerLeft(q)) \/ NoneOf(inbox[q], PeerLeft(p))

(* No page is a peer of its own. *)
NotWithItself(p) ==
  /\ peer[p][p] = None
  /\ \A m \in ToSet(inbox[p]) : IF m.type = "welcome" THEN p \notin ToSet(m.body) ELSE m.from # p
  /\ \A q \in Pages : p \notin Rests(peer[p][q])

(* Candidates are gathered when there is a description. *)
HasBegun(pc) == pc.gathering = "new" \/ pc.remote # None \/ pc.offer # None

(* Who makes a connection has a step of a negotiation to do, unless a      *)
(* candidate was astray.                                                   *)
NoStray ==
  ~ stray => \A p, q \in Pages : peer[p][q] # None =>
    peer[p][q].waiting \subseteq StepOps /\ HasBegun(peer[p][q])

LinkInv ==
  /\ TypeInv /\ NoStray /\ OutIsSilent /\ OneFarewell
  /\ \A p \in Pages : NotWithItself(p)
  /\ ~ Spoilt => OffersAlone /\ PairsLinked

-----------------------------------------------------------------------------
(* What leaves two pages where they are. *)

KeptIn(s, s2, q) ==
  /\ NoneOf(s, Signals(q)) => NoneOf(s2, Signals(q))
  /\ NoneOf(s, PeerLeft(q)) => NoneOf(s2, PeerLeft(q))
  /\ \A m \in Signals(q) :
       OneOf(s, Signals(q), PeerLeft(q), m) => OneOf(s2, Signals(q), PeerLeft(q), m)

LEMMA KeptInSame == ASSUME NEW s, NEW q PROVE KeptIn(s, s, q)
BY DEF KeptIn

LEMMA KeptInAppend ==
  ASSUME NEW s \in Seq(Messages), NEW m \in Messages, NEW q,
         m \notin Signals(q), m \notin PeerLeft(q)
  PROVE  KeptIn(s, Append(s, m), q)
BY NoneAppend, OneAppend DEF KeptIn

LEMMA KeptInTail ==
  ASSUME NEW s \in Seq(Messages), s # <<>>, NEW q, Head(s) \notin Signals(q)
  PROVE  KeptIn(s, Tail(s), q)
BY NoneTail, OneTail DEF KeptIn

LEMMA KeptInFront ==
  ASSUME NEW s \in Seq(Messages), NEW m \in Messages, NEW q,
         m \notin Signals(q), m \notin PeerLeft(q)
  PROVE  KeptIn(s, <<m>> \o s, q)
BY NoneFront, OneFront DEF KeptIn

(* No candidate of q's is read. *)
KeptIce(s, s2, q) == Holds(s, s2, Signals(q), Ice(q))

(* What p is to hear of q is still to come, or was accepted. *)
IceKept(p, q) ==
  peer[p][q] # None =>
    /\ peer[p][q].remote # None /\ OnItsWay(p, q) => OnItsWay(p, q)' \/ peer'[p][q].candidate
    /\ peer[p][q].heard /\ ~ (Calm(peer[p][q]) /\ Silent(p, q)) /\ Trails(p, q) => Trails(p, q)'

LEMMA IceHolds ==
  ASSUME NEW p, NEW q, KeptIce(inbox[p], inbox'[p], q),
         Gathers(peer[q][p]) => Gathers(peer'[q][p]),
         peer[p][q] # None => Holds(peer[p][q].queue, peer'[p][q].queue, StepOps, IceOps)
  PROVE  /\ peer[p][q] # None /\ OnItsWay(p, q) => OnItsWay(p, q)'
         /\ IceKept(p, q)
BY DEF IceKept, KeptIce, Holds, OnItsWay, Trails

(* The parts of TypeInv the argument uses. *)
LEMMA LinkTypes ==
  ASSUME TypeInv, NEW p \in Pages
  PROVE  /\ inbox[p] \in Seq(Messages) /\ session[p] \in {"out", "joining", "in"}
         /\ \A q \in Pages : peer[p][q] \in PeerOK
         /\ p \in Members <=> session[p] # "out"
BY TypeParts, PeersTyped DEF PeersOK, Members

LEMMA LinkTypesNext ==
  ASSUME TypeInv', NEW p \in Pages
  PROVE  /\ inbox'[p] \in Seq(Messages) /\ session'[p] \in {"out", "joining", "in"}
         /\ \A q \in Pages : peer'[p][q] \in PeerOK
         /\ p \in Members' <=> session'[p] # "out"
BY DEF TypeInv, TypeOK, Members, PeerOK, WaitsForListeners

PairKept(p, q) ==
  /\ Kept(peer[p][q], peer'[p][q]) /\ Kept(peer[q][p], peer'[q][p])
  /\ KeptIn(inbox[p], inbox'[p], q) /\ KeptIn(inbox[q], inbox'[q], p)
  /\ p \in Members /\ q \in Members => IceKept(p, q) /\ IceKept(q, p)
  /\ stray => stray'

LEMMA PairKeptSymmetric == ASSUME NEW p, NEW q, PairKept(p, q) PROVE PairKept(q, p)
BY DEF PairKept

LEMMA SignalTypes ==
  ASSUME NEW p \in Pages
  PROVE  /\ \A t \in {"offer", "answer"} : \A desc \in Described(t) : Message(t, p, desc) \in Signals(p)
         /\ Message("peer-left", p, None) \in PeerLeft(p)
BY MessageType DEF Signals, PeerLeft, Message

(* Only messages come. *)
LEMMA SamePeers ==
  ASSUME NEW p, NEW q, UNCHANGED <<peer[p][q], peer[q][p]>>, stray => stray',
         KeptIn(inbox[p], inbox'[p], q), KeptIn(inbox[q], inbox'[q], p),
         KeptIce(inbox[p], inbox'[p], q), KeptIce(inbox[q], inbox'[q], p)
  PROVE  PairKept(p, q)
<1>1. IceKept(p, q) /\ IceKept(q, p)
  BY HoldsSame, IceHolds
<1> QED
  BY <1>1, KeptSame DEF PairKept

LEMMA HearsKept ==
  ASSUME NEW p \in Members, NEW q \in Members, PairKept(p, q), Hears(p, q)
  PROVE  Hears(p, q)'
BY DEF PairKept, Kept, Hears, IceKept

LEMMA FitKept ==
  ASSUME NEW p \in Members, NEW q \in Members, PairKept(p, q), peer[p][q] # None
  PROVE  /\ Met(p, q) => Met(p, q)'
         /\ Fit(p, q) => Fit(p, q)'
         /\ \A found : Fitted(p, q, found) => Fitted(p, q, found)'
         /\ /\ FittedWell(p, q) /\ peer[q][p] # None /\ ~ (Calm(peer[p][q]) /\ Silent(p, q))
            => FittedWell(p, q)'
<1>1. (Hears(p, q) => Hears(p, q)') /\ (Hears(q, p) => Hears(q, p)')
  BY HearsKept, PairKeptSymmetric
<1>2. Met(p, q) => Met(p, q)'
  BY <1>1 DEF Met
<1>3. /\ peer[p][q].heard => peer'[p][q].heard
      /\ New(peer[q][p]) => New(peer'[q][p])
      /\ peer'[p][q].remote = peer[p][q].remote
      /\ peer[q][p] # None => peer'[q][p].local = peer[q][p].local
      /\ peer[p][q].heard /\ ~ (Calm(peer[p][q]) /\ Silent(p, q)) /\ Trails(p, q) => Trails(p, q)'
  BY DEF PairKept, Kept, IceKept
<1> QED
  BY <1>1, <1>2, <1>3 DEF Fit, Fitted, FittedWell

LEMMA PreparingKept ==
  ASSUME TypeInv, TypeInv', NEW p \in Pages, NEW q \in Pages, PairKept(p, q), Preparing(p, q)
  PROVE  Preparing(p, q)'
<1>1. Calm(peer'[q][p])
  BY LinkTypes, LinkTypesNext, KeptCalm DEF PairKept, Preparing
<1> QED
  BY <1>1 DEF PairKept, Kept, KeptIn, Preparing, Silent

LEMMA OfferOutKept ==
  ASSUME TypeInv, TypeInv', NEW p \in Pages, NEW q \in Pages, p \in Members, q \in Members,
         PairKept(p, q), OfferOut(p, q)
  PROVE  OfferOut(p, q)'
<1>1. Calm(peer'[q][p]) /\ Calm(peer'[p][q])
  BY LinkTypes, LinkTypesNext, KeptCalm DEF PairKept, OfferOut
<1>2. OfferOf(peer[p][q]) \in Described("offer")
  BY LinkTypes, PeerFields DEF OfferOut, HasOffer, OfferOf
<1>3. Message("offer", p, OfferOf(peer[p][q])) \in Signals(p)
  BY <1>2, SignalTypes
<1>4. (stray \/ Fit(p, q))'
  <2>1. peer[p][q] # None
    BY DEF OfferOut, HasOffer, OfferOf
  <2> QED
    BY <2>1, FitKept DEF PairKept, OfferOut
<1> QED
  BY <1>1, <1>3, <1>4 DEF PairKept, Kept, KeptIn, OfferOut, HasOffer, Silent, Only

LEMMA AnsweringKept ==
  ASSUME TypeInv, TypeInv', NEW p \in Pages, NEW q \in Pages, p \in Members, q \in Members,
         PairKept(p, q), Answering(p, q)
  PROVE  Answering(p, q)'
<1>1. Calm(peer'[p][q])
  BY LinkTypes, LinkTypesNext, KeptCalm DEF PairKept, Answering
<1>2. PICK op \in Current(peer[q][p]) :
        /\ AnswerStep(op, OfferOf(peer[q][p]), OfferOf(peer[p][q]))
         /\ AnswerFits(p, q, op)
  BY DEF Answering
<1>3. peer[q][p] # None /\ peer[p][q] # None
  BY DEF Current, HasOnly, Answering, HasOffer, OfferOf
<1>5. /\ op \in Current(peer'[q][p])
      /\ AnswerStep(op, OfferOf(peer'[q][p]), OfferOf(peer'[p][q]))
  BY <1>2 DEF PairKept, Kept
<1>6. AnswerFits(p, q, op)'
  BY <1>2, <1>3, FitKept DEF PairKept, AnswerFits
<1> QED
  BY <1>1, <1>5, <1>6 DEF PairKept, Kept, KeptIn, Answering, HasOffer, Silent

LEMMA AnswerOutKept ==
  ASSUME TypeInv, TypeInv', NEW p \in Pages, NEW q \in Pages, p \in Members, q \in Members,
         PairKept(p, q), AnswerOut(p, q)
  PROVE  AnswerOut(p, q)'
<1>1. Calm(peer'[q][p]) /\ (Calm(peer[p][q]) => Calm(peer'[p][q]))
  BY LinkTypes, LinkTypesNext, KeptCalm DEF PairKept, AnswerOut
<1>2. peer[q][p].local \in Described("answer")
  BY LinkTypes, PeerFields, DescriptionParts DEF AnswerOut
<1>3. Message("answer", q, peer[q][p].local) \in Signals(q)
  BY <1>2, SignalTypes
<1>4. HasOffer(p, q)'
  BY DEF PairKept, Kept, AnswerOut, HasOffer
<1>5. /\ peer'[q][p] # None /\ OfferOf(peer'[q][p]) = None
      /\ peer'[q][p].remote = OfferOf(peer'[p][q])
      /\ peer'[q][p].local = peer[q][p].local
      /\ peer'[q][p].local # None /\ peer'[q][p].local.type = "answer"
  BY DEF PairKept, Kept, AnswerOut
<1>6. Silent(q, p)' /\ (Silent(p, q) => Silent(p, q)')
  BY DEF PairKept, KeptIn, AnswerOut, Silent
<1>7. Only(p, q, Message("answer", q, peer[q][p].local))
        => Only(p, q, Message("answer", q, peer[q][p].local))'
  BY <1>3, <1>5 DEF PairKept, KeptIn, Only
<1>8. Current(peer[p][q]) \subseteq Current(peer'[p][q])
  BY DEF PairKept, Kept
<1>10. (stray \/ FittedWell(p, q))'
  <2>1. peer[p][q] # None /\ peer[q][p] # None /\ (stray => stray')
    BY DEF PairKept, AnswerOut, HasOffer, OfferOf
  <2>2. ~ (Calm(peer[p][q]) /\ Silent(p, q))
    <3>1. Only(p, q, Message("answer", q, peer[q][p].local)) => ~ Silent(p, q)
      BY <1>3, OneIsIn DEF Only, Silent
    <3>2. \A op \in Current(peer[p][q]) : ~ Calm(peer[p][q])
      BY LinkTypes, CurrentOnly
    <3> QED
      BY <3>1, <3>2 DEF AnswerOut
  <2> QED
    BY <2>1, <2>2, FitKept DEF AnswerOut
<1> QED
  BY <1>1, <1>4, <1>5, <1>6, <1>7, <1>8, <1>10 DEF AnswerOut

LEMMA SettledKept ==
  ASSUME TypeInv, TypeInv', NEW p \in Pages, NEW q \in Pages, p \in Members, q \in Members,
         PairKept(p, q), Settled(p, q)
  PROVE  Settled(p, q)'
<1>1. Calm(peer'[p][q]) /\ Calm(peer'[q][p])
  BY LinkTypes, LinkTypesNext, KeptCalm DEF PairKept, Settled
<1>2. Silent(p, q)' /\ Silent(q, p)'
  BY DEF PairKept, KeptIn, Settled, Silent
<1>3. Agree(p, q)' /\ Agree(q, p)'
  BY DEF PairKept, Kept, OfferOf, Settled, Agree
<1>5. (stray \/ Met(p, q))'
  BY FitKept DEF PairKept, Settled, Agree
<1> QED
  BY <1>1, <1>2, <1>3, <1>5 DEF Settled

LEMMA OwesKept ==
  ASSUME NEW p \in Pages, NEW q \in Pages, Owes(p, q),
         session'[p] = session[p],
         \A m \in ToSet(inbox[p]) : m.type = "welcome" => m \in ToSet(inbox'[p]),
         \A r \in Pages : Rests(peer[p][r]) \subseteq Rests(peer'[p][r])
  PROVE  Owes(p, q)'
BY DEF Owes

(* What p is to hear of q stays where it was, or came nearer. *)
LEMMA HearsOn ==
  ASSUME NEW p, NEW q, Hears(p, q), peer'[p][q] # None,
         peer[p][q].candidate => peer'[p][q].candidate,
         peer[p][q].remote # None => peer'[p][q].remote # None,
         Gathers(peer[q][p]) => Gathers(peer'[q][p]),
         NoneOf(inbox'[p], Ice(q)) => NoneOf(inbox[p], Ice(q)),
         NoneOf(peer'[p][q].queue, IceOps) => NoneOf(peer[p][q].queue, IceOps)
  PROVE  Hears(p, q)'
BY DEF Hears, OnItsWay

(* Two members nothing happens between. *)
LEMMA PairFrame ==
  ASSUME LinkInv, ~ Spoilt, TypeInv', NEW p \in Members, NEW q \in Members, p # q,
         PairKept(p, q), Owes(p, q) => Owes(p, q)', Owes(q, p) => Owes(q, p)'
  PROVE  Linked(p, q)' /\ Harmless(p, q)'
<1>1. p \in Pages /\ q \in Pages /\ TypeInv /\ Linked(p, q) /\ Harmless(p, q)
  BY DEF LinkInv, PairsLinked, Members
<1>2. Linked(p, q)'
  <2>1. PairKept(q, p)
    BY PairKeptSymmetric
  <2>2. Working(p, q) => Working(p, q)'
    BY <1>1, PreparingKept, OfferOutKept, AnsweringKept, AnswerOutKept DEF Working
  <2>3. Working(q, p) => Working(q, p)'
    BY <1>1, <2>1, PreparingKept, OfferOutKept, AnsweringKept, AnswerOutKept DEF Working
  <2>4. Settled(p, q) => Settled(p, q)'
    BY <1>1, SettledKept
  <2> QED
    BY <1>1, <2>2, <2>3, <2>4 DEF Linked
<1>3. Harmless(p, q)'
  <2>1. PairKept(q, p)
    BY PairKeptSymmetric
  <2>2. NoneOf(inbox[p], PeerLeft(q)) => NoneOf(inbox'[p], PeerLeft(q))
    BY DEF PairKept, KeptIn
  <2> QED
    BY <1>1, <2>1, <2>2, PreparingKept, OfferOutKept DEF Harmless
<1> QED
  BY <1>2, <1>3

LEMMA StartsFrame ==
  ASSUME LinkInv, ~ Spoilt, TypeInv', NEW p \in Pages, NEW q \in Pages, PairKept(p, q)
  PROVE  StartsAlone(p, q)'
<1> SUFFICES ASSUME NEW op \in Pending(peer'[p][q]), Starts(op) PROVE Preparing(p, q)'
  BY DEF StartsAlone
<1>1. op \in StepOps
  BY LinkTypesNext, PendingOps DEF StepOps, Starts
<1>2. op \in Pending(peer[p][q])
  BY <1>1 DEF PairKept, Kept
<1> QED
  BY <1>2, PreparingKept DEF LinkInv, OffersAlone, StartsAlone

-----------------------------------------------------------------------------
(* Sessions begin and end. *)

LEMMA NothingBetween ==
  ASSUME NEW p, NEW q, UNCHANGED <<peer[p][q], peer[q][p], inbox[p], inbox[q]>>,
         stray => stray'
  PROVE  PairKept(p, q)
BY KeptInSame, HoldsSame, SamePeers DEF KeptIce

LEMMA LinkJoin ==
  ASSUME LinkInv, TypeInv', NoStray', NEW p \in Pages, Join(p) PROVE LinkInv'
<1>1. /\ session[p] = "out" /\ session' = [session EXCEPT ![p] = "joining"]
      /\ UNCHANGED <<inbox, peer, overlap, stray, cut>>
  BY DEF Join, history
<1>2. session'[p] = "joining" /\ \A q \in Pages : q # p => session'[q] = session[q]
  BY <1>1, LinkTypes DEF LinkInv, TypeInv, TypeOK
<1>3. OutIsSilent'
  BY <1>1, <1>2 DEF LinkInv, OutIsSilent
<1>4. OneFarewell'
  BY <1>1 DEF LinkInv, OneFarewell
<1>5. \A q \in Pages : NotWithItself(q)'
  BY <1>1 DEF LinkInv, NotWithItself
<1>6. ASSUME ~ Spoilt' PROVE OffersAlone' /\ PairsLinked'
  <2>1. ~ Spoilt
    BY <1>1, <1>6 DEF Spoilt
  <2>2. \A x, y \in Pages : PairKept(x, y)
    BY <1>1, NothingBetween
  <2>3. OffersAlone'
    BY <2>1, <2>2, StartsFrame DEF OffersAlone
  <2>4. ASSUME NEW x \in Members', NEW y \in Members', x # y
        PROVE  Linked(x, y)' /\ Harmless(x, y)'
    <3>1. x \in Pages /\ y \in Pages
      BY DEF Members
    <3>2. CASE x = p
      <4>1. Owes(x, y)'
        BY <1>2, <3>2 DEF Owes
      <4>2. inbox'[x] = <<>>
        BY <1>1, <3>2 DEF LinkInv, OutIsSilent
      <4> QED
        BY <4>1, <4>2, NoneEmpty DEF Linked, Harmless
    <3>3. CASE y = p
      BY <1>2, <3>3 DEF Owes, Linked, Harmless
    <3>4. CASE x # p /\ y # p
      <4>1. x \in Members /\ y \in Members
        BY <1>2, <3>1, <3>4 DEF Members
      <4>2. (Owes(x, y) => Owes(x, y)') /\ (Owes(y, x) => Owes(y, x)')
        BY <1>1, <1>2, <3>1, <3>4, OwesKept
      <4> QED
        BY <2>1, <2>2, <2>4, <3>1, <4>1, <4>2, PairFrame
    <3> QED
      BY <3>2, <3>3, <3>4
  <2> QED
    BY <2>3, <2>4 DEF PairsLinked
<1> QED
  BY <1>3, <1>5, <1>6, <1>4 DEF LinkInv

(* The list of the others names each of them. *)
LEMMA ListIsWhole ==
  ASSUME NEW S, IsFiniteSet(S), NEW list \in SetToSeqs(S)
  PROVE  ToSet(list) = S
<1> DEFINE n == Cardinality(S)
<1>1. n \in Nat
  BY FS_CardinalityType
<1>2. list \in [1..n -> S] /\ \A i, j \in 1..n : i # j => list[i] # list[j]
  BY DEF SetToSeqs
<1>3. list \in Injection(1..n, S)
  BY <1>2 DEF Injection, IsInjective
<1>4. Cardinality(1..n) = n
  BY <1>1, FS_Interval
<1>5. list \in Surjection(1..n, S)
  BY <1>3, <1>4, FS_Injection
<1> QED
  BY <1>2, <1>5 DEF Surjection, ToSet

LEMMA LinkWelcome ==
  ASSUME LinkInv, TypeInv', NoStray', NEW p \in Pages, Welcome(p) PROVE LinkInv'
<1>1. /\ session[p] = "joining" /\ session' = [session EXCEPT ![p] = "in"]
      /\ UNCHANGED <<peer, overlap, stray, cut>>
  BY DEF Welcome, history
<1>2. PICK list \in SetToSeqs(Members \ {p}) :
        inbox' = [inbox EXCEPT ![p] = <<Message("welcome", p, list)>> \o inbox[p]]
  BY DEF Welcome
<1> DEFINE m == Message("welcome", p, list)
<1>3. ToSet(list) = Members \ {p}
  <2>1. IsFiniteSet(Members \ {p})
    BY FS_RemoveElement DEF LinkInv, TypeInv
  <2> QED
    BY <2>1, ListIsWhole
<1>4. m \in Messages /\ m.type = "welcome" /\ m.body = list
  <2>1. inbox'[p] \in Seq(Messages) /\ inbox[p] \in Seq(Messages)
    BY LinkTypes, LinkTypesNext DEF LinkInv
  <2>2. inbox'[p] = <<m>> \o inbox[p]
    BY <1>2 DEF LinkInv, TypeInv, TypeOK
  <2>3. (<<m>> \o inbox[p])[1] = m /\ 1 \in DOMAIN (<<m>> \o inbox[p])
    <3>1. <<m>> \in Seq({m}) /\ Len(<<m>>) = 1
      OBVIOUS
    <3>2. <<m>> \in Seq({m} \cup Messages) /\ inbox[p] \in Seq({m} \cup Messages)
      BY <2>1
    <3> QED
      BY <3>2, FrontElement
  <2> QED
    BY <2>1, <2>2, <2>3 DEF Message
<1>5. /\ session'[p] = "in" /\ Members' = Members
      /\ \A q \in Pages : q # p => session'[q] = session[q] /\ inbox'[q] = inbox[q]
      /\ inbox'[p] = <<m>> \o inbox[p] /\ inbox[p] \in Seq(Messages)
      /\ ToSet(inbox'[p]) = {m} \cup ToSet(inbox[p])
  <2>1. /\ session'[p] = "in" /\ inbox'[p] = <<m>> \o inbox[p] /\ inbox[p] \in Seq(Messages)
        /\ \A q \in Pages : q # p => session'[q] = session[q] /\ inbox'[q] = inbox[q]
    BY <1>1, <1>2, LinkTypes DEF LinkInv, TypeInv, TypeOK
  <2>2. Members' = Members
    BY <1>1, <2>1 DEF Members
  <2>3. ToSet(<<m>> \o inbox[p]) = {m} \cup ToSet(inbox[p])
    BY <1>4, <2>1, ElementsFront
  <2> QED
    BY <2>1, <2>2, <2>3
<1> HIDE DEF m
<1>6. OutIsSilent'
  BY <1>5 DEF LinkInv, OutIsSilent
<1>7. OneFarewell'
  <2>1. \A q : NoneOf(inbox[p], PeerLeft(q)) => NoneOf(inbox'[p], PeerLeft(q))
    <3>1. \A q : m \notin PeerLeft(q)
      BY <1>4 DEF PeerLeft
    <3> QED
      BY <1>4, <1>5, <3>1, NoneFront
  <2> QED
    BY <1>5, <2>1 DEF LinkInv, OneFarewell
<1>8. \A q \in Pages : NotWithItself(q)'
  BY <1>1, <1>3, <1>4, <1>5 DEF LinkInv, NotWithItself
<1>9. ASSUME ~ Spoilt' PROVE OffersAlone' /\ PairsLinked'
  <2>1. ~ Spoilt
    BY <1>1, <1>9 DEF Spoilt
  <2>2. ASSUME NEW x \in Pages, NEW y \in Pages PROVE PairKept(x, y)
    <3>1. \A z : m \notin Signals(z) /\ m \notin PeerLeft(z)
      BY <1>4 DEF Signals, PeerLeft
    <3>2. KeptIn(inbox[x], inbox'[x], y) /\ KeptIn(inbox[y], inbox'[y], x)
      BY <1>4, <1>5, <3>1, KeptInFront, KeptInSame
    <3>3. KeptIce(inbox[x], inbox'[x], y) /\ KeptIce(inbox[y], inbox'[y], x)
      BY <1>4, <1>5, HoldsFront, HoldsSame DEF KeptIce
    <3> QED
      BY <1>1, <3>2, <3>3, SamePeers
  <2>3. OffersAlone'
    BY <2>1, <2>2, StartsFrame DEF OffersAlone
  <2>4. ASSUME NEW x \in Members, NEW y \in Members, x # y PROVE Owes(x, y) => Owes(x, y)'
    <3>1. x \in Pages /\ y \in Pages
      BY DEF Members
    <3>2. CASE x = p
      <4>1. m \in ToSet(inbox'[p]) /\ y \in ToSet(m.body)
        BY <1>3, <1>4, <1>5, <2>4, <3>2
      <4> QED
        BY <1>4, <3>2, <4>1 DEF Owes
    <3>3. CASE x # p
      BY <1>1, <1>5, <3>1, <3>3, OwesKept
    <3> QED
      BY <3>2, <3>3
  <2>5. ASSUME NEW x \in Members, NEW y \in Members, x # y
        PROVE  Linked(x, y)' /\ Harmless(x, y)'
    BY <2>1, <2>2, <2>4, <2>5, PairFrame DEF Members
  <2> QED
    BY <1>5, <2>3, <2>5 DEF PairsLinked
<1> QED
  BY <1>6, <1>8, <1>9, <1>7 DEF LinkInv

(* Who leaves takes its negotiations with it; what others began stands     *)
(* alone as before.                                                        *)
LEMMA PreparingWithout ==
  ASSUME NEW p \in Pages, NEW q \in Pages, Preparing(p, q),
         peer'[p][q] = peer[p][q], peer'[q][p] \in {peer[q][p], None},
         NoneOf(inbox'[p], Signals(q)), NoneOf(inbox'[q], Signals(p))
  PROVE  Preparing(p, q)'
BY DEF Preparing, Calm, OfferOf, Silent

LEMMA LinkDepart ==
  ASSUME LinkInv, TypeInv', NoStray', NEW p \in Pages, Leave(p) \/ Drop(p) PROVE LinkInv'
<1> DEFINE m == Message("peer-left", p, None)
<1>1. /\ session' = [session EXCEPT ![p] = "out"] /\ UNCHANGED <<overlap, stray, cut>>
      /\ inbox' = [q \in Pages |-> IF q = p THEN <<>>
                                   ELSE IF q \in Members THEN Append(inbox[q], m) ELSE inbox[q]]
  BY DEF Leave, Drop, Depart, history
<1>2. peer' = peer \/ peer' = [peer EXCEPT ![p] = [q \in Pages |-> None]]
  BY DEF Leave, Drop
<1>3. m \in Messages /\ m.type = "peer-left" /\ m.from = p
      /\ \A q : m \notin Signals(q) /\ (q # p => m \notin PeerLeft(q))
  BY MessageType DEF Message, Signals, PeerLeft
<1> HIDE DEF m
<1>4. /\ Members' = Members \ {p} /\ inbox'[p] = <<>>
      /\ \A q \in Pages : q # p =>
           session'[q] = session[q] /\ inbox'[q] \in {inbox[q], Append(inbox[q], m)}
  BY <1>1, LinkTypes DEF LinkInv, TypeInv, TypeOK, Members
<1>5. ASSUME NEW q \in Pages
      PROVE  /\ inbox[q] \in Seq(Messages) /\ ToSet(Append(inbox[q], m)) = ToSet(inbox[q]) \cup {m}
             /\ \A S : NoneOf(inbox[q], S) /\ m \notin S => NoneOf(Append(inbox[q], m), S)
  <2>1. inbox[q] \in Seq(Messages)
    BY LinkTypes DEF LinkInv
  <2> QED
    BY <1>3, <2>1, ElementsAppend, NoneAppend
<1>6. \A x, y \in Pages : peer'[x][y] = peer[x][y] \/ (x = p /\ peer'[x][y] = None)
  <2>1. CASE peer' = peer
    BY <2>1
  <2>2. CASE peer' = [peer EXCEPT ![p] = [q \in Pages |-> None]]
    BY <2>2 DEF LinkInv, TypeInv, TypeOK
  <2> QED
    BY <1>2, <2>1, <2>2
<1>7. OutIsSilent'
  BY <1>1, <1>4, LinkTypes DEF LinkInv, OutIsSilent, Members
<1>8. OneFarewell'
  <2> SUFFICES ASSUME NEW x \in Pages, NEW y \in Pages, x # y
               PROVE  NoneOf(inbox'[x], PeerLeft(y)) \/ NoneOf(inbox'[y], PeerLeft(x))
    BY DEF OneFarewell
  <2>1. CASE x = p \/ y = p
    BY <1>4, <2>1, NoneEmpty
  <2>2. CASE x # p /\ y # p
    <3>1. m \notin PeerLeft(x) /\ m \notin PeerLeft(y)
      BY <1>3, <2>2
    <3>2. /\ NoneOf(inbox[x], PeerLeft(y)) => NoneOf(inbox'[x], PeerLeft(y))
          /\ NoneOf(inbox[y], PeerLeft(x)) => NoneOf(inbox'[y], PeerLeft(x))
      BY <1>5, <1>4, <2>2, <3>1
    <3> QED
      BY <3>2 DEF LinkInv, OneFarewell
  <2> QED
    BY <2>1, <2>2
<1>9. ASSUME NEW q \in Pages PROVE NotWithItself(q)'
  <2>1. NotWithItself(q)
    BY DEF LinkInv
  <2>2. Rests(None) = {}
    BY DEF Rests, Pending
  <2>3. peer'[q][q] = None /\ \A r \in Pages : q \notin Rests(peer'[q][r])
    BY <1>6, <2>1, <2>2 DEF NotWithItself
  <2>4. \A k \in ToSet(inbox'[q]) : k \in ToSet(inbox[q]) \/ (q # p /\ k = m)
    <3>1. CASE q = p
      BY <1>4, <3>1 DEF ToSet
    <3>2. CASE q # p
      <4>1. inbox'[q] = inbox[q] \/ inbox'[q] = Append(inbox[q], m)
        BY <1>4, <3>2
      <4>2. ToSet(Append(inbox[q], m)) = ToSet(inbox[q]) \cup {m}
        BY <1>5
      <4> QED
        BY <3>2, <4>1, <4>2
    <3> QED
      BY <3>1, <3>2
  <2> QED
    BY <1>3, <2>1, <2>3, <2>4 DEF NotWithItself
<1>10. ASSUME ~ Spoilt' PROVE OffersAlone' /\ PairsLinked'
  <2>1. ~ Spoilt
    BY <1>1, <1>10 DEF Spoilt
  <2>2. ASSUME NEW x \in Pages, NEW y \in Pages, NoneOf(inbox[x], Signals(y))
        PROVE  NoneOf(inbox'[x], Signals(y))
    BY <1>5, <1>3, <1>4, <2>2, NoneEmpty
  <2>3. ASSUME NEW x \in Pages, NEW y \in Pages, x # p, y # p PROVE PairKept(x, y)
    <3>1. KeptIn(inbox[x], inbox'[x], y) /\ KeptIn(inbox[y], inbox'[y], x)
      BY <1>5, <1>3, <1>4, <2>3, KeptInAppend, KeptInSame
    <3>2. KeptIce(inbox[x], inbox'[x], y) /\ KeptIce(inbox[y], inbox'[y], x)
      <4> SUFFICES ASSUME NEW z \in Pages, z # p, NEW S, NEW T PROVE Holds(inbox[z], inbox'[z], S, T)
        BY <2>3 DEF KeptIce
      <4>1. inbox[z] \in Seq(Messages) /\ (inbox'[z] = inbox[z] \/ inbox'[z] = Append(inbox[z], m))
        BY <1>4, <1>5
      <4> QED
        BY <1>3, <4>1, HoldsAppend, HoldsSame
    <3> QED
      BY <1>1, <1>6, <2>3, <3>1, <3>2, SamePeers
  <2>4. ASSUME NEW x \in Pages, NEW y \in Pages PROVE StartsAlone(x, y)'
    <3> SUFFICES ASSUME NEW op \in Pending(peer'[x][y]), Starts(op) PROVE Preparing(x, y)'
      BY DEF StartsAlone
    <3>1. peer'[x][y] = peer[x][y]
      BY <1>6 DEF Pending
    <3>2. Preparing(x, y)
      BY <2>1, <3>1 DEF LinkInv, OffersAlone, StartsAlone
    <3>3. NoneOf(inbox'[x], Signals(y)) /\ NoneOf(inbox'[y], Signals(x))
      BY <2>2, <3>2 DEF Preparing, Silent
    <3> QED
      BY <1>6, <3>1, <3>2, <3>3, PreparingWithout
  <2>5. ASSUME NEW x \in Pages, NEW y \in Pages, x # p, Owes(x, y) PROVE Owes(x, y)'
    <3>1. ToSet(inbox[x]) \subseteq ToSet(inbox'[x])
      BY <1>5, <1>4, <2>5
    <3>2. \A r \in Pages : Rests(peer[x][r]) \subseteq Rests(peer'[x][r])
      BY <1>6, <2>5
    <3> QED
      BY <1>4, <2>5, <3>1, <3>2, OwesKept
  <2>6. ASSUME NEW x \in Members', NEW y \in Members', x # y
        PROVE  Linked(x, y)' /\ Harmless(x, y)'
    <3>1. x \in Members /\ y \in Members /\ x # p /\ y # p /\ x \in Pages /\ y \in Pages
      BY <1>4 DEF Members
    <3> QED
      BY <2>1, <2>3, <2>5, <2>6, <3>1, PairFrame
  <2> QED
    BY <2>4, <2>6 DEF OffersAlone, PairsLinked
<1> QED
  BY <1>7, <1>9, <1>10, <1>8 DEF LinkInv

-----------------------------------------------------------------------------
(* Steps of one page. *)

Sound(p, q) ==
  /\ StartsAlone(p, q) /\ StartsAlone(q, p)
  /\ p \in Members /\ q \in Members =>
       /\ Linked(p, q) /\ Linked(q, p)
       /\ Harmless(p, q) /\ Harmless(q, p)

(* The others only get messages from p, and what it does concerns those to *)
(* whom it does it.                                                        *)
OnlyPage(p) ==
  /\ session' = session /\ (stray => stray') /\ ToSet(inbox'[p]) \subseteq ToSet(inbox[p])
  /\ \A x \in Pages \ {p} :
       /\ peer'[x] = peer[x]
       /\ ToSet(inbox[x]) \subseteq ToSet(inbox'[x])
       /\ \A m \in ToSet(inbox'[x]) : m \in ToSet(inbox[x]) \/ (m.from = p /\ m.type \notin {"welcome", "peer-left"})
       /\ session[x] = "out" => inbox'[x] = inbox[x]
       /\ \A y \in Pages \ {p} :
            KeptIn(inbox[x], inbox'[x], y) /\ KeptIce(inbox[x], inbox'[x], y)

LEMMA SoundBefore ==
  ASSUME LinkInv, ~ Spoilt, NEW p \in Pages, NEW q \in Pages, p # q PROVE Sound(p, q)
BY DEF LinkInv, OffersAlone, PairsLinked, Sound

LEMMA SoundFrame ==
  ASSUME LinkInv, ~ Spoilt, TypeInv', NEW p \in Pages, NEW q \in Pages, p # q,
         session' = session, PairKept(p, q),
         Owes(p, q) => Owes(p, q)', Owes(q, p) => Owes(q, p)'
  PROVE  Sound(p, q)'
<1>1. PairKept(q, p)
  BY PairKeptSymmetric
<1>2. StartsAlone(p, q)' /\ StartsAlone(q, p)'
  BY <1>1, StartsFrame
<1>3. Members' = Members
  BY DEF Members
<1>4. ASSUME p \in Members, q \in Members
      PROVE  Linked(p, q)' /\ Harmless(p, q)' /\ Linked(q, p)' /\ Harmless(q, p)'
  BY <1>1, <1>4, PairFrame
<1> QED
  BY <1>2, <1>3, <1>4 DEF Sound

LEMMA OthersOwe ==
  ASSUME LinkInv, NEW p \in Pages, OnlyPage(p), NEW x \in Pages, x # p, NEW y \in Pages, Owes(x, y)
  PROVE  Owes(x, y)'
<1>1. \A r \in Pages : Rests(peer[x][r]) \subseteq Rests(peer'[x][r])
  BY DEF OnlyPage
<1> QED
  BY <1>1, OwesKept DEF OnlyPage

LEMMA LinkLocal ==
  ASSUME LinkInv, TypeInv', NoStray', NEW p \in Pages, OnlyPage(p), NotWithItself(p)',
         session[p] = "out" => inbox'[p] = <<>>,
         ~ Spoilt' => ~ Spoilt /\ \A y \in Pages \ {p} : Sound(p, y)'
  PROVE  LinkInv'
<1>1. OutIsSilent'
  BY DEF LinkInv, OutIsSilent, OnlyPage
<1>2. OneFarewell'
  <2>1. ASSUME NEW x \in Pages, NEW y \in Pages, x # y, NoneOf(inbox[x], PeerLeft(y))
        PROVE  NoneOf(inbox'[x], PeerLeft(y))
    BY <2>1, NoneIsIn DEF OnlyPage, PeerLeft
  <2> QED
    BY <2>1 DEF LinkInv, OneFarewell
<1>3. ASSUME NEW x \in Pages PROVE NotWithItself(x)'
  BY DEF LinkInv, OnlyPage, NotWithItself
<1>4. ASSUME ~ Spoilt', NEW x \in Pages, NEW y \in Pages, x # y PROVE Sound(x, y)'
  <2>1. CASE x = p
    BY <1>4, <2>1
  <2>2. CASE y = p
    <3>1. Sound(y, x)'
      BY <1>4, <2>2
    <3> QED
      BY <3>1 DEF Sound
  <2>3. CASE x # p /\ y # p
    <3>1. PairKept(x, y)
      BY <2>3, SamePeers DEF OnlyPage
    <3> QED
      BY <1>4, <2>3, <3>1, OthersOwe, SoundFrame DEF OnlyPage
  <2> QED
    BY <2>1, <2>2, <2>3
<1>5. ASSUME ~ Spoilt' PROVE OffersAlone' /\ PairsLinked'
  <2>1. \A x \in Pages : StartsAlone(x, x)'
    BY <1>3 DEF NotWithItself, StartsAlone, Pending
  <2> QED
    BY <1>4, <1>5, <2>1 DEF Sound, OffersAlone, PairsLinked, Members
<1> QED
  BY <1>1, <1>3, <1>5, <1>2 DEF LinkInv

(* Nobody who is busy is in a phase that an offer could begin in.          *)
LEMMA NotBusy ==
  ASSUME TypeInv, NEW p \in Pages, NEW q \in Pages, ~ Busy(p, q)
  PROVE  /\ Silent(p, q) /\ Calm(peer[p][q]) /\ OfferOf(peer[p][q]) = None
         /\ ~ Preparing(p, q) /\ ~ OfferOut(p, q)
<1>1. peer[p][q] \in PeerOK
  BY LinkTypes
<1>2. Silent(p, q)
  BY NoneIsIn DEF Busy, Silent, Signals
<1>3. Calm(peer[p][q])
  BY <1>1, PendingOps DEF Busy, StepOps
<1>4. OfferOf(peer[p][q]) = None
  BY DEF Busy, OfferOf
<1>5. \A op : op \notin Current(peer[p][q])
  BY <1>1, <1>3, CurrentOnly
<1> QED
  BY <1>2, <1>3, <1>4, <1>5 DEF Preparing, OfferOut, HasOffer

(* An offer begins. *)
LEMMA SoundBegun ==
  ASSUME LinkInv, ~ Spoilt, TypeInv', NEW p \in Pages, OnlyPage(p), NEW q \in Pages, p # q,
         ~ Busy(p, q), ~ Busy(q, p), NEW rest \in Seq(Pages),
         peer'[p][q] = Asked(peer[p][q], Op("createOffer", None, rest)),
         inbox'[q] = inbox[q], KeptIn(inbox[p], inbox'[p], q)
  PROVE  Sound(p, q)'
<1> DEFINE op == Op("createOffer", None, rest)
<1>1. op \in Ops /\ op \in StepOps /\ op.do = "createOffer"
  BY OpType DEF Op, StepOps
<1>2. TypeInv /\ peer[p][q] \in PeerOK /\ peer[q][p] \in PeerOK
  BY LinkTypes DEF LinkInv
<1>3. /\ Silent(p, q) /\ Calm(peer[p][q]) /\ OfferOf(peer[p][q]) = None
      /\ Silent(q, p) /\ Calm(peer[q][p]) /\ OfferOf(peer[q][p]) = None
      /\ ~ Preparing(q, p) /\ ~ OfferOut(q, p)
  BY <1>2, NotBusy
<1>4. peer'[q][p] = peer[q][p] /\ session' = session
  BY DEF OnlyPage
<1> HIDE DEF op
<1>5. op \in Current(peer'[p][q]) /\ OfferOf(peer'[p][q]) = None
  BY <1>1, <1>2, <1>3, AskedFields, AskedStep DEF op
<1>6. Preparing(p, q)'
  BY <1>1, <1>3, <1>4, <1>5 DEF Preparing, Starts, Silent, KeptIn
<1>7. StartsAlone(p, q)' /\ StartsAlone(q, p)'
  <2>1. ASSUME NEW o \in Pending(peer'[q][p]) PROVE ~ Starts(o)
    BY <1>2, <1>3, <1>4, <2>1, PendingOps DEF StepOps, Starts
  <2> QED
    BY <1>6, <2>1 DEF StartsAlone
<1>8. p \in Members /\ q \in Members => Harmless(p, q)'
  <2>1. p \in Members /\ q \in Members => Harmless(p, q)
    BY SoundBefore DEF Sound
  <2> QED
    BY <1>3, <2>1, OthersOwe DEF Harmless, KeptIn
<1>9. Members' = Members
  BY <1>4 DEF Members
<1> QED
  BY <1>6, <1>7, <1>8, <1>9 DEF Sound, Linked, Working, Harmless

LEMMA LinkRenegotiate ==
  ASSUME LinkInv, TypeInv', NoStray', NEW p \in Pages, Renegotiate(p) PROVE LinkInv'
<1> DEFINE ready == {q \in Pages : peer[p][q] # None /\ SignalingState(peer[p][q], p) = "stable"}
           op == Op("createOffer", None, <<>>)
<1>1. /\ UNCHANGED <<session, inbox, stray, cut>> /\ Begins(p, ready)
      /\ peer' = [peer EXCEPT ![p] = [q \in Pages |->
                    IF q \in ready THEN Asked(peer[p][q], op) ELSE peer[p][q]]]
  BY DEF Renegotiate, LinkInv, TypeInv, TypeOK
<1>2. ready \subseteq Pages /\ p \notin ready
  BY DEF LinkInv, NotWithItself
<1> HIDE DEF ready, op
<1>3. /\ \A q \in ready : peer'[p][q] = Asked(peer[p][q], op)
      /\ \A q \in Pages \ ready : peer'[p][q] = peer[p][q]
      /\ \A x \in Pages \ {p} : peer'[x] = peer[x]
  BY <1>1, <1>2 DEF LinkInv, TypeInv, TypeOK
<1>4. OnlyPage(p)
  BY <1>1, <1>3, KeptInSame, HoldsSame DEF OnlyPage, KeptIce
<1>5. /\ op \in Ops /\ ToSet(op.rest) = {} /\ <<>> \in Seq(Pages)
      /\ \A q \in Pages : Rests(peer'[p][q]) = Rests(peer[p][q])
  <2>1. op \in Ops /\ op.rest = <<>> /\ <<>> \in Seq(Pages)
    BY EmptySeq, OpType DEF op, Op
  <2>2. ToSet(op.rest) = {}
    BY <2>1 DEF ToSet
  <2> QED
    <3>1. ASSUME NEW q \in ready PROVE Rests(peer'[p][q]) = Rests(peer[p][q])
      <4>1. peer[p][q] \in PeerOK
        BY <1>2, LinkTypes DEF LinkInv
      <4>2. Rests(Asked(peer[p][q], op)) = Rests(peer[p][q]) \cup ToSet(op.rest)
        BY <2>1, <4>1, AskedFields
      <4> QED
        BY <1>3, <2>2, <4>2
    <3> QED
      BY <1>3, <2>1, <2>2, <3>1
<1>6. NotWithItself(p)'
  BY <1>1, <1>2, <1>3, <1>5 DEF LinkInv, NotWithItself
<1>7. session[p] = "out" => inbox'[p] = <<>>
  BY <1>1 DEF LinkInv, OutIsSilent
<1>8. ASSUME ~ Spoilt' PROVE ~ Spoilt /\ \A y \in Pages \ {p} : Sound(p, y)'
  <2>1. ~ Spoilt /\ \A q \in ready : ~ Busy(p, q) /\ ~ Busy(q, p)
    BY <1>1, <1>8 DEF Spoilt, Begins
  <2>2. ASSUME NEW y \in ready, y # p PROVE Sound(p, y)'
    BY <1>1, <1>2, <1>3, <1>4, <1>5, <2>1, <2>2, KeptInSame, SoundBegun DEF op
  <2>3. ASSUME NEW y \in Pages \ ready, y # p PROVE Sound(p, y)'
    <3>1. PairKept(p, y)
      BY <1>1, <1>3, <2>3, NothingBetween
    <3>2. (Owes(p, y) => Owes(p, y)') /\ (Owes(y, p) => Owes(y, p)')
      BY <1>1, <1>4, <1>5, <2>3, OthersOwe, OwesKept
    <3> QED
      BY <1>1, <2>1, <2>3, <3>1, <3>2, SoundFrame
  <2> QED
    BY <1>2, <2>1, <2>2, <2>3
<1> QED
  BY <1>4, <1>6, <1>7, <1>8, LinkLocal

-----------------------------------------------------------------------------
(* A page reads a message. *)

LEMMA ReadFacts ==
  ASSUME LinkInv, NEW p \in Pages, Receive(p), NEW m, m = Head(inbox[p])
  PROVE  /\ session' = session /\ session[p] = "in"
         /\ inbox[p] \in Seq(Messages) /\ inbox[p] # <<>> /\ m \in Messages
         /\ inbox'[p] = Tail(inbox[p]) /\ ToSet(inbox[p]) = {m} \cup ToSet(inbox'[p])
         /\ \A x \in Pages \ {p} : inbox'[x] = inbox[x]
         /\ IF m.type = "welcome" THEN p \notin ToSet(m.body) ELSE m.from # p
         /\ \A q : m \notin Signals(q) => KeptIn(inbox[p], inbox'[p], q)
<1>1. /\ session' = session /\ session[p] = "in" /\ inbox[p] # <<>>
      /\ inbox' = [inbox EXCEPT ![p] = Tail(inbox[p])]
  BY DEF Receive, sessionVars
<1>2. inbox[p] \in Seq(Messages) /\ m \in Messages
  BY <1>1, LinkTypes, TailElement DEF LinkInv
<1>3. inbox'[p] = Tail(inbox[p]) /\ \A x \in Pages \ {p} : inbox'[x] = inbox[x]
  BY <1>1 DEF LinkInv, TypeInv, TypeOK
<1>4. ToSet(inbox[p]) = {m} \cup ToSet(inbox'[p])
  BY <1>1, <1>2, <1>3, ElementsTail
<1>5. IF m.type = "welcome" THEN p \notin ToSet(m.body) ELSE m.from # p
  BY <1>4 DEF LinkInv, NotWithItself
<1>6. \A q : m \notin Signals(q) => KeptIn(inbox[p], inbox'[p], q)
  BY <1>1, <1>2, <1>3, KeptInTail
<1> QED
  BY <1>1, <1>2, <1>3, <1>4, <1>5, <1>6

(* What a page reads changes nothing but its own connections; only the     *)
(* ones it may not have are left to be excluded.                           *)
LEMMA ReadAlone ==
  ASSUME LinkInv, NEW p \in Pages, Receive(p), \A x \in Pages \ {p} : peer'[x] = peer[x],
         stray => stray', peer'[p][p] = peer[p][p], \A r \in Pages : p \notin Rests(peer'[p][r])
  PROVE  OnlyPage(p) /\ NotWithItself(p)' /\ (session[p] = "out" => inbox'[p] = <<>>)
<1>1. /\ session' = session /\ session[p] = "in" /\ ToSet(inbox'[p]) \subseteq ToSet(inbox[p])
      /\ \A x \in Pages \ {p} : inbox'[x] = inbox[x]
  BY ReadFacts
<1>2. OnlyPage(p)
  BY <1>1, KeptInSame, HoldsSame DEF OnlyPage, KeptIce
<1>3. NotWithItself(p)'
  BY <1>1 DEF LinkInv, NotWithItself
<1> QED
  BY <1>1, <1>2, <1>3

(* Who sent no step of a negotiation notices nothing. *)
LEMMA ReadFrame ==
  ASSUME LinkInv, ~ Spoilt, TypeInv', NEW p \in Pages, Receive(p), OnlyPage(p),
         NEW y \in Pages, y # p, Head(inbox[p]) \notin Signals(y), Head(inbox[p]) \notin Ice(y),
         peer'[p][y] = peer[p][y], Owes(p, y) => Owes(p, y)'
  PROVE  Sound(p, y)'
<1>1. PairKept(p, y)
  <2>1. /\ peer'[y] = peer[y] /\ inbox'[y] = inbox[y] /\ KeptIn(inbox[p], inbox'[p], y)
        /\ stray => stray'
    BY ReadFacts DEF OnlyPage
  <2>2. KeptIce(inbox[p], inbox'[p], y)
    <3>1. inbox[p] \in Seq(Messages) /\ inbox[p] # <<>> /\ inbox'[p] = Tail(inbox[p])
      BY ReadFacts
    <3> QED
      BY <3>1, HoldsTail DEF KeptIce
  <2> QED
    BY <2>1, <2>2, KeptInSame, HoldsSame, SamePeers DEF KeptIce
<1>2. Owes(y, p) => Owes(y, p)'
  BY OthersOwe
<1> QED
  BY <1>1, <1>2, SoundFrame DEF OnlyPage

LEMMA ReadOwes ==
  ASSUME LinkInv, NEW p \in Pages, Receive(p), Head(inbox[p]).type # "welcome",
         \A r \in Pages : Rests(peer[p][r]) \subseteq Rests(peer'[p][r]),
         NEW y \in Pages, Owes(p, y)
  PROVE  Owes(p, y)'
<1>1. session' = session /\ \A m \in ToSet(inbox[p]) : m.type = "welcome" => m \in ToSet(inbox'[p])
  BY ReadFacts
<1> QED
  BY <1>1, OwesKept

(* What a handler asks of a connection. *)
LEMMA AsksFields ==
  ASSUME LinkInv, NEW p \in Pages, NEW q \in Pages, q # p, NEW do, NEW desc,
         Op(do, desc, <<>>) \in Ops, Asks(p, q, do, desc)
  PROVE  /\ peer'[p][q] = Asked(peer[p][q], Op(do, desc, <<>>)) /\ peer[p][q] \in PeerOK
         /\ \A y \in Pages \ {q} : peer'[p][y] = peer[p][y]
         /\ \A x \in Pages \ {p} : peer'[x] = peer[x]
         /\ peer'[p][p] = peer[p][p] /\ \A r \in Pages : p \notin Rests(peer'[p][r])
         /\ \A r \in Pages : Rests(peer'[p][r]) = Rests(peer[p][r])
<1> DEFINE op == Op(do, desc, <<>>)
<1>1. peer[p][q] \in PeerOK
  BY LinkTypes DEF LinkInv
<1>2. op.rest = <<>> /\ ToSet(<<>>) = {}
  BY DEF Op, ToSet
<1> HIDE DEF op
<1>3. /\ peer'[p][q] = Asked(peer[p][q], op)
      /\ \A y \in Pages \ {q} : peer'[p][y] = peer[p][y]
      /\ \A x \in Pages \ {p} : peer'[x] = peer[x]
  BY DEF Asks, LinkInv, TypeInv, TypeOK, op
<1>4. Rests(peer'[p][q]) = Rests(peer[p][q])
  <2>1. Rests(Asked(peer[p][q], op)) = Rests(peer[p][q]) \cup ToSet(op.rest)
    BY <1>1, AskedFields DEF op
  <2> QED
    BY <1>2, <1>3, <2>1
<1>5. \A r \in Pages : Rests(peer'[p][r]) = Rests(peer[p][r])
  BY <1>3, <1>4
<1>6. \A r \in Pages : p \notin Rests(peer'[p][r])
  BY <1>5 DEF LinkInv, NotWithItself
<1> QED
  BY <1>1, <1>3, <1>5, <1>6 DEF op

LEMMA LinkCandidateRead ==
  ASSUME LinkInv, TypeInv', NoStray', NEW p \in Pages, Receive(p), NEW m, m = Head(inbox[p]),
         handleICECandidate(p, m)
  PROVE  LinkInv'
<1> DEFINE q == m.from
           op == Op("addCandidate", None, <<>>)
<1>1. /\ m.type = "ice-candidate" /\ Asks(p, q, "addCandidate", None)
      /\ UNCHANGED <<overlap, cut>> /\ (stray => stray')
  BY DEF handleICECandidate
<1>2. q \in Pages /\ q # p /\ (\A y : m \notin Signals(y)) /\ (\A y : y # q => m \notin Ice(y))
  BY <1>1, ReadFacts, MessageFields DEF Signals, Ice
<1>3. op \in Ops /\ op \notin StepOps /\ op \in IceOps
  BY OpType DEF Op, StepOps, IceOps
<1> HIDE DEF q, op
<1>4. /\ peer'[p][q] = Asked(peer[p][q], op) /\ peer[p][q] \in PeerOK
      /\ \A y \in Pages \ {q} : peer'[p][y] = peer[p][y]
      /\ \A x \in Pages \ {p} : peer'[x] = peer[x]
      /\ peer'[p][p] = peer[p][p] /\ \A r \in Pages : p \notin Rests(peer'[p][r])
      /\ \A r \in Pages : Rests(peer'[p][r]) = Rests(peer[p][r])
  BY <1>1, <1>2, <1>3, AsksFields DEF op
<1>5. OnlyPage(p) /\ NotWithItself(p)' /\ (session[p] = "out" => inbox'[p] = <<>>)
  BY <1>1, <1>4, ReadAlone
<1>6. \A y \in Pages : Owes(p, y) => Owes(p, y)'
  BY <1>1, <1>4, ReadOwes
<1>7. /\ inbox[p] \in Seq(Messages) /\ inbox[p] # <<>> /\ inbox'[p] = Tail(inbox[p])
      /\ Head(inbox[p]) \notin Signals(q) /\ KeptIn(inbox[p], inbox'[p], q)
      /\ inbox'[q] = inbox[q] /\ peer'[q] = peer[q]
  BY <1>2, <1>4, ReadFacts
<1>8. peer[p][q] # None => /\ peer'[p][q].queue = Append(peer[p][q].queue, op)
                           /\ peer[p][q].queue \in Seq(Ops)
  <2>1. peer[p][q] # None => Asked(peer[p][q], op).queue = Append(peer[p][q].queue, op)
    BY <1>3, <1>4, AskedFields
  <2> QED
    BY <1>4, <2>1, PeerFields
<1>9. IceKept(p, q)
  <2> SUFFICES ASSUME peer[p][q] # None
               PROVE  OnItsWay(p, q)' /\ (Trails(p, q) => Trails(p, q)')
    BY DEF IceKept
  <2>1. ~ NoneOf(peer'[p][q].queue, IceOps)
    BY <1>3, <1>8, LastIn
  <2>2. Behind(inbox[p], Signals(q), Ice(q)) => Behind(inbox'[p], Signals(q), Ice(q))
    BY <1>7, BehindTail
  <2>3. ~ NoneOf(peer[p][q].queue, StepOps) \/ Behind(peer[p][q].queue, StepOps, IceOps)
          => Behind(peer'[p][q].queue, StepOps, IceOps)
    BY <1>3, <1>8, BehindAppend
  <2> QED
    BY <1>7, <2>1, <2>2, <2>3 DEF OnItsWay, Trails
<1>10. IceKept(q, p)
  <2>1. Gathers(peer[p][q]) => Gathers(peer'[p][q])
    BY <1>3, <1>4, AskedFields DEF Gathers
  <2> QED
    BY <1>7, <2>1, HoldsSame, IceHolds DEF KeptIce
<1>11. ASSUME ~ Spoilt PROVE Sound(p, q)'
  <2>1. PairKept(p, q)
    <3>1. Kept(peer[p][q], peer'[p][q])
      BY <1>3, <1>4, KeptAsked
    <3> QED
      BY <1>1, <1>7, <1>9, <1>10, <3>1, KeptSame, KeptInSame DEF PairKept
  <2> QED
    BY <1>2, <1>5, <1>6, <1>11, <2>1, OthersOwe, SoundFrame DEF OnlyPage
<1>12. ASSUME ~ Spoilt, NEW y \in Pages \ {p}, y # q PROVE Sound(p, y)'
  BY <1>2, <1>4, <1>5, <1>6, <1>12, ReadFrame
<1> QED
  BY <1>1, <1>5, <1>11, <1>12, LinkLocal DEF Spoilt

(* A welcome is read, and the first of its list is offered to.             *)
LEMMA LinkWelcomeRead ==
  ASSUME LinkInv, TypeInv', NoStray', NEW p \in Pages, Receive(p), NEW m, m = Head(inbox[p]),
         handleWelcome(p, m)
  PROVE  LinkInv'
<1> DEFINE list == m.body
           op == Op("createOffer", None, Tail(list))
<1>1. /\ m.type = "welcome" /\ peer' = [peer EXCEPT ![p] = Turn(peer[p], list)]
      /\ Begins(p, First(list)) /\ UNCHANGED <<stray, cut>>
  BY DEF handleWelcome
<1>2. /\ list \in Seq(Pages) /\ p \notin ToSet(list) /\ \A y : m \notin Signals(y) /\ m \notin Ice(y)
      /\ inbox[p] \in Seq(Messages) /\ session[p] = "in" /\ session' = session
      /\ ToSet(inbox[p]) = {m} \cup ToSet(inbox'[p])
      /\ \A x \in Pages \ {p} : inbox'[x] = inbox[x]
      /\ \A y : KeptIn(inbox[p], inbox'[p], y)
  BY <1>1, ReadFacts, MessageFields DEF Signals, Ice
<1>3. \A x \in Pages \ {p} : peer'[x] = peer[x]
  BY <1>1
<1>4. \A y \in Pages : peer'[p][y] = IF y \in First(list) THEN Asked(peer[p][y], op) ELSE peer[p][y]
  BY <1>1 DEF Turn, LinkInv, TypeInv, TypeOK
<1> HIDE DEF list
<1>5. list # <<>> => /\ Head(list) \in Pages /\ Tail(list) \in Seq(Pages)
                     /\ First(list) = {Head(list)} /\ op \in Ops /\ op.rest = Tail(list)
                     /\ ToSet(list) = {Head(list)} \cup ToSet(Tail(list)) /\ Head(list) # p
  <2> SUFFICES ASSUME list # <<>>
               PROVE  /\ Head(list) \in Pages /\ Tail(list) \in Seq(Pages)
                      /\ First(list) = {Head(list)} /\ op \in Ops /\ op.rest = Tail(list)
                      /\ ToSet(list) = {Head(list)} \cup ToSet(Tail(list)) /\ Head(list) # p
    OBVIOUS
  <2>1. Head(list) \in Pages /\ Tail(list) \in Seq(Pages) /\ First(list) = {Head(list)}
    BY <1>2, HeadTailProperties DEF First
  <2>2. op \in Ops /\ op.rest = Tail(list)
    BY <2>1, OpType DEF Op
  <2>3. ToSet(list) = {Head(list)} \cup ToSet(Tail(list))
    BY <1>2, ElementsTail
  <2> QED
    BY <1>2, <2>1, <2>2, <2>3
<1>6. list = <<>> => First(list) = {} /\ ToSet(list) = {}
  BY DEF First, ToSet
<1>7. \A y \in Pages : Rests(peer'[p][y]) = Rests(peer[p][y]) \cup
                          (IF y \in First(list) THEN ToSet(Tail(list)) ELSE {})
  <2> SUFFICES ASSUME NEW y \in First(list), y \in Pages
               PROVE  Rests(peer'[p][y]) = Rests(peer[p][y]) \cup ToSet(Tail(list))
    BY <1>4
  <2>1. op \in Ops /\ op.rest = Tail(list)
    BY <1>5, <1>6
  <2>2. peer[p][y] \in PeerOK
    BY LinkTypes DEF LinkInv
  <2> HIDE DEF op
  <2>3. Rests(Asked(peer[p][y], op)) = Rests(peer[p][y]) \cup ToSet(op.rest)
    BY <2>1, <2>2, AskedFields
  <2> QED
    BY <1>4, <2>1, <2>3
<1>8. peer'[p][p] = peer[p][p] /\ \A r \in Pages : p \notin Rests(peer'[p][r])
  <2>1. p \notin First(list)
    BY <1>5, <1>6
  <2>2. \A y \in First(list) : p \notin ToSet(Tail(list))
    BY <1>2, <1>5, <1>6
  <2>3. \A r \in Pages : p \notin Rests(peer[p][r])
    BY DEF LinkInv, NotWithItself
  <2> QED
    BY <1>4, <1>7, <2>1, <2>2, <2>3
<1>9. OnlyPage(p) /\ NotWithItself(p)' /\ (session[p] = "out" => inbox'[p] = <<>>)
  BY <1>1, <1>3, <1>8, ReadAlone
<1> HIDE DEF op
<1>10. ASSUME ~ Spoilt', NEW y \in Pages \ {p} PROVE ~ Spoilt /\ Sound(p, y)'
  <2>1. ~ Spoilt /\ \A q \in First(list) : ~ Busy(p, q) /\ ~ Busy(q, p)
    BY <1>1, <1>10 DEF Spoilt, Begins
  <2>2. CASE y \in First(list)
    <3>1. list # <<>>
      BY <1>6, <2>2
    <3>2. peer'[p][y] = Asked(peer[p][y], Op("createOffer", None, Tail(list)))
      BY <1>4, <2>2 DEF op
    <3>3. Tail(list) \in Seq(Pages) /\ inbox'[y] = inbox[y] /\ KeptIn(inbox[p], inbox'[p], y)
      BY <1>2, <1>5, <3>1
    <3> QED
      BY <1>9, <2>1, <2>2, <3>2, <3>3, SoundBegun
  <2>3. CASE y \notin First(list)
    <3>1. peer'[p][y] = peer[p][y]
      BY <1>4, <2>3
    <3>2. ASSUME Owes(p, y) PROVE Owes(p, y)'
      <4>1. \A r \in Pages : Rests(peer[p][r]) \subseteq Rests(peer'[p][r])
        BY <1>7
      <4>2. CASE y \in ToSet(list)
        <5>1. Head(list) \in Pages /\ y \in Rests(peer'[p][Head(list)])
          BY <1>5, <1>6, <1>7, <2>3, <4>2
        <5> QED
          BY <5>1 DEF Owes
      <4>3. CASE y \notin ToSet(list)
        BY <1>2, <3>2, <4>1, <4>3 DEF Owes, list
      <4> QED
        BY <4>2, <4>3
    <3> QED
      BY <1>2, <1>9, <2>1, <3>1, <3>2, ReadFrame
  <2> QED
    BY <2>1, <2>2, <2>3
<1>11. ASSUME ~ Spoilt' PROVE ~ Spoilt
  BY <1>1, <1>11 DEF Spoilt, Begins
<1> QED
  BY <1>9, <1>10, <1>11, LinkLocal

(* The connection to who has left is closed; if that one is back by then,  *)
(* its offer is still to come.                                             *)
LEMMA LinkPeerLeftRead ==
  ASSUME LinkInv, TypeInv', NoStray', NEW p \in Pages, Receive(p), NEW m, m = Head(inbox[p]),
         handlePeerLeft(p, m)
  PROVE  LinkInv'
<1> DEFINE q == m.from
<1>1. /\ m.type = "peer-left" /\ peer' = [peer EXCEPT ![p][q] = None] /\ UNCHANGED <<overlap, stray>>
      /\ cut' = (cut \/ \E op \in Pending(peer[p][q]) : op.rest # <<>>)
  BY DEF handlePeerLeft
<1>2. /\ q \in Pages /\ q # p /\ m \in PeerLeft(q) /\ (\A y : m \notin Signals(y) /\ m \notin Ice(y))
      /\ session' = session /\ inbox'[q] = inbox[q] /\ m \in ToSet(inbox[p])
      /\ \A y : KeptIn(inbox[p], inbox'[p], y)
  BY <1>1, ReadFacts, MessageFields DEF Signals, PeerLeft, Ice
<1> HIDE DEF q
<1>3. /\ peer'[p][q] = None /\ \A y \in Pages \ {q} : peer'[p][y] = peer[p][y]
      /\ \A x \in Pages \ {p} : peer'[x] = peer[x]
  BY <1>1, <1>2 DEF LinkInv, TypeInv, TypeOK
<1>4. Pending(None) = {} /\ Rests(None) = {}
  BY DEF Pending, Rests
<1>5. peer'[p][p] = peer[p][p] /\ \A r \in Pages : p \notin Rests(peer'[p][r])
  BY <1>2, <1>3, <1>4 DEF LinkInv, NotWithItself
<1>6. OnlyPage(p) /\ NotWithItself(p)' /\ (session[p] = "out" => inbox'[p] = <<>>)
  BY <1>1, <1>3, <1>5, ReadAlone
<1>7. ASSUME ~ Spoilt' PROVE ~ Spoilt /\ \A y \in Pages \ {p} : Sound(p, y)'
  <2>1. ~ Spoilt /\ \A op \in Pending(peer[p][q]) : op.rest = <<>>
    BY <1>1, <1>7 DEF Spoilt
  <2>2. Rests(peer[p][q]) = {}
    <3>1. ToSet(<<>>) = {}
      BY DEF ToSet
    <3> QED
      BY <2>1, <3>1 DEF Rests
  <2>3. \A r \in Pages : Rests(peer[p][r]) \subseteq Rests(peer'[p][r])
    BY <1>3, <2>2
  <2>4. ASSUME NEW y \in Pages \ {p}, y # q PROVE Sound(p, y)'
    <3>1. peer'[p][y] = peer[p][y]
      BY <1>3, <2>4
    <3>2. Owes(p, y) => Owes(p, y)'
      BY <1>1, <2>3, ReadOwes
    <3> QED
      BY <1>2, <1>6, <2>1, <2>4, <3>1, <3>2, ReadFrame
  <2>5. peer'[q][p] = peer[q][p]
    BY <1>2, <1>3
  <2>6. Preparing(q, p) => Preparing(q, p)'
    <3>1. Preparing(q, p) => NoneOf(inbox'[p], Signals(q)) /\ NoneOf(inbox'[q], Signals(p))
      BY <1>2 DEF Preparing, Silent, KeptIn
    <3> QED
      BY <1>2, <1>3, <2>5, <3>1, PreparingWithout
  <2>7. OfferOut(q, p) => OfferOut(q, p)'
    <3> SUFFICES ASSUME OfferOut(q, p) PROVE OfferOut(q, p)'
      OBVIOUS
    <3>1. Calm(peer'[p][q]) /\ OfferOf(peer'[p][q]) = None
      BY <1>3 DEF Calm, OfferOf
    <3>2. HasOffer(q, p)' /\ Calm(peer'[q][p]) /\ Silent(q, p)'
      BY <1>2, <2>5 DEF OfferOut, HasOffer, Silent
    <3>3. OfferOf(peer[q][p]) \in Described("offer")
      <4>1. peer[q][p] \in PeerOK
        BY <1>2, LinkTypes DEF LinkInv
      <4> QED
        BY <4>1, PeerFields DEF OfferOut, HasOffer, OfferOf
    <3>4. Message("offer", q, OfferOf(peer[q][p])) \in Signals(q)
      BY <1>2, <3>3, SignalTypes
    <3>5. Only(p, q, Message("offer", q, OfferOf(peer[q][p])))'
      BY <1>2, <2>5, <3>4 DEF OfferOut, Only, KeptIn
    <3>6. (stray \/ Fit(q, p))'
      BY <1>1, <1>3, <2>5 DEF OfferOut, Fit, New
    <3> QED
      BY <2>5, <3>1, <3>2, <3>5, <3>6 DEF OfferOut
  <2>8. StartsAlone(p, q)' /\ StartsAlone(q, p)'
    BY <1>2, <1>3, <1>4, <2>1, <2>5, <2>6 DEF LinkInv, OffersAlone, StartsAlone
  <2>9. ASSUME p \in Members, q \in Members
        PROVE  Linked(q, p)' /\ Harmless(p, q)' /\ Harmless(q, p)'
    <3>1. ~ NoneOf(inbox[p], PeerLeft(q))
      BY <1>2, NoneIsIn
    <3>2. Owes(q, p) \/ Preparing(q, p) \/ OfferOut(q, p)
      BY <1>2, <2>1, <2>9, <3>1 DEF LinkInv, PairsLinked, Harmless
    <3>3. Owes(q, p) => Owes(q, p)'
      BY <1>2, <1>6, OthersOwe
    <3>4. NoneOf(inbox[q], PeerLeft(p))
      BY <1>2, <3>1 DEF LinkInv, OneFarewell
    <3> QED
      BY <1>2, <2>6, <2>7, <3>2, <3>3, <3>4 DEF Linked, Working, Harmless
  <2>10. Sound(p, q)'
    <3>1. Members' = Members
      BY <1>2 DEF Members
    <3> QED
      BY <2>8, <2>9, <3>1 DEF Sound, Linked, Settled, Met
  <2> QED
    BY <2>1, <2>4, <2>10
<1> QED
  BY <1>6, <1>7, LinkLocal

(* An offer or an answer is read; where it was awaited, the negotiation    *)
(* goes on.                                                                *)
LEMMA SoundSignal ==
  ASSUME LinkInv, ~ Spoilt, TypeInv', NEW p \in Pages, Receive(p), OnlyPage(p),
         NEW m, m = Head(inbox[p]), NEW q \in Pages, q # p, m \in Signals(q),
         \A op \in Pending(peer'[p][q]) : Starts(op) => op \in Pending(peer[p][q]),
         Owes(p, q) => Owes(p, q)',
         OfferOut(q, p) /\ m = Message("offer", q, OfferOf(peer[q][p])) /\ Silent(p, q)'
           => Linked(p, q)',
         AnswerOut(p, q) /\ m = Message("answer", q, peer[q][p].local) /\ Silent(p, q)'
           => Linked(p, q)'
  PROVE  Sound(p, q)'
<1>1. /\ inbox[p] \in Seq(Messages) /\ inbox[p] # <<>> /\ inbox'[p] = Tail(inbox[p])
      /\ inbox'[q] = inbox[q] /\ session' = session
  BY ReadFacts
<1>2. peer'[q][p] = peer[q][p] /\ Members' = Members
  BY <1>1 DEF OnlyPage, Members
<1>3. ~ Silent(p, q)
  BY <1>1, NoneTail DEF Silent
<1>4. \A x : Only(p, q, x) /\ x \in Signals(q)
        => m = x /\ Silent(p, q)' /\ NoneOf(inbox'[p], PeerLeft(q))
  BY <1>1, OneTail DEF Only, Silent
<1>5. OfferOut(q, p) => /\ m = Message("offer", q, OfferOf(peer[q][p])) /\ Silent(p, q)'
                        /\ NoneOf(inbox'[p], PeerLeft(q))
  <2> SUFFICES ASSUME OfferOut(q, p)
               PROVE  Message("offer", q, OfferOf(peer[q][p])) \in Signals(q)
    BY <1>4 DEF OfferOut
  <2>1. peer[q][p] \in PeerOK
    BY LinkTypes DEF LinkInv
  <2>2. OfferOf(peer[q][p]) \in Described("offer")
    BY <2>1, PeerFields DEF OfferOut, HasOffer, OfferOf
  <2> QED
    BY <2>2, SignalTypes
<1>6. AnswerOut(p, q) => m = Message("answer", q, peer[q][p].local) /\ Silent(p, q)'
  <2> SUFFICES ASSUME AnswerOut(p, q)
               PROVE  Message("answer", q, peer[q][p].local) \in Signals(q)
    BY <1>3, <1>4 DEF AnswerOut
  <2>1. peer[q][p] \in PeerOK
    BY LinkTypes DEF LinkInv
  <2>2. peer[q][p].local \in Described("answer")
    BY <2>1, PeerFields, DescriptionParts DEF AnswerOut
  <2> QED
    BY <2>2, SignalTypes
<1>7. /\ ~ Preparing(p, q) /\ ~ OfferOut(p, q) /\ ~ Answering(p, q)
      /\ ~ Preparing(q, p) /\ ~ Answering(q, p) /\ ~ AnswerOut(q, p) /\ ~ Settled(p, q)
  BY <1>3 DEF Preparing, OfferOut, Answering, AnswerOut, Settled
<1>8. StartsAlone(p, q)' /\ StartsAlone(q, p)'
  BY <1>2, <1>7 DEF LinkInv, OffersAlone, StartsAlone
<1>9. ASSUME p \in Members, q \in Members
      PROVE  Linked(p, q)' /\ Harmless(p, q)' /\ Harmless(q, p)'
  <2>1. Linked(p, q) /\ Harmless(p, q) /\ Harmless(q, p)
    BY <1>9 DEF LinkInv, PairsLinked
  <2>2. Owes(q, p) => Owes(q, p)'
    BY OthersOwe
  <2>3. Linked(p, q)'
    <3>1. Owes(p, q) \/ Owes(q, p) \/ OfferOut(q, p) \/ AnswerOut(p, q)
      BY <1>7, <2>1 DEF Linked, Working
    <3>2. (Owes(p, q)' \/ Owes(q, p)') => Linked(p, q)'
      BY DEF Linked
    <3> QED
      BY <1>5, <1>6, <2>2, <3>1, <3>2
  <2>4. Harmless(p, q)'
    <3>1. NoneOf(inbox[p], PeerLeft(q)) => NoneOf(inbox'[p], PeerLeft(q))
      BY <1>1, NoneTail
    <3> QED
      BY <1>5, <1>7, <2>1, <2>2, <3>1 DEF Harmless
  <2>5. Harmless(q, p)'
    BY <1>1, <1>7, <2>1 DEF Harmless
  <2> QED
    BY <2>3, <2>4, <2>5
<1>10. Linked(p, q)' => Linked(q, p)'
  BY DEF Linked, Settled, Met
<1> QED
  BY <1>2, <1>8, <1>9, <1>10 DEF Sound

(* No candidate is lost with it. *)
LEMMA SignalRead ==
  ASSUME LinkInv, NEW p \in Pages, NEW q \in Pages, Receive(p), Head(inbox[p]) \notin Ice(q),
         NEW op \in Ops, peer[p][q] # None => peer'[p][q] = Asked(peer[p][q], op)
  PROVE  /\ NoneOf(inbox'[p], Ice(q)) => NoneOf(inbox[p], Ice(q))
         /\ peer[p][q] # None =>
              (NoneOf(peer'[p][q].queue, IceOps) => NoneOf(peer[p][q].queue, IceOps))
<1>1. inbox[p] \in Seq(Messages) /\ inbox[p] # <<>> /\ inbox'[p] = Tail(inbox[p])
  BY ReadFacts
<1>2. NoneOf(inbox'[p], Ice(q)) => NoneOf(inbox[p], Ice(q))
  BY <1>1, NoneTail
<1>3. ASSUME peer[p][q] # None
      PROVE  NoneOf(peer'[p][q].queue, IceOps) => NoneOf(peer[p][q].queue, IceOps)
  <2>1. peer[p][q] \in PeerOK
    BY LinkTypes DEF LinkInv
  <2>2. Asked(peer[p][q], op).queue = Append(peer[p][q].queue, op) /\ peer[p][q].queue \in Seq(Ops)
    <3>1. Asked(peer[p][q], op).queue = Append(peer[p][q].queue, op)
      BY <1>3, <2>1, AskedFields
    <3> QED
      BY <1>3, <2>1, <3>1, PeerFields
  <2>3. peer'[p][q].queue = Append(peer[p][q].queue, op)
    BY <1>3, <2>2
  <2> QED
    BY <2>2, <2>3, NoneAppend
<1> QED
  BY <1>2, <1>3

LEMMA LinkOfferRead ==
  ASSUME LinkInv, TypeInv', NoStray', NEW p \in Pages, Receive(p), NEW m, m = Head(inbox[p]),
         handleOffer(p, m)
  PROVE  LinkInv'
<1> DEFINE q == m.from
           op == Op("setRemote", m.body, <<>>)
<1>1. m.type = "offer" /\ Asks(p, q, "setRemote", m.body) /\ UNCHANGED <<overlap, stray, cut>>
  BY DEF handleOffer, history
<1>2. /\ q \in Pages /\ q # p /\ m \in Signals(q) /\ (\A y : y # q => m \notin Signals(y))
      /\ m.body \in Descriptions /\ (\A y : m \notin Ice(y))
  BY <1>1, ReadFacts, MessageFields DEF Signals, Ice
<1>3. op \in Ops /\ op \in StepOps /\ op.do = "setRemote" /\ op.desc = m.body
  BY <1>2, OpType DEF Op, StepOps
<1> HIDE DEF q, op
<1>4. /\ peer'[p][q] = Asked(peer[p][q], op) /\ peer[p][q] \in PeerOK
      /\ \A y \in Pages \ {q} : peer'[p][y] = peer[p][y]
      /\ \A x \in Pages \ {p} : peer'[x] = peer[x]
      /\ peer'[p][p] = peer[p][p] /\ \A r \in Pages : p \notin Rests(peer'[p][r])
      /\ \A r \in Pages : Rests(peer'[p][r]) = Rests(peer[p][r])
  BY <1>1, <1>2, <1>3, AsksFields DEF op
<1>5. OnlyPage(p) /\ NotWithItself(p)' /\ (session[p] = "out" => inbox'[p] = <<>>)
  BY <1>1, <1>4, ReadAlone
<1>6. \A y \in Pages : Owes(p, y) => Owes(p, y)'
  BY <1>1, <1>4, ReadOwes
<1>7. ASSUME ~ Spoilt, NEW y \in Pages \ {p}, y # q PROVE Sound(p, y)'
  BY <1>2, <1>4, <1>5, <1>6, <1>7, ReadFrame
<1>8. ASSUME ~ Spoilt PROVE Sound(p, q)'
  <2>1. \A o \in Pending(peer'[p][q]) : Starts(o) => o \in Pending(peer[p][q])
    <3>1. Pending(Asked(peer[p][q], op)) = Pending(peer[p][q]) \cup {op}
      BY <1>3, <1>4, AskedFields
    <3> QED
      BY <1>3, <1>4, <3>1 DEF Starts
  <2>2. ASSUME OfferOut(q, p), m = Message("offer", q, OfferOf(peer[q][p])), Silent(p, q)'
        PROVE  Linked(p, q)'
    <3>1. /\ HasOffer(q, p) /\ Calm(peer[q][p]) /\ Silent(q, p)
          /\ Calm(peer[p][q]) /\ OfferOf(peer[p][q]) = None
      BY <2>2 DEF OfferOut
    <3>2. op.desc = OfferOf(peer[q][p])
      BY <1>3, <2>2 DEF Message
    <3>3. op \in Current(peer'[p][q]) /\ OfferOf(peer'[p][q]) = None
      BY <1>3, <1>4, <3>1, AskedStep, AskedFields
    <3>4. inbox'[q] = inbox[q] /\ peer'[q][p] = peer[q][p]
      BY <1>2, <1>4, ReadFacts
    <3>5. (stray \/ Fit(q, p))'
      <4> SUFFICES ASSUME Fit(q, p) PROVE Fit(q, p)'
        BY <1>1, <2>2 DEF OfferOut
      <4>1. /\ NoneOf(inbox'[p], Ice(q)) => NoneOf(inbox[p], Ice(q))
            /\ peer[p][q] # None => (NoneOf(peer'[p][q].queue, IceOps) => NoneOf(peer[p][q].queue, IceOps))
        BY <1>2, <1>3, <1>4, SignalRead
      <4>2. /\ peer'[p][q] # None /\ (New(peer[p][q]) => New(peer'[p][q]))
            /\ peer[p][q] # None => /\ peer'[p][q].candidate = peer[p][q].candidate
                                    /\ peer'[p][q].remote = peer[p][q].remote
        BY <1>3, <1>4, AskedFields
      <4>3. Hears(p, q) => Hears(p, q)'
        BY <3>4, <4>1, <4>2, HearsOn DEF Hears
      <4> QED
        BY <3>4, <4>2, <4>3 DEF Fit
    <3>6. Answering(q, p)'
      BY <1>3, <2>2, <3>1, <3>2, <3>3, <3>4, <3>5 DEF Answering, AnswerFits, HasOffer, Silent, AnswerStep
    <3> QED
      BY <3>6 DEF Linked, Working
  <2>3. m # Message("answer", q, peer[q][p].local)
    BY <1>1 DEF Message
  <2> QED
    BY <1>2, <1>5, <1>6, <1>8, <2>1, <2>2, <2>3, SoundSignal
<1> QED
  BY <1>1, <1>5, <1>7, <1>8, LinkLocal DEF Spoilt

LEMMA LinkAnswerRead ==
  ASSUME LinkInv, TypeInv', NoStray', NEW p \in Pages, Receive(p), NEW m, m = Head(inbox[p]),
         handleAnswer(p, m)
  PROVE  LinkInv'
<1> DEFINE q == m.from
           op == Op("setRemote", m.body, <<>>)
<1>1. /\ m.type = "answer" /\ UNCHANGED <<overlap, stray, cut>>
      /\ IF peer[p][q] = None THEN UNCHANGED peer ELSE Asks(p, q, "setRemote", m.body)
  BY DEF handleAnswer, history
<1>2. /\ q \in Pages /\ q # p /\ m \in Signals(q) /\ (\A y : y # q => m \notin Signals(y))
      /\ m.body \in Descriptions /\ (\A y : m \notin Ice(y))
  BY <1>1, ReadFacts, MessageFields DEF Signals, Ice
<1>3. op \in Ops /\ op \in StepOps /\ op.do = "setRemote" /\ op.desc = m.body
  BY <1>2, OpType DEF Op, StepOps
<1> HIDE DEF q, op
<1>4. /\ peer'[p][q] = IF peer[p][q] = None THEN None ELSE Asked(peer[p][q], op)
      /\ peer[p][q] \in PeerOK
      /\ \A y \in Pages \ {q} : peer'[p][y] = peer[p][y]
      /\ \A x \in Pages \ {p} : peer'[x] = peer[x]
      /\ peer'[p][p] = peer[p][p] /\ \A r \in Pages : p \notin Rests(peer'[p][r])
      /\ \A r \in Pages : Rests(peer'[p][r]) = Rests(peer[p][r])
  <2>1. CASE peer[p][q] = None
    BY <1>1, <1>2, <2>1, LinkTypes DEF LinkInv, NotWithItself
  <2>2. CASE peer[p][q] # None
    BY <1>1, <1>2, <1>3, <2>2, AsksFields DEF op
  <2> QED
    BY <2>1, <2>2
<1>5. OnlyPage(p) /\ NotWithItself(p)' /\ (session[p] = "out" => inbox'[p] = <<>>)
  BY <1>1, <1>4, ReadAlone
<1>6. \A y \in Pages : Owes(p, y) => Owes(p, y)'
  BY <1>1, <1>4, ReadOwes
<1>7. ASSUME ~ Spoilt, NEW y \in Pages \ {p}, y # q PROVE Sound(p, y)'
  BY <1>2, <1>4, <1>5, <1>6, <1>7, ReadFrame
<1>8. ASSUME ~ Spoilt PROVE Sound(p, q)'
  <2>1. \A o \in Pending(peer'[p][q]) : Starts(o) => o \in Pending(peer[p][q])
    <3>1. Pending(Asked(peer[p][q], op)) = Pending(peer[p][q]) \cup {op}
      BY <1>3, <1>4, AskedFields
    <3>2. Pending(None) = {}
      BY DEF Pending
    <3> QED
      BY <1>3, <1>4, <3>1, <3>2 DEF Starts
  <2>2. ASSUME AnswerOut(p, q), m = Message("answer", q, peer[q][p].local), Silent(p, q)'
        PROVE  Linked(p, q)'
    <3>1. peer[p][q] # None /\ peer'[p][q] = Asked(peer[p][q], op)
      BY <1>4, <2>2 DEF AnswerOut, HasOffer, OfferOf
    <3>2. ~ Silent(p, q)
      <4>1. inbox[p] \in Seq(Messages) /\ inbox[p] # <<>>
        BY ReadFacts
      <4> QED
        BY <1>2, <4>1, NoneTail DEF Silent
    <3>3. Calm(peer[p][q]) /\ op.desc = peer[q][p].local
      BY <1>3, <2>2, <3>2 DEF AnswerOut, Message
    <3>4. op \in Current(peer'[p][q]) /\ OfferOf(peer'[p][q]) = OfferOf(peer[p][q])
      BY <1>3, <1>4, <3>1, <3>3, AskedStep, AskedFields
    <3>5. inbox'[q] = inbox[q] /\ peer'[q][p] = peer[q][p]
      BY <1>2, <1>4, ReadFacts
    <3>6. (stray \/ FittedWell(p, q))'
      <4> SUFFICES ASSUME FittedWell(p, q) PROVE FittedWell(p, q)'
        BY <1>1, <2>2 DEF AnswerOut
      <4>1. /\ NoneOf(inbox'[p], Ice(q)) => NoneOf(inbox[p], Ice(q))
            /\ NoneOf(peer'[p][q].queue, IceOps) => NoneOf(peer[p][q].queue, IceOps)
        BY <1>2, <1>3, <3>1, SignalRead
      <4>2. /\ peer'[p][q] # None /\ peer'[p][q].heard = peer[p][q].heard
            /\ peer'[p][q].candidate = peer[p][q].candidate /\ peer'[p][q].remote = peer[p][q].remote
            /\ peer'[p][q].gathering = peer[p][q].gathering
            /\ peer'[p][q].queue = Append(peer[p][q].queue, op) /\ peer[p][q].queue \in Seq(Ops)
        <5>1. peer[p][q].queue \in Seq(Ops)
          BY <1>4, <3>1, PeerFields
        <5>2. LET pc == peer[p][q]
                  pc2 == Asked(pc, op)
              IN  /\ pc2 # None /\ pc2.heard = pc.heard /\ pc2.candidate = pc.candidate
                  /\ pc2.remote = pc.remote /\ pc2.gathering = pc.gathering
                  /\ pc2.queue = Append(pc.queue, op)
          BY <1>3, <1>4, <3>1, AskedFields
        <5> QED
          BY <3>1, <5>1, <5>2
      <4>3. (Hears(p, q) => Hears(p, q)') /\ (Hears(q, p) => Hears(q, p)')
        BY <3>1, <3>5, <4>1, <4>2, HearsOn DEF Hears, Gathers
      <4>4. Trails(p, q) => Trails(p, q)'
        <5>1. inbox[p] \in Seq(Messages) /\ inbox[p] # <<>> /\ inbox'[p] = Tail(inbox[p])
          BY ReadFacts
        <5>2. Behind(inbox[p], Signals(q), Ice(q)) => ~ NoneOf(inbox'[p], Ice(q))
          BY <5>1, BehindTail
        <5>3. ~ NoneOf(peer'[p][q].queue, StepOps)
          BY <1>3, <4>2, LastIn
        <5>4. Behind(peer[p][q].queue, StepOps, IceOps) => Behind(peer'[p][q].queue, StepOps, IceOps)
          BY <1>3, <4>2, BehindAppend
        <5> QED
          BY <3>5, <4>1, <5>2, <5>3, <5>4 DEF Trails
      <4> QED
        BY <3>5, <4>2, <4>3, <4>4 DEF FittedWell, Met
    <3>7. AnswerOut(p, q)'
      BY <1>1, <1>3, <2>2, <3>3, <3>4, <3>5, <3>6 DEF AnswerOut, HasOffer, Silent
    <3> QED
      BY <3>7 DEF Linked, Working
  <2>3. m # Message("offer", q, OfferOf(peer[q][p]))
    BY <1>1 DEF Message
  <2> QED
    BY <1>2, <1>5, <1>6, <1>8, <2>1, <2>2, <2>3, SoundSignal
<1> QED
  BY <1>1, <1>5, <1>7, <1>8, LinkLocal DEF Spoilt

LEMMA LinkReceive ==
  ASSUME LinkInv, TypeInv', NoStray', NEW p \in Pages, Receive(p) PROVE LinkInv'
<1> DEFINE m == Head(inbox[p])
<1>1. \/ handleWelcome(p, m) \/ handlePeerLeft(p, m)
      \/ handleOffer(p, m) \/ handleAnswer(p, m) \/ handleICECandidate(p, m)
  BY DEF Receive
<1> HIDE DEF m
<1> QED
  BY <1>1, LinkWelcomeRead, LinkPeerLeftRead, LinkOfferRead, LinkAnswerRead, LinkCandidateRead DEF m

-----------------------------------------------------------------------------
(* A connection of p to q goes on, and may send something to q. *)

LEMMA SendFacts ==
  ASSUME LinkInv, NEW p \in Pages, NEW q \in Pages, p # q,
         NEW t \in {"offer", "answer", "ice-candidate"}, NEW body, NEW m,
         m = Message(t, p, body), m \in Messages, Send(p, q, t, body)
  PROVE  /\ \A x \in Pages \ {q} : inbox'[x] = inbox[x]
         /\ inbox'[q] = IF {p, q} \subseteq Members THEN Append(inbox[q], m) ELSE inbox[q]
         /\ ToSet(inbox[q]) \subseteq ToSet(inbox'[q]) /\ ToSet(inbox'[q]) \subseteq ToSet(inbox[q]) \cup {m}
         /\ m.from = p /\ m.type = t
         /\ NoneOf(inbox[q], PeerLeft(p)) => NoneOf(inbox'[q], PeerLeft(p))
         /\ \A y : y # p => KeptIn(inbox[q], inbox'[q], y)
         /\ t = "ice-candidate" => KeptIn(inbox[q], inbox'[q], p)
<1>1. inbox[q] \in Seq(Messages)
  BY LinkTypes DEF LinkInv
<1>2. /\ \A x \in Pages \ {q} : inbox'[x] = inbox[x]
      /\ inbox'[q] = IF {p, q} \subseteq Members THEN Append(inbox[q], m) ELSE inbox[q]
  BY DEF Send, LinkInv, TypeInv, TypeOK
<1>3. ToSet(Append(inbox[q], m)) = ToSet(inbox[q]) \cup {m}
  BY <1>1, ElementsAppend
<1>4. ToSet(inbox[q]) \subseteq ToSet(inbox'[q]) /\ ToSet(inbox'[q]) \subseteq ToSet(inbox[q]) \cup {m}
  BY <1>2, <1>3
<1>5. /\ m.from = p /\ m.type = t /\ (\A y : m \notin PeerLeft(y))
      /\ \A y : y # p \/ t = "ice-candidate" => m \notin Signals(y)
  BY DEF Message, PeerLeft, Signals
<1>6. NoneOf(inbox[q], PeerLeft(p)) => NoneOf(inbox'[q], PeerLeft(p))
  BY <1>1, <1>2, <1>5, NoneAppend
<1>7. /\ \A y : y # p => KeptIn(inbox[q], inbox'[q], y)
      /\ t = "ice-candidate" => KeptIn(inbox[q], inbox'[q], p)
  BY <1>1, <1>2, <1>5, KeptInAppend, KeptInSame
<1> QED
  BY <1>2, <1>4, <1>5, <1>6, <1>7

SendsAny(p, q) ==
  \E t \in {"offer", "answer", "ice-candidate"} : \E body :
    Message(t, p, body) \in Messages /\ Send(p, q, t, body)

LEMMA SendsAlone ==
  ASSUME LinkInv, NEW p \in Pages, NEW q \in Pages, p # q, session' = session, stray' = stray,
         \A x \in Pages \ {p} : peer'[x] = peer[x], UNCHANGED inbox \/ SendsAny(p, q)
  PROVE  /\ OnlyPage(p) /\ inbox'[p] = inbox[p] /\ \A x \in Pages \ {q} : inbox'[x] = inbox[x]
         /\ session[p] = "out" => inbox'[p] = <<>>
         /\ NoneOf(inbox[q], PeerLeft(p)) => NoneOf(inbox'[q], PeerLeft(p))
<1>1. session[p] = "out" => inbox[p] = <<>>
  BY DEF LinkInv, OutIsSilent
<1>2. CASE UNCHANGED inbox
  BY <1>1, <1>2, KeptInSame, HoldsSame DEF OnlyPage, KeptIce
<1>3. CASE SendsAny(p, q)
  <2>1. PICK t \in {"offer", "answer", "ice-candidate"} :
          \E body : Message(t, p, body) \in Messages /\ Send(p, q, t, body)
    BY <1>3 DEF SendsAny
  <2>2. PICK body : Message(t, p, body) \in Messages /\ Send(p, q, t, body)
    BY <2>1
  <2> DEFINE m == Message(t, p, body)
  <2>3. m = Message(t, p, body) /\ m \in Messages
    BY <2>2
  <2> HIDE DEF m
  <2>4. \A x \in Pages \ {q} : inbox'[x] = inbox[x]
    BY <2>3, <2>1, <2>2, SendFacts
  <2>5. inbox'[q] = IF {p, q} \subseteq Members THEN Append(inbox[q], m) ELSE inbox[q]
    BY <2>3, <2>1, <2>2, SendFacts
  <2>6. ToSet(inbox[q]) \subseteq ToSet(inbox'[q]) /\ ToSet(inbox'[q]) \subseteq ToSet(inbox[q]) \cup {m}
    BY <2>3, <2>1, <2>2, SendFacts
  <2>7. m.from = p /\ m.type = t
    BY <2>3, <2>1, <2>2, SendFacts
  <2>8. NoneOf(inbox[q], PeerLeft(p)) => NoneOf(inbox'[q], PeerLeft(p))
    BY <2>3, <2>1, <2>2, SendFacts
  <2>9. ASSUME NEW y, y # p PROVE KeptIn(inbox[q], inbox'[q], y)
    BY <2>3, <2>1, <2>2, <2>9, SendFacts
  <2>10. session[q] = "out" => inbox'[q] = inbox[q]
    BY <2>5 DEF Members
  <2>11. \A y \in Pages \ {p} : \A x \in Pages : KeptIn(inbox[x], inbox'[x], y)
    BY <2>4, <2>9, KeptInSame
  <2>12. \A y, x \in Pages : KeptIce(inbox[x], inbox'[x], y)
    <3> SUFFICES ASSUME NEW x \in Pages, NEW S, NEW T PROVE Holds(inbox[x], inbox'[x], S, T)
      BY DEF KeptIce
    <3>1. inbox[x] \in Seq(Messages) /\ (inbox'[x] = inbox[x] \/ inbox'[x] = Append(inbox[x], m))
      BY <2>4, <2>5, LinkTypes DEF LinkInv
    <3> QED
      BY <2>3, <3>1, HoldsAppend, HoldsSame
  <2>13. OnlyPage(p)
    BY <2>4, <2>6, <2>7, <2>10, <2>11, <2>12 DEF OnlyPage
  <2> QED
    BY <1>1, <2>4, <2>8, <2>13
<1> QED
  BY <1>2, <1>3

(* One connection of p changes, and no list is gone on with. *)
LEMMA LinkOperation ==
  ASSUME LinkInv, TypeInv', NoStray', NEW p \in Pages, NEW q \in Pages, p # q, NEW pc,
         Becomes(p, q, pc), UNCHANGED <<session, overlap, stray, cut>>,
         UNCHANGED inbox \/ SendsAny(p, q),
         Rests(pc) \subseteq Rests(peer[p][q]),
         ~ Spoilt /\ OnlyPage(p) /\ (Owes(p, q) => Owes(p, q)') => Sound(p, q)',
         ~ Spoilt => Rests(peer[p][q]) \subseteq Rests(pc)
  PROVE  LinkInv'
<1>1. /\ peer'[p][q] = pc /\ \A y \in Pages \ {q} : peer'[p][y] = peer[p][y]
      /\ \A x \in Pages \ {p} : peer'[x] = peer[x]
  BY DEF Becomes, LinkInv, TypeInv, TypeOK
<1>2. /\ OnlyPage(p) /\ inbox'[p] = inbox[p] /\ \A x \in Pages \ {q} : inbox'[x] = inbox[x]
      /\ session[p] = "out" => inbox'[p] = <<>>
  BY <1>1, SendsAlone
<1>3. NotWithItself(p)'
  BY <1>1, <1>2 DEF LinkInv, NotWithItself
<1>4. ASSUME ~ Spoilt, NEW y \in Pages \ {p} PROVE Sound(p, y)'
  <2>1. \A x \in Pages : Owes(p, x) => Owes(p, x)'
    <3>1. \A r \in Pages : Rests(peer[p][r]) \subseteq Rests(peer'[p][r])
      BY <1>1, <1>4
    <3> QED
      BY <1>2, <3>1, OwesKept
  <2>2. CASE y = q
    BY <1>2, <1>4, <2>1, <2>2
  <2>3. CASE y # q
    <3>1. PairKept(p, y)
      BY <1>1, <1>2, <2>3, NothingBetween
    <3> QED
      BY <1>2, <1>4, <2>1, <3>1, OthersOwe, SoundFrame
  <2> QED
    BY <2>2, <2>3
<1> QED
  BY <1>2, <1>3, <1>4, LinkLocal DEF Spoilt

(* Candidates and listeners are no steps of a negotiation. *)
LEMMA LinkAside ==
  ASSUME LinkInv, TypeInv', NoStray', NEW p \in Pages, NEW q \in Pages, p # q, NEW pc,
         Becomes(p, q, pc), UNCHANGED <<session, overlap, stray, cut>>,
         UNCHANGED inbox \/ Send(p, q, "ice-candidate", None),
         Kept(peer[p][q], pc), Rests(pc) \subseteq Rests(peer[p][q]),
         p \in Members /\ q \in Members => IceKept(p, q) /\ IceKept(q, p)
  PROVE  LinkInv'
<1>1. /\ peer'[p][q] = pc /\ \A x \in Pages \ {p} : peer'[x] = peer[x]
  BY DEF Becomes, LinkInv, TypeInv, TypeOK
<1>2. Message("ice-candidate", p, None) \in Messages
  BY MessageType
<1>3. UNCHANGED inbox \/ SendsAny(p, q)
  BY <1>2 DEF SendsAny
<1>4. ASSUME ~ Spoilt, OnlyPage(p), Owes(p, q) => Owes(p, q)' PROVE Sound(p, q)'
  <2>1. KeptIn(inbox[q], inbox'[q], p) /\ inbox'[p] = inbox[p]
    <3>1. CASE UNCHANGED inbox
      BY <3>1, KeptInSame
    <3>2. CASE Send(p, q, "ice-candidate", None)
      <4> DEFINE t == "ice-candidate"
                 m == Message(t, p, None)
      <4>1. m = Message(t, p, None) /\ m \in Messages /\ Send(p, q, t, None)
        BY <1>2, <3>2
      <4>2. t \in {"offer", "answer", "ice-candidate"} /\ t = "ice-candidate"
        OBVIOUS
      <4> HIDE DEF t, m
      <4>3. inbox'[p] = inbox[p]
        BY <4>1, <4>2, SendFacts
      <4>4. KeptIn(inbox[q], inbox'[q], p)
        BY <4>1, <4>2, SendFacts
      <4> QED
        BY <4>3, <4>4
    <3> QED
      BY <3>1, <3>2
  <2>2. PairKept(p, q)
    BY <1>1, <2>1, KeptSame, KeptInSame DEF PairKept
  <2> QED
    BY <1>4, <2>2, OthersOwe, SoundFrame
<1>5. Rests(peer[p][q]) \subseteq Rests(pc)
  BY DEF Kept
<1> QED
  BY <1>3, <1>4, <1>5, LinkOperation

LEMMA LinkReady ==
  ASSUME LinkInv, TypeInv', NoStray', NEW p \in Pages, NEW q \in Pages, SendersReady(p, q) PROVE LinkInv'
<1> DEFINE pc == peer[p][q]
<1>1. pc # None /\ p # q /\ pc \in PeerOK /\ UNCHANGED <<inbox, session, overlap, stray, cut>>
  BY LinkTypes DEF SendersReady, LinkInv, NotWithItself, sessionVars, history
<1>2. PICK op \in pc.waiting :
        Becomes(p, q, [pc EXCEPT !.waiting = {}, !.heard = TRUE, !.queue = Append(@, op)])
  BY DEF SendersReady
<1> DEFINE pc2 == [pc EXCEPT !.waiting = {}, !.heard = TRUE, !.queue = Append(@, op)]
<1>3. pc \in Peers /\ pc.waiting = {op}
  BY <1>1, PeerFields
<1>4. /\ pc2.waiting = {} /\ pc2.queue = Append(pc.queue, op)
      /\ pc2.offer = pc.offer /\ pc2.local = pc.local /\ pc2.remote = pc.remote
      /\ pc2.heard /\ pc2.candidate = pc.candidate
      /\ pc2.gathering = pc.gathering
  BY <1>3 DEF Peers
<1> HIDE DEF pc2
<1>5. peer'[p][q] = pc2
  BY <1>2 DEF Becomes, LinkInv, TypeInv, TypeOK, pc2
<1>6. pc2 \in PeerOK /\ pc2 # None
  <2>1. pc2 \in PeerOK
    BY <1>5, LinkTypesNext
  <2>2. None \notin Peers /\ pc2 = [pc EXCEPT !.waiting = {}, !.heard = TRUE, !.queue = Append(@, op)]
    BY NoneAssumption DEF pc2
  <2>3. pc2 \in Peers
    <3>1. op \in Ops /\ Append(pc.queue, op) \in Seq(Ops)
      BY <1>1, PeerFields
    <3> QED
      BY <1>3, <2>2, <3>1 DEF Peers
  <2> QED
    BY <2>1, <2>2, <2>3
<1>7. Kept(pc, pc2)
  BY <1>1, <1>4, <1>6, KeptReady
<1>8. Rests(pc2) \subseteq Rests(pc)
  <2>1. ToSet(pc2.queue) = ToSet(pc.queue) \cup {op}
    BY <1>1, <1>4, PeerFields, ElementsAppend
  <2>2. Pending(pc2) \subseteq Pending(pc)
    BY <1>1, <1>3, <1>4, <1>6, <2>1 DEF Pending
  <2> QED
    BY <2>2 DEF Rests
<1>9. IceKept(p, q) /\ IceKept(q, p)
  <2>1. peer'[q][p] = peer[q][p] /\ UNCHANGED <<inbox[p], inbox[q]>>
    BY <1>1, <1>2 DEF Becomes, LinkInv, TypeInv, TypeOK
  <2>2. Holds(pc.queue, peer'[p][q].queue, StepOps, IceOps)
    <3>1. op \in Ops /\ pc.queue \in Seq(Ops)
      BY <1>1, PeerFields
    <3> QED
      BY <1>4, <1>5, <3>1, HoldsAppend
  <2>3. Gathers(pc) => Gathers(peer'[p][q])
    BY <1>4, <1>5, <1>6 DEF Gathers
  <2> QED
    BY <2>1, <2>2, <2>3, HoldsSame, IceHolds DEF KeptIce
<1> QED
  BY <1>1, <1>2, <1>7, <1>8, <1>9, LinkAside DEF pc2

LEMMA LinkGathered ==
  ASSUME LinkInv, TypeInv', NoStray', NEW p \in Pages, NEW q \in Pages, Gathered(p, q) PROVE LinkInv'
<1> DEFINE pc == peer[p][q]
           pc2 == [pc EXCEPT !.gathering = "complete"]
<1>1. /\ pc # None /\ p # q /\ pc \in PeerOK /\ Becomes(p, q, pc2)
      /\ UNCHANGED <<session, overlap, stray, cut>>
      /\ UNCHANGED inbox \/ Send(p, q, "ice-candidate", None)
      /\ pc.gathering = "gathering" /\ (pc.heard => Send(p, q, "ice-candidate", None))
  BY LinkTypes DEF Gathered, LinkInv, NotWithItself, sessionVars, history
<1>2. pc2 \in PeerOK /\ pc2 # None
  BY <1>1, NoneAssumption DEF PeerOK, Peers, WaitsForListeners
<1>3. /\ pc2.waiting = pc.waiting /\ pc2.queue = pc.queue
      /\ pc2.offer = pc.offer /\ pc2.local = pc.local /\ pc2.remote = pc.remote
      /\ pc2.heard = pc.heard /\ pc2.candidate = pc.candidate
  OBVIOUS
<1> HIDE DEF pc2
<1>4. Kept(pc, pc2)
  BY <1>1, <1>2, <1>3, KeptLike DEF New
<1>5. Rests(pc2) = Rests(pc)
  BY <1>1, <1>2, <1>3 DEF Rests, Pending
<1>6. ASSUME p \in Members, q \in Members PROVE IceKept(p, q) /\ IceKept(q, p)
  <2> DEFINE m == Message("ice-candidate", p, None)
  <2>1. /\ inbox[p] \in Seq(Messages) /\ inbox[q] \in Seq(Messages) /\ m \in Messages /\ m \in Ice(p)
        /\ peer[q][p] \in PeerOK
    BY LinkTypes, MessageType DEF LinkInv, Ice, Message
  <2>2. peer'[p][q] = pc2 /\ peer'[q][p] = peer[q][p]
    BY <1>1 DEF Becomes, LinkInv, TypeInv, TypeOK
  <2>3. /\ inbox'[p] = inbox[p] /\ inbox'[q] \in {inbox[q], Append(inbox[q], m)}
        /\ pc.heard => inbox'[q] = Append(inbox[q], m)
    BY <1>1, <1>6 DEF Send, LinkInv, TypeInv, TypeOK
  <2> HIDE DEF m, pc2
  <2>4. IceKept(p, q)
    BY <1>3, <2>2, <2>3, HoldsSame, IceHolds DEF KeptIce
  <2>5. IceKept(q, p)
    <3>1. Holds(inbox[q], inbox'[q], Signals(p), Ice(p))
      BY <2>1, <2>3, HoldsSame, HoldsAppend
    <3>2. CASE pc.heard
      <4>1. ~ NoneOf(inbox'[q], Ice(p))
        BY <2>1, <2>3, <3>2, LastIn
      <4>2. ~ Silent(q, p) => Behind(inbox'[q], Signals(p), Ice(p))
        BY <2>1, <2>3, <3>2, BehindAppend DEF Silent
      <4>3. peer[q][p] # None /\ peer[q][p].heard /\ ~ Calm(peer[q][p])
              => ~ NoneOf(peer[q][p].queue, StepOps)
        BY <2>1 DEF PeerOK, WaitsForListeners, Calm
      <4> QED
        BY <2>2, <3>1, <4>1, <4>2, <4>3 DEF IceKept, OnItsWay, Trails, Holds
    <3>3. CASE ~ pc.heard
      BY <2>2, <3>1, <3>3, HoldsSame, IceHolds DEF KeptIce, Gathers
    <3> QED
      BY <3>2, <3>3
  <2> QED
    BY <2>4, <2>5
<1> QED
  BY <1>1, <1>4, <1>5, <1>6, LinkAside

(* The first operation of a queue. *)
LEMMA NextFacts ==
  ASSUME LinkInv, NEW p \in Pages, NEW q \in Pages, NEW do, IsNext(p, q, do)
  PROVE  LET pc == peer[p][q]
         IN  /\ p # q /\ pc \in PeerOK /\ pc \in Peers /\ pc # None /\ pc.queue # <<>>
             /\ Head(pc.queue) \in Ops /\ Head(pc.queue).do = do
             /\ do # "addCandidate" => Head(pc.queue) \in StepOps
             /\ Head(pc.queue) \in Pending(pc)
             /\ Done(pc) \in PeerOK /\ Done(pc) \in Peers /\ Done(pc) # None
             /\ Done(pc).waiting = pc.waiting /\ Done(pc).queue = Tail(pc.queue)
             /\ Done(pc).offer = pc.offer /\ Done(pc).local = pc.local /\ Done(pc).remote = pc.remote
             /\ Done(pc).heard = pc.heard
             /\ Done(pc).candidate = pc.candidate /\ Done(pc).gathering = pc.gathering
             /\ \A d, desc, rest : Op(d, desc, rest) \in Ops =>
                  /\ Then(pc, d, desc, rest) \in PeerOK /\ Then(pc, d, desc, rest) # None
                  /\ Then(pc, d, desc, rest) \in Peers
<1> DEFINE pc == peer[p][q]
<1>1. TypeInv /\ pc # None /\ pc.queue # <<>> /\ p # q /\ pc \in PeerOK
  BY LinkTypes DEF IsNext, LinkInv, NotWithItself
<1>2. /\ pc \in Peers /\ Head(pc.queue) \in Ops /\ Head(pc.queue).do = do
      /\ Done(pc) \in PeerOK /\ Done(pc) \in Peers
      /\ \A d, desc, rest : Op(d, desc, rest) \in Ops =>
           Then(pc, d, desc, rest) \in PeerOK /\ Then(pc, d, desc, rest) \in Peers
  BY <1>1, NextType
<1>3. /\ Done(pc).waiting = pc.waiting /\ Done(pc).queue = Tail(pc.queue)
      /\ Done(pc).offer = pc.offer /\ Done(pc).local = pc.local /\ Done(pc).remote = pc.remote
      /\ Done(pc).heard = pc.heard
      /\ Done(pc).candidate = pc.candidate /\ Done(pc).gathering = pc.gathering
  BY <1>2 DEF Done, Peers
<1>4. Head(pc.queue) \in Pending(pc)
  <2>1. ToSet(pc.queue) = {Head(pc.queue)} \cup ToSet(Tail(pc.queue))
    BY <1>1, PeerFields, ElementsTail
  <2> QED
    BY <1>1, <2>1 DEF Pending
<1> QED
  BY <1>1, <1>2, <1>3, <1>4, NoneAssumption DEF StepOps

(* The step a connection is at finds the listeners attached. *)
LEMMA StepIsHeard ==
  ASSUME LinkInv, NEW p \in Pages, NEW q \in Pages, peer[p][q] # None, peer[p][q].queue # <<>>,
         Head(peer[p][q].queue) \in Current(peer[p][q])
  PROVE  stray \/ peer[p][q].heard
<1> DEFINE pc == peer[p][q]
           op == Head(pc.queue)
<1>1. pc \in PeerOK
  BY LinkTypes DEF LinkInv
<1>2. op \in StepOps /\ HasOnly(pc, op) /\ pc.queue \in Seq(Ops)
  BY <1>1, CurrentOnly, PeerFields
<1>3. ~ NoneOf(pc.queue, StepOps)
  BY <1>2, NoneTail
<1>4. pc.waiting \cap StepOps = {}
  BY <1>2, <1>3 DEF HasOnly
<1>5. ~ stray => pc.waiting = {}
  BY <1>4 DEF LinkInv, NoStray
<1> QED
  BY <1>1, <1>5 DEF PeerOK, WaitsForListeners

LEMMA LinkAddCandidate ==
  ASSUME LinkInv, TypeInv', NoStray', NEW p \in Pages, NEW q \in Pages, AddCandidate(p, q) PROVE LinkInv'
<1> DEFINE pc == peer[p][q]
           fits == pc.candidate \/ pc.remote # None \/ SignalingState(pc, p) = "have-remote-offer"
           pc2 == [Done(pc) EXCEPT !.candidate = fits]
<1>1. IsNext(p, q, "addCandidate") /\ UNCHANGED <<inbox, session, overlap, stray, cut>>
  BY DEF AddCandidate, sessionVars, history
<1>2. /\ p # q /\ pc \in PeerOK /\ pc \in Peers /\ pc # None /\ pc.queue # <<>>
      /\ Head(pc.queue) \in Ops /\ Head(pc.queue).do = "addCandidate"
      /\ Done(pc) \in PeerOK /\ Done(pc) \in Peers /\ Done(pc) # None
      /\ Done(pc).waiting = pc.waiting /\ Done(pc).queue = Tail(pc.queue)
      /\ Done(pc).offer = pc.offer /\ Done(pc).local = pc.local /\ Done(pc).remote = pc.remote
      /\ Done(pc).heard = pc.heard
      /\ Done(pc).candidate = pc.candidate /\ Done(pc).gathering = pc.gathering
  BY <1>1, NextFacts
<1>3. Becomes(p, q, pc2)
  BY DEF AddCandidate, Done
<1>4. /\ pc2 \in PeerOK /\ pc2 # None
      /\ pc2.waiting = pc.waiting /\ pc2.queue = Tail(pc.queue)
      /\ pc2.offer = pc.offer /\ pc2.local = pc.local /\ pc2.remote = pc.remote
      /\ pc2.heard = pc.heard /\ pc2.gathering = pc.gathering
      /\ pc.candidate \/ pc.remote # None => pc2.candidate
  <2>1. fits \in BOOLEAN /\ (pc.candidate \/ pc.remote # None => fits)
    BY <1>2 DEF Peers
  <2> HIDE DEF fits
  <2>2. /\ pc2 \in Peers /\ pc2.heard = Done(pc).heard /\ pc2.waiting = Done(pc).waiting
        /\ pc2.queue = Done(pc).queue /\ pc2.offer = Done(pc).offer
        /\ pc2.local = Done(pc).local /\ pc2.remote = Done(pc).remote
        /\ pc2.candidate = fits
        /\ pc2.gathering = Done(pc).gathering
    BY <1>2, <2>1 DEF Peers
  <2>3. pc2 \in Peers /\ WaitsForListeners(Done(pc)) /\ None \notin Peers
    BY <1>2, <2>2, NoneAssumption DEF PeerOK
  <2> HIDE DEF pc2
  <2> QED
    BY <1>2, <2>1, <2>2, <2>3 DEF PeerOK, WaitsForListeners
<1> HIDE DEF pc2
<1>5. Head(pc.queue) \notin StepOps /\ Head(pc.queue).rest = <<>>
  BY <1>2, OpFields DEF StepOps
<1>6. Kept(pc, pc2) /\ Rests(pc2) \subseteq Rests(pc)
  BY <1>2, <1>4, <1>5, KeptTail, TailPending
<1>7. peer'[p][q] = pc2 /\ peer'[q][p] = peer[q][p] /\ UNCHANGED <<inbox[p], inbox[q]>>
  BY <1>1, <1>2, <1>3 DEF Becomes, LinkInv, TypeInv, TypeOK
<1>8. IceKept(p, q)
  <2>1. pc.queue \in Seq(Ops)
    BY <1>2, PeerFields
  <2>2. NoneOf(Tail(pc.queue), StepOps) => NoneOf(pc.queue, StepOps)
    BY <1>2, <1>5, <2>1, NoneTail
  <2>3. Behind(pc.queue, StepOps, IceOps) => Behind(Tail(pc.queue), StepOps, IceOps)
    BY <1>2, <1>5, <2>1, BehindTail
  <2> QED
    BY <1>4, <1>7, <2>2, <2>3 DEF IceKept, Trails
<1>9. IceKept(q, p)
  <2>1. Gathers(pc) => Gathers(peer'[p][q])
    BY <1>4, <1>7 DEF Gathers
  <2> QED
    BY <1>7, <2>1, HoldsSame, IceHolds DEF KeptIce
<1> QED
  BY <1>1, <1>2, <1>3, <1>6, <1>8, <1>9, LinkAside

-----------------------------------------------------------------------------
(* The steps of a negotiation. *)

(* Nobody else is at work on an offer that is being made.                  *)
LEMMA PreparingIs ==
  ASSUME LinkInv, ~ Spoilt, NEW p \in Pages, NEW q \in Pages, p # q,
         NEW op \in Pending(peer[p][q]), Starts(op)
  PROVE  /\ Preparing(p, q) /\ op \in Current(peer[p][q]) /\ (op.do = "setLocal" => op.desc.by = p)
         /\ OfferOf(peer[p][q]) = None
         /\ Calm(peer[q][p]) /\ OfferOf(peer[q][p]) = None
         /\ Silent(p, q) /\ Silent(q, p)
         /\ ~ Preparing(q, p) /\ ~ OfferOut(q, p)
         /\ \A o \in Pending(peer[q][p]) : ~ Starts(o)
<1>1. Preparing(p, q)
  BY DEF LinkInv, OffersAlone, StartsAlone
<1>2. peer[p][q] \in PeerOK /\ peer[q][p] \in PeerOK
  BY LinkTypes DEF LinkInv
<1>3. op \in StepOps
  BY <1>2, PendingOps DEF StepOps, Starts
<1>4. PICK o \in Current(peer[p][q]) : Starts(o) /\ (o.do = "setLocal" => o.desc.by = p)
  BY <1>1 DEF Preparing
<1>5. o = op
  BY <1>2, <1>3, <1>4, CurrentOnly
<1>6. \A x : x \notin Current(peer[q][p])
  BY <1>1, <1>2, CurrentOnly DEF Preparing
<1>7. \A x \in Pending(peer[q][p]) : ~ Starts(x)
  BY <1>1, <1>2, PendingOps DEF Preparing, StepOps, Starts
<1> QED
  BY <1>1, <1>4, <1>5, <1>6, <1>7 DEF Preparing, OfferOut, HasOffer

(* A step that is taken loses no candidate. *)
LEMMA StepLosesNone ==
  ASSUME NEW s \in Seq(Ops), s # <<>>, Head(s) \in StepOps, NEW s2,
         s2 = Tail(s) \/ \E op \in Ops : s2 = Append(Tail(s), op), NoneOf(s2, IceOps)
  PROVE  NoneOf(s, IceOps)
<1>1. Tail(s) \in Seq(Ops)
  OBVIOUS
<1>2. NoneOf(Tail(s), IceOps)
  BY <1>1, NoneAppend
<1> QED
  BY <1>2, NoneTail DEF StepOps, IceOps

(* Where the first operation of p's connection belongs. *)
LEMMA SoundStep ==
  ASSUME LinkInv, ~ Spoilt, TypeInv', NEW p \in Pages, NEW q \in Pages, p # q, OnlyPage(p),
         peer[p][q] # None, peer[p][q].queue # <<>>,
         NEW op \in StepOps, op \in Pending(peer[p][q]), ~ Starts(op),
         \A o \in Pending(peer'[p][q]) : Starts(o) => o \in Pending(peer[p][q]),
         inbox'[p] = inbox[p],
         NoneOf(inbox[q], PeerLeft(p)) => NoneOf(inbox'[q], PeerLeft(p)),
         Owes(p, q) => Owes(p, q)',
         p \in Members /\ q \in Members /\ Answering(q, p) /\ op \in Current(peer[p][q])
           /\ AnswerStep(op, OfferOf(peer[p][q]), OfferOf(peer[q][p]))
           /\ AnswerFits(q, p, op) => Linked(p, q)',
         AnswerOut(p, q) /\ Silent(p, q) /\ op \in Current(peer[p][q])
           /\ op.do = "setRemote" /\ op.desc = peer[q][p].local => Linked(p, q)'
  PROVE  Sound(p, q)'
<1>1. peer[p][q] \in PeerOK /\ peer[q][p] \in PeerOK
  BY LinkTypes DEF LinkInv
<1>2. peer'[q][p] = peer[q][p] /\ Members' = Members
  BY DEF OnlyPage, Members
<1>3. ~ Calm(peer[p][q])
  BY <1>1, PendingOps
<1>4. \A o \in Current(peer[p][q]) : o = op
  BY <1>1, CurrentOnly
<1>5. /\ ~ Preparing(p, q) /\ ~ OfferOut(p, q) /\ ~ Answering(p, q)
      /\ ~ Preparing(q, p) /\ ~ OfferOut(q, p) /\ ~ AnswerOut(q, p) /\ ~ Settled(p, q)
  BY <1>3, <1>4 DEF Preparing, OfferOut, Answering, AnswerOut, Settled
<1>6. StartsAlone(p, q)' /\ StartsAlone(q, p)'
  BY <1>2, <1>5 DEF LinkInv, OffersAlone, StartsAlone
<1>7. ASSUME p \in Members, q \in Members
      PROVE  Linked(p, q)' /\ Harmless(p, q)' /\ Harmless(q, p)'
  <2>1. Linked(p, q) /\ Harmless(p, q) /\ Harmless(q, p)
    BY <1>7 DEF LinkInv, PairsLinked
  <2>2. Owes(q, p) => Owes(q, p)'
    BY OthersOwe
  <2>3. Owes(p, q) \/ Owes(q, p) \/ Answering(q, p) \/ AnswerOut(p, q)
    BY <1>5, <2>1 DEF Linked, Working
  <2>4. CASE Owes(p, q) \/ Owes(q, p)
    BY <1>5, <2>1, <2>2, <2>4 DEF Linked, Harmless
  <2>5. CASE Answering(q, p)
    <3>1. /\ op \in Current(peer[p][q])
          /\ AnswerStep(op, OfferOf(peer[p][q]), OfferOf(peer[q][p]))
          /\ AnswerFits(q, p, op)
      BY <1>4, <2>5 DEF Answering
    <3>2. Linked(p, q)'
      BY <1>7, <2>5, <3>1
    <3> QED
      BY <1>5, <2>1, <2>2, <3>2 DEF Harmless
  <2>6. CASE AnswerOut(p, q)
    <3>1. /\ Silent(p, q) /\ op \in Current(peer[p][q])
          /\ op.do = "setRemote" /\ op.desc = peer[q][p].local
      BY <1>3, <1>4, <2>6 DEF AnswerOut
    <3>2. Linked(p, q)'
      BY <2>6, <3>1
    <3> QED
      BY <1>5, <2>1, <2>2, <3>2 DEF Harmless
  <2> QED
    BY <2>3, <2>4, <2>5, <2>6
<1>8. Linked(p, q)' => Linked(q, p)'
  BY DEF Linked, Settled, Met
<1> QED
  BY <1>2, <1>6, <1>7, <1>8 DEF Sound

LEMMA LinkCreateOffer ==
  ASSUME LinkInv, TypeInv', NoStray', NEW p \in Pages, NEW q \in Pages, CreateOffer(p, q) PROVE LinkInv'
<1> DEFINE pc == peer[p][q]
           op == Head(pc.queue)
           desc == Description("offer", p, made'[p], pc)
           next == Op("setLocal", desc, op.rest)
           pc2 == Then(pc, "setLocal", desc, op.rest)
           refused == SignalingState(pc, p) = "have-remote-offer"
<1>1. IsNext(p, q, "createOffer") /\ UNCHANGED <<inbox, session, overlap, stray, cut>>
  BY DEF CreateOffer, history
<1>2. /\ p # q /\ pc \in PeerOK /\ pc \in Peers /\ pc # None /\ pc.queue # <<>>
      /\ op \in Ops /\ op.do = "createOffer" /\ op \in StepOps /\ op \in Pending(pc)
      /\ Done(pc) \in PeerOK /\ Done(pc) # None
      /\ Done(pc).waiting = pc.waiting /\ Done(pc).queue = Tail(pc.queue)
      /\ Done(pc).offer = pc.offer /\ Done(pc).local = pc.local /\ Done(pc).remote = pc.remote
      /\ \A d, e, rest : Op(d, e, rest) \in Ops =>
           Then(pc, d, e, rest) \in PeerOK /\ Then(pc, d, e, rest) # None
  BY <1>1, NextFacts
<1>3. Starts(op)
  BY <1>2 DEF Starts
<1>4. /\ refused => Becomes(p, q, Done(pc))
      /\ ~ refused => Becomes(p, q, pc2)
  BY DEF CreateOffer
<1>5. CASE refused
  <2>1. Rests(Done(pc)) \subseteq Rests(pc)
    BY <1>2, TailPending
  <2>2. Spoilt
    <3>1. SUFFICES ASSUME ~ Spoilt PROVE FALSE
      OBVIOUS
    <3>2. OfferOf(pc) = None
      BY <1>2, <1>3, <3>1, PreparingIs
    <3> QED
      BY <1>2, <1>5, <3>2 DEF OfferOf, SignalingState
  <2> QED
    BY <1>1, <1>2, <1>4, <1>5, <2>1, <2>2, LinkOperation
<1>6. CASE ~ refused
  <2>1. made'[p] \in Nat /\ op.rest \in Seq(Pages)
    BY <1>2, OpFields DEF TypeInv, TypeOK
  <2>2. desc \in Described("offer")
    BY <1>2, <2>1, DescriptionType
  <2>3. next \in Ops
    BY <2>1, <2>2, OpType
  <2>4. next.do = "setLocal" /\ next.rest = op.rest /\ next.desc.type = "offer" /\ next.desc.by = p
    BY DEF Op, Description
  <2>5. /\ pc2.waiting = pc.waiting /\ pc2.queue = Append(Tail(pc.queue), next)
        /\ pc2.offer = pc.offer
    BY <1>2 DEF Then, Peers
  <2>6. pc2 \in PeerOK /\ pc2 # None
    BY <1>2, <2>3
  <2> HIDE DEF next, pc2, desc, refused, op
  <2>7. next \in StepOps /\ Starts(next)
    BY <2>3, <2>4 DEF StepOps, Starts
  <2>8. Pending(pc2) \subseteq Pending(pc) \cup {next} /\ next \in Pending(pc2)
        /\ Rests(pc) \subseteq ToSet(op.rest) \cup Rests(pc2) /\ ToSet(next.rest) \subseteq Rests(pc2)
        /\ (op \in Current(pc) => next \in Current(pc2))
    BY <1>2, <2>5, <2>6, <2>7, ThenPending DEF op
  <2>9. Rests(pc2) \subseteq Rests(pc) /\ Rests(pc) \subseteq Rests(pc2)
    BY <1>2, <2>4, <2>8 DEF Rests
  <2>10. ASSUME ~ Spoilt, OnlyPage(p), Owes(p, q) => Owes(p, q)' PROVE Sound(p, q)'
    <3>1. /\ op \in Current(pc) /\ OfferOf(pc) = None
          /\ Calm(peer[q][p]) /\ OfferOf(peer[q][p]) = None
          /\ Silent(p, q) /\ Silent(q, p)
          /\ ~ Preparing(q, p) /\ ~ OfferOut(q, p)
          /\ \A o \in Pending(peer[q][p]) : ~ Starts(o)
      BY <1>2, <1>3, <2>10, PreparingIs
    <3>2. peer'[p][q] = pc2 /\ peer'[q][p] = peer[q][p]
      BY <1>2, <1>4, <1>6 DEF Becomes, LinkInv, TypeInv, TypeOK
    <3>3. OfferOf(pc2) = None
      BY <1>2, <2>5, <2>6, <3>1 DEF OfferOf
    <3>4. Preparing(p, q)'
      BY <1>1, <2>4, <2>7, <2>8, <3>1, <3>2, <3>3 DEF Preparing, Silent
    <3>5. p \in Members /\ q \in Members => Harmless(p, q)'
      <4>1. p \in Members /\ q \in Members => Harmless(p, q)
        BY <1>2, <2>10 DEF LinkInv, PairsLinked
      <4>2. Owes(q, p) => Owes(q, p)'
        BY <1>2, <2>10, OthersOwe
      <4> QED
        BY <1>1, <3>1, <4>1, <4>2 DEF Harmless
    <3>6. Members' = Members
      BY <1>1 DEF Members
    <3> QED
      BY <3>1, <3>2, <3>4, <3>5, <3>6 DEF Sound, StartsAlone, Linked, Working, Harmless
  <2> QED
    BY <1>1, <1>2, <1>4, <1>6, <2>9, <2>10, LinkOperation
<1> QED
  BY <1>5, <1>6

LEMMA LinkCreateAnswer ==
  ASSUME LinkInv, TypeInv', NoStray', NEW p \in Pages, NEW q \in Pages, CreateAnswer(p, q) PROVE LinkInv'
<1> DEFINE pc == peer[p][q]
           op == Head(pc.queue)
           desc == Description("answer", p, pc.offer.n, pc)
           next == Op("setLocal", desc, <<>>)
           pc2 == Then(pc, "setLocal", desc, <<>>)
           asked == SignalingState(pc, p) = "have-remote-offer"
           now == IF asked THEN pc2 ELSE Done(pc)
<1>1. IsNext(p, q, "createAnswer") /\ UNCHANGED <<inbox, session, overlap, stray, cut>> /\ Becomes(p, q, now)
  BY DEF CreateAnswer, history, sessionVars
<1>2. /\ p # q /\ pc \in PeerOK /\ pc \in Peers /\ pc # None /\ pc.queue # <<>>
      /\ op \in Ops /\ op.do = "createAnswer" /\ op \in StepOps /\ op \in Pending(pc)
      /\ Done(pc) \in PeerOK /\ Done(pc) # None
      /\ Done(pc).waiting = pc.waiting /\ Done(pc).queue = Tail(pc.queue)
      /\ Done(pc).offer = pc.offer /\ Done(pc).local = pc.local /\ Done(pc).remote = pc.remote
      /\ \A d, e, rest : Op(d, e, rest) \in Ops =>
           Then(pc, d, e, rest) \in PeerOK /\ Then(pc, d, e, rest) # None
  BY <1>1, NextFacts
<1>3. ~ Starts(op) /\ op.rest = <<>>
  BY <1>2, OpFields DEF Starts
<1>4. ToSet(<<>>) = {}
  BY DEF ToSet
<1>5. peer'[p][q] = now /\ peer'[q][p] = peer[q][p]
  BY <1>1, <1>2 DEF Becomes, LinkInv, TypeInv, TypeOK
<1>6. /\ Rests(Done(pc)) = Rests(pc)
      /\ Pending(Done(pc)) \subseteq Pending(pc)
  <2>1. /\ Pending(pc) = {op} \cup Pending(Done(pc))
        /\ Rests(pc) = ToSet(op.rest) \cup Rests(Done(pc))
    BY <1>2, TailPending
  <2> QED
    BY <1>3, <1>4, <2>1
<1>7. ASSUME asked
      PROVE  /\ Rests(pc2) = Rests(pc) /\ OfferOf(pc2) = OfferOf(pc)
             /\ Pending(pc2) \subseteq Pending(pc) \cup {next}
             /\ next.do = "setLocal" /\ next.desc.type = "answer"
             /\ op \in Current(pc) => next \in Current(pc2)
             /\ pc2 # None /\ pc2.heard = pc.heard
             /\ pc2.candidate = pc.candidate /\ pc2.gathering = pc.gathering /\ pc2.remote = pc.remote
             /\ NoneOf(pc2.queue, IceOps) => NoneOf(pc.queue, IceOps)
             /\ pc.gathering = "complete" => next.desc.found
  <2>1. pc.offer \in Descriptions
    BY <1>2, <1>7, DescriptionKinds DEF SignalingState, Peers
  <2>2. desc \in Described("answer")
    BY <1>2, <2>1, DescriptionParts, DescriptionType
  <2>3. next \in Ops
    BY <2>2, OpType
  <2>4. next.do = "setLocal" /\ next.rest = <<>> /\ next.desc.type = "answer"
        /\ (pc.gathering = "complete" => next.desc.found)
    BY DEF Op, Description
  <2>5. pc2.waiting = pc.waiting /\ pc2.queue = Append(Tail(pc.queue), next) /\ pc2.offer = pc.offer
        /\ pc2.heard = pc.heard /\ pc2.candidate = pc.candidate
        /\ pc2.gathering = pc.gathering /\ pc2.remote = pc.remote
    BY <1>2 DEF Then, Peers
  <2>6. pc2 \in PeerOK /\ pc2 # None
    BY <1>2, <2>3
  <2> HIDE DEF next, pc2, desc, op
  <2>7. next \in StepOps
    BY <2>3, <2>4 DEF StepOps
  <2>8. Pending(pc2) \subseteq Pending(pc) \cup {next} /\ Rests(pc) \subseteq ToSet(op.rest) \cup Rests(pc2)
        /\ (op \in Current(pc) => next \in Current(pc2))
    BY <1>2, <2>5, <2>6, <2>7, ThenPending DEF op
  <2>9. Rests(pc2) = Rests(pc)
    BY <1>3, <1>4, <2>4, <2>8 DEF Rests
  <2>10. NoneOf(pc2.queue, IceOps) => NoneOf(pc.queue, IceOps)
    BY <1>2, <2>3, <2>5, PeerFields, StepLosesNone DEF op
  <2> QED
    BY <1>2, <2>4, <2>5, <2>6, <2>8, <2>9, <2>10 DEF OfferOf
<1> HIDE DEF next, pc2, desc, op
<1>8. Rests(now) = Rests(pc) /\ \A o \in Pending(now) : Starts(o) => o \in Pending(pc)
  BY <1>6, <1>7 DEF Starts
<1>9. ASSUME ~ Spoilt, OnlyPage(p), Owes(p, q) => Owes(p, q)' PROVE Sound(p, q)'
  <2>1. ASSUME Answering(q, p), op \in Current(pc), AnswerStep(op, OfferOf(pc), OfferOf(peer[q][p])),
               AnswerFits(q, p, op)
        PROVE  Linked(p, q)'
    <3>1. OfferOf(pc) = OfferOf(peer[q][p]) /\ OfferOf(pc) # None /\ OfferOf(pc).by = q
      BY <1>2, <2>1 DEF AnswerStep, Answering, HasOffer
    <3>2. asked
      BY <1>2, <3>1 DEF SignalingState, OfferOf
    <3>3. now = pc2
      BY <3>2
    <3> HIDE DEF now, asked
    <3>4. next \in Current(peer'[p][q]) /\ AnswerStep(next, OfferOf(peer'[p][q]), OfferOf(peer'[q][p]))
      BY <1>5, <1>7, <2>1, <3>1, <3>2, <3>3 DEF AnswerStep
    <3>6. stray \/ (Fit(q, p) /\ pc.heard)
      BY <1>2, <2>1, StepIsHeard DEF AnswerFits, op
    <3>7. Hears(p, q) => Hears(p, q)'
      BY <1>1, <1>5, <1>7, <3>2, <3>3, HearsOn
    <3>8. \A x : x = next => AnswerFits(q, p, x)'
      <4> SUFFICES ASSUME Fit(q, p), pc.heard, NEW x, x = next PROVE Fitted(q, p, x.desc.found)'
        BY <1>1, <1>7, <3>2, <3>6 DEF AnswerFits
      <4>1. CASE New(pc)
        BY <1>2, <1>5, <1>7, <3>2, <3>3, <4>1 DEF Fit, Fitted, New
      <4>2. CASE ~ New(pc) /\ peer[q][p].remote # None /\ pc.gathering = "complete"
        BY <1>5, <1>7, <3>2, <4>2 DEF Fit, Fitted
      <4>3. CASE ~ New(pc) /\ peer[q][p].remote # None /\ pc.gathering # "complete"
        <5>1. Gathers(peer'[p][q])
          <6>1. pc.gathering = "gathering"
            BY <1>2, <4>3 DEF New, Peers
          <6> QED
            BY <1>5, <1>7, <3>2, <3>3, <6>1 DEF Gathers
        <5>2. peer[q][p] # None
          BY <2>1 DEF Answering, HasOffer, OfferOf
        <5> QED
          BY <1>5, <4>3, <5>1, <5>2 DEF Fit, Fitted, Met, Hears, OnItsWay
      <4>4. CASE Hears(p, q)
        BY <1>5, <3>7, <4>4 DEF Fit, Fitted, Met
      <4> QED
        BY <4>1, <4>2, <4>3, <4>4 DEF Fit
    <3>9. Answering(q, p)'
      BY <1>1, <1>5, <2>1, <3>4, <3>8 DEF Answering, HasOffer, Silent
    <3> QED
      BY <3>9 DEF Linked, Working
  <2> HIDE DEF now
  <2> QED
    BY <1>1, <1>2, <1>3, <1>5, <1>8, <1>9, <2>1, SoundStep
<1> HIDE DEF now
<1> QED
  BY <1>1, <1>2, <1>8, <1>9, LinkOperation

LEMMA LinkSetRemote ==
  ASSUME LinkInv, TypeInv', NoStray', NEW p \in Pages, NEW q \in Pages, SetRemote(p, q) PROVE LinkInv'
<1> DEFINE pc == peer[p][q]
           op == Head(pc.queue)
           desc == op.desc
           next == Op("createAnswer", None, <<>>)
           awaited == SignalingState(pc, p) = "have-local-offer"
           offered == [Then(pc, "createAnswer", None, <<>>) EXCEPT
                         !.offer = desc, !.candidate = @ \/ desc.found]
           answered == [Done(pc) EXCEPT !.offer = None, !.local = pc.offer, !.remote = desc,
                                        !.candidate = @ \/ desc.found]
           now == CASE desc.type = "offer" -> offered
                    [] desc.type = "answer" /\ awaited -> answered
                    [] OTHER -> Done(pc)
<1>1. IsNext(p, q, "setRemote") /\ UNCHANGED <<inbox, session, overlap, stray, cut>> /\ Becomes(p, q, now)
  BY DEF SetRemote, history, sessionVars
<1> HIDE DEF now, answered, offered, awaited, next
<1>2. /\ p # q /\ pc \in PeerOK /\ pc \in Peers /\ pc # None /\ pc.queue # <<>>
      /\ op \in Ops /\ op.do = "setRemote" /\ op \in StepOps /\ op \in Pending(pc)
      /\ Done(pc) \in PeerOK /\ Done(pc) # None /\ Done(pc) \in Peers
      /\ Done(pc).waiting = pc.waiting /\ Done(pc).queue = Tail(pc.queue)
      /\ Done(pc).offer = pc.offer /\ Done(pc).local = pc.local /\ Done(pc).remote = pc.remote
      /\ Done(pc).heard = pc.heard /\ Done(pc).candidate = pc.candidate
      /\ Done(pc).gathering = pc.gathering
      /\ \A d, e, rest : Op(d, e, rest) \in Ops =>
           /\ Then(pc, d, e, rest) \in PeerOK /\ Then(pc, d, e, rest) # None
           /\ Then(pc, d, e, rest) \in Peers
  BY <1>1, NextFacts
<1>3. ~ Starts(op) /\ op.rest = <<>> /\ desc \in Descriptions /\ desc.type \in {"offer", "answer"}
  BY <1>2, OpFields, DescriptionParts DEF Starts
<1>4. ToSet(<<>>) = {}
  BY DEF ToSet
<1>5. peer'[p][q] = now /\ peer'[q][p] = peer[q][p]
  BY <1>1, <1>2 DEF Becomes, LinkInv, TypeInv, TypeOK
<1>6. /\ Rests(Done(pc)) = Rests(pc)
      /\ Pending(Done(pc)) \subseteq Pending(pc)
      /\ op \in Current(pc) => Calm(Done(pc))
  <2>1. /\ Pending(pc) = {op} \cup Pending(Done(pc))
        /\ Rests(pc) = ToSet(op.rest) \cup Rests(Done(pc))
        /\ op \in Current(pc) => Calm(Done(pc))
    BY <1>2, TailPending
  <2> QED
    BY <1>3, <1>4, <2>1
<1>7. desc.found \in BOOLEAN
  BY <1>2, <1>3, DescriptionParts
<1>8. next \in Ops /\ next \in StepOps /\ next.do = "createAnswer" /\ next.rest = <<>> /\ ~ Starts(next)
  BY OpType DEF Op, StepOps, Starts, next
<1>9. ASSUME desc.type = "offer"
      PROVE  /\ Rests(offered) = Rests(pc) /\ OfferOf(offered) = desc
             /\ Pending(offered) \subseteq Pending(pc) \cup {next}
             /\ op \in Current(pc) => next \in Current(offered)
             /\ offered # None /\ (pc.candidate => offered.candidate)
             /\ offered.gathering = pc.gathering /\ offered.remote = pc.remote
             /\ NoneOf(offered.queue, IceOps) => NoneOf(pc.queue, IceOps)
  <2> HIDE DEF desc
  <2>1. Then(pc, "createAnswer", None, <<>>) \in Peers /\ Then(pc, "createAnswer", None, <<>>) \in PeerOK
    BY <1>2, <1>8 DEF next
  <2>2. desc \in Described("offer")
    BY <1>3, <1>9, DescriptionParts
  <2>3. /\ Then(pc, "createAnswer", None, <<>>).waiting = pc.waiting
        /\ Then(pc, "createAnswer", None, <<>>).queue = Append(Tail(pc.queue), next)
        /\ Then(pc, "createAnswer", None, <<>>).candidate = pc.candidate
        /\ Then(pc, "createAnswer", None, <<>>).gathering = pc.gathering
        /\ Then(pc, "createAnswer", None, <<>>).remote = pc.remote
    BY <1>2 DEF Then, Peers, next
  <2>4. /\ offered \in Peers /\ offered.offer = desc
        /\ offered.waiting = Then(pc, "createAnswer", None, <<>>).waiting
        /\ offered.queue = Then(pc, "createAnswer", None, <<>>).queue
        /\ offered.heard = Then(pc, "createAnswer", None, <<>>).heard
        /\ Then(pc, "createAnswer", None, <<>>).candidate => offered.candidate
        /\ offered.gathering = Then(pc, "createAnswer", None, <<>>).gathering
        /\ offered.remote = Then(pc, "createAnswer", None, <<>>).remote
    BY <1>7, <2>1, <2>2 DEF Peers, offered
  <2> HIDE DEF op
  <2>5. offered \in PeerOK /\ offered # None
    <3>1. WaitsForListeners(Then(pc, "createAnswer", None, <<>>))
      BY <2>1 DEF PeerOK
    <3>2. WaitsForListeners(offered)
      BY <2>4, <3>1, <1>8, <1>2 DEF WaitsForListeners, next
    <3> QED
      BY <2>4, <3>2, NoneAssumption DEF PeerOK
  <2>6. offered.waiting = pc.waiting /\ offered.queue = Append(Tail(pc.queue), next)
    BY <2>3, <2>4
  <2>7. /\ Pending(offered) \subseteq Pending(pc) \cup {next}
        /\ Rests(pc) \subseteq ToSet(op.rest) \cup Rests(offered)
        /\ op \in Current(pc) => next \in Current(offered)
    BY <1>2, <1>8, <2>6, <2>5, ThenPending DEF op
  <2>8. Rests(offered) = Rests(pc)
    BY <1>3, <1>4, <1>8, <2>7 DEF Rests
  <2>9. NoneOf(offered.queue, IceOps) => NoneOf(pc.queue, IceOps)
    <3>1. pc.queue \in Seq(Ops) /\ pc.queue # <<>> /\ Head(pc.queue) \in StepOps
      BY <1>2, PeerFields DEF op
    <3> QED
      BY <1>8, <2>6, <3>1, StepLosesNone
  <2> QED
    BY <2>3, <2>4, <2>5, <2>7, <2>8, <2>9 DEF OfferOf
<1>10. ASSUME awaited
       PROVE  /\ Rests(answered) = Rests(pc) /\ Pending(answered) = Pending(Done(pc))
              /\ answered # None /\ answered.offer = None /\ answered.local = pc.offer
              /\ answered.remote = desc
              /\ Calm(Done(pc)) => Calm(answered)
              /\ answered.queue = Tail(pc.queue) /\ (pc.candidate \/ desc.found => answered.candidate)
              /\ answered.heard = pc.heard /\ answered.gathering = pc.gathering
  <2> DEFINE found == Done(pc).candidate \/ desc.found
  <2> HIDE DEF desc
  <2>1. pc.offer \in Descriptions
    BY <1>2, <1>10, DescriptionKinds DEF SignalingState, Peers, awaited
  <2>2. found \in BOOLEAN
    BY <1>2, <1>7 DEF Peers
  <2>3. answered = [Done(pc) EXCEPT !.offer = None, !.local = pc.offer, !.remote = desc,
                                    !.candidate = found]
    BY DEF answered
  <2> HIDE DEF found
  <2>4. /\ answered \in Peers /\ answered.offer = None /\ answered.local = pc.offer
        /\ answered.remote = desc
        /\ answered.waiting = Done(pc).waiting /\ answered.queue = Done(pc).queue
        /\ answered.heard = Done(pc).heard /\ answered.gathering = Done(pc).gathering
        /\ answered.candidate = found
    BY <1>2, <1>3, <1>7, <2>1, <2>2, <2>3 DEF Peers
  <2>5. answered # None
    BY <2>4, NoneAssumption
  <2>6. Pending(answered) = Pending(Done(pc)) /\ (Calm(Done(pc)) => Calm(answered))
    BY <1>2, <2>4, <2>5 DEF Pending, Calm
  <2>7. Done(pc).candidate \/ desc.found => found
    BY DEF found
  <2> QED
    BY <1>2, <1>6, <2>4, <2>5, <2>6, <2>7 DEF Rests
<1>11. Rests(now) = Rests(pc) /\ \A o \in Pending(now) : Starts(o) => o \in Pending(pc)
  <2>1. CASE desc.type = "offer"
    BY <1>8, <1>9, <2>1 DEF now
  <2>2. CASE desc.type # "offer" /\ awaited
    BY <1>3, <1>6, <1>10, <2>2 DEF now
  <2>3. CASE desc.type # "offer" /\ ~ awaited
    BY <1>3, <1>6, <2>3 DEF now
  <2> QED
    BY <2>1, <2>2, <2>3
<1>12. ASSUME ~ Spoilt, OnlyPage(p), Owes(p, q) => Owes(p, q)' PROVE Sound(p, q)'
  <2>1. pc \in PeerOK /\ peer[q][p] \in PeerOK
    BY LinkTypes DEF LinkInv
  <2>3. ASSUME Answering(q, p), op \in Current(pc), AnswerStep(op, OfferOf(pc), OfferOf(peer[q][p])),
               AnswerFits(q, p, op)
        PROVE  Linked(p, q)'
    <3>1. desc = OfferOf(peer[q][p]) /\ desc # None
      BY <1>2, <2>3 DEF AnswerStep, Answering, HasOffer
    <3>2. desc.type = "offer"
      BY <2>1, <3>1, PeerFields, DescriptionKinds DEF OfferOf
    <3>3. now = offered
      BY <3>2 DEF now
    <3> HIDE DEF desc, op
    <3>4. next \in Current(peer'[p][q]) /\ AnswerStep(next, OfferOf(peer'[p][q]), OfferOf(peer'[q][p]))
      BY <1>5, <1>8, <1>9, <2>3, <3>1, <3>2, <3>3 DEF AnswerStep
    <3>6. AnswerFits(q, p, next)'
      <4>1. Hears(p, q) => Hears(p, q)'
        BY <1>1, <1>5, <1>9, <3>2, <3>3, HearsOn
      <4>2. New(pc) => New(peer'[p][q])
        BY <1>2, <1>5, <1>9, <3>2, <3>3 DEF New
      <4>3. stray \/ Fit(q, p)
        BY <1>2, <2>3 DEF AnswerFits
      <4> QED
        BY <1>1, <1>5, <1>8, <4>1, <4>2, <4>3 DEF AnswerFits, Fit
    <3>7. Answering(q, p)'
      BY <1>1, <1>5, <2>3, <3>4, <3>6 DEF Answering, HasOffer, Silent
    <3> QED
      BY <3>7 DEF Linked, Working
  <2>4. ASSUME AnswerOut(p, q), Silent(p, q), op \in Current(pc), op.desc = peer[q][p].local
        PROVE  Linked(p, q)'
    <3>1. desc = peer[q][p].local /\ desc.type = "answer" /\ desc # None
      BY <2>4 DEF AnswerOut
    <3>2. pc.offer # None /\ pc.offer.by = p /\ awaited
      BY <1>2, <2>4 DEF AnswerOut, HasOffer, OfferOf, SignalingState, awaited
    <3>3. now = answered
      BY <3>1, <3>2 DEF now
    <3> HIDE DEF desc, op
    <3>4. /\ peer'[p][q] # None /\ peer'[p][q].offer = None /\ peer'[p][q].local = pc.offer
          /\ peer'[p][q].remote = desc /\ Calm(peer'[p][q])
      BY <1>5, <1>6, <1>10, <2>4, <3>2, <3>3
    <3>5. /\ peer[q][p] # None /\ peer[q][p].offer = None /\ peer[q][p].remote = pc.offer
          /\ Calm(peer[q][p]) /\ Silent(q, p)
      BY <1>2, <2>4 DEF AnswerOut, OfferOf
    <3>7. (stray \/ Met(p, q))'
      <4> SUFFICES ASSUME FittedWell(p, q) PROVE Met(p, q)'
        BY <1>1, <2>4 DEF AnswerOut
      <4>1. pc.queue \in Seq(Ops) /\ peer'[p][q].queue = Tail(pc.queue)
        BY <1>2, <1>5, <1>10, <3>2, <3>3, PeerFields
      <4>2. NoneOf(peer'[p][q].queue, IceOps) => NoneOf(pc.queue, IceOps)
        BY <1>2, <4>1, StepLosesNone DEF op
      <4>3. /\ pc.candidate \/ desc.found => peer'[p][q].candidate
            /\ Gathers(pc) => Gathers(peer'[p][q])
        BY <1>2, <1>5, <1>10, <3>2, <3>3, <3>4 DEF Gathers
      <4>4. (Hears(p, q) => Hears(p, q)') /\ (Hears(q, p) => Hears(q, p)')
        BY <1>1, <1>5, <3>1, <3>4, <4>2, <4>3, HearsOn DEF Hears
      <4>5. Trails(p, q) => OnItsWay(p, q)'
        <5>1. Behind(inbox[p], Signals(q), Ice(q)) => ~ NoneOf(inbox[p], Ice(q))
          BY DEF Behind, NoneOf
        <5>2. Behind(pc.queue, StepOps, IceOps) => ~ NoneOf(peer'[p][q].queue, IceOps)
          BY <1>2, <4>1, BehindTail
        <5> QED
          BY <1>1, <1>5, <5>1, <5>2 DEF Trails, OnItsWay
      <4> QED
        BY <3>1, <3>4, <4>3, <4>4, <4>5 DEF FittedWell, Met, Hears
    <3>8. Settled(p, q)'
      BY <1>1, <1>5, <2>4, <3>1, <3>2, <3>4, <3>5, <3>7 DEF Settled, Agree, Silent
    <3> QED
      BY <3>8 DEF Linked
  <2> HIDE DEF op
  <2> QED
    BY <1>1, <1>2, <1>3, <1>5, <1>11, <1>12, <2>3, <2>4, SoundStep
<1> QED
  BY <1>1, <1>2, <1>11, <1>12, LinkOperation

(* An answer, or an offer that is not possible any more, is applied here.  *)
LEMMA LinkSetLocalOther ==
  ASSUME LinkInv, TypeInv', NoStray', NEW p \in Pages, NEW q \in Pages, SetLocal(p, q),
         ~ (/\ Head(peer[p][q].queue).desc.type = "offer"
            /\ SignalingState(peer[p][q], p) # "have-remote-offer")
  PROVE  LinkInv'
<1> DEFINE pc == peer[p][q]
           op == Head(pc.queue)
           desc == op.desc
           asked == SignalingState(pc, p) = "have-remote-offer"
           now == [Done(pc) EXCEPT !.gathering = IF @ = "new" THEN "gathering" ELSE @]
           answered == [now EXCEPT !.offer = None, !.local = desc, !.remote = pc.offer]
           answers == desc.type = "answer" /\ asked
           new == IF answers THEN answered ELSE Done(pc)
           m == Message("answer", p, desc)
<1>1. IsNext(p, q, "setLocal") /\ UNCHANGED <<session, stray, cut>>
  BY DEF SetLocal, sessionVars
<1>2. /\ p # q /\ pc \in PeerOK /\ pc \in Peers /\ pc # None /\ pc.queue # <<>>
      /\ op \in Ops /\ op.do = "setLocal" /\ op \in StepOps /\ op \in Pending(pc)
      /\ Done(pc) \in PeerOK /\ Done(pc) # None /\ Done(pc) \in Peers
      /\ Done(pc).waiting = pc.waiting /\ Done(pc).queue = Tail(pc.queue)
      /\ Done(pc).offer = pc.offer /\ Done(pc).local = pc.local /\ Done(pc).remote = pc.remote
      /\ Done(pc).heard = pc.heard
      /\ Done(pc).candidate = pc.candidate /\ Done(pc).gathering = pc.gathering
  BY <1>1, NextFacts
<1>3. Becomes(p, q, new) /\ UNCHANGED overlap
      /\ (IF answers THEN Send(p, q, "answer", desc) ELSE UNCHANGED inbox)
  BY DEF SetLocal
<1>4. /\ desc \in Descriptions /\ desc.type \in {"offer", "answer"}
      /\ desc.type = "answer" => desc \in Described("answer") /\ op.rest = <<>> /\ ~ Starts(op)
      /\ desc.type = "offer" => Starts(op)
  BY <1>2, OpFields, DescriptionParts, DescriptionKinds DEF Starts
<1>5. peer'[p][q] = new /\ peer'[q][p] = peer[q][p] /\ \A x \in Pages \ {p} : peer'[x] = peer[x]
  <2>1. p # q /\ Becomes(p, q, new) /\ peer \in [Pages -> [Pages -> Peers \cup {None}]]
    BY <1>2, <1>3 DEF LinkInv, TypeInv, TypeOK
  <2> HIDE DEF new
  <2> QED
    BY <2>1 DEF Becomes
<1>6. /\ Rests(Done(pc)) \subseteq Rests(pc) /\ Pending(Done(pc)) \subseteq Pending(pc)
      /\ desc.type = "answer" => Rests(Done(pc)) = Rests(pc)
      /\ op \in Current(pc) => Calm(Done(pc))
  <2>1. /\ Pending(pc) = {op} \cup Pending(Done(pc))
        /\ Rests(pc) = ToSet(op.rest) \cup Rests(Done(pc))
        /\ op \in Current(pc) => Calm(Done(pc))
    BY <1>2, TailPending
  <2>2. ToSet(<<>>) = {}
    BY DEF ToSet
  <2> QED
    BY <1>4, <2>1, <2>2
<1>7. ASSUME answers
      PROVE  /\ answered # None /\ answered.offer = None /\ answered.local = desc
             /\ answered.remote = pc.offer
             /\ Pending(answered) = Pending(Done(pc)) /\ Rests(answered) = Rests(Done(pc))
             /\ Calm(Done(pc)) => Calm(answered)
             /\ answered.queue = Tail(pc.queue) /\ answered.candidate = pc.candidate
             /\ answered.heard = pc.heard
             /\ answered.gathering = IF pc.gathering = "new" THEN "gathering" ELSE pc.gathering
  <2> HIDE DEF desc
  <2>1. pc.offer \in Descriptions
    BY <1>2, <1>7, DescriptionKinds DEF SignalingState, Peers
  <2>2. now \in Peers /\ now.waiting = Done(pc).waiting /\ now.queue = Done(pc).queue
        /\ now.candidate = pc.candidate /\ now.heard = pc.heard
        /\ now.gathering = IF pc.gathering = "new" THEN "gathering" ELSE pc.gathering
    BY <1>2 DEF Peers
  <2> HIDE DEF now
  <2>3. /\ answered \in Peers /\ answered.offer = None /\ answered.local = desc
        /\ answered.remote = pc.offer
        /\ answered.waiting = Done(pc).waiting /\ answered.queue = Done(pc).queue
        /\ answered.candidate = now.candidate /\ answered.heard = now.heard
        /\ answered.gathering = now.gathering
    BY <1>4, <2>1, <2>2 DEF Peers
  <2> HIDE DEF answered
  <2>4. answered # None
    BY <2>3, NoneAssumption
  <2> QED
    BY <1>2, <2>2, <2>3, <2>4 DEF Pending, Calm, Rests
<1> HIDE DEF answered
<1>8. desc.type = "answer" => m \in Messages /\ m \in Signals(p) /\ m \notin PeerLeft(p)
  BY <1>4, MessageType, SignalTypes DEF Message, PeerLeft
<1> HIDE DEF m, desc, op
<1>9. UNCHANGED inbox \/ SendsAny(p, q)
  BY <1>3, <1>8 DEF SendsAny, m
<1>10. Rests(new) \subseteq Rests(pc) /\ \A o \in Pending(new) : o \in Pending(pc)
  BY <1>6, <1>7
<1>11. ASSUME ~ Spoilt PROVE desc.type = "answer"
  <2> SUFFICES ASSUME desc.type = "offer" PROVE FALSE
    BY <1>4
  <2>1. OfferOf(pc) = None
    BY <1>2, <1>4, <1>11, PreparingIs
  <2>2. ~ asked
    BY <1>2, <2>1 DEF OfferOf, SignalingState
  <2> QED
    BY <2>2 DEF desc, op
<1>12. ~ Spoilt => Rests(pc) \subseteq Rests(new)
  BY <1>6, <1>7, <1>11
<1>13. ASSUME ~ Spoilt, OnlyPage(p), Owes(p, q) => Owes(p, q)' PROVE Sound(p, q)'
  <2>1. /\ inbox'[p] = inbox[p]
        /\ NoneOf(inbox[q], PeerLeft(p)) => NoneOf(inbox'[q], PeerLeft(p))
    BY <1>1, <1>2, <1>5, <1>9, SendsAlone
  <2>2. ASSUME p \in Members, q \in Members, Answering(q, p), op \in Current(pc),
               AnswerStep(op, OfferOf(pc), OfferOf(peer[q][p])),
               AnswerFits(q, p, op)
        PROVE  Linked(p, q)'
    <3>1. /\ OfferOf(pc) = OfferOf(peer[q][p]) /\ OfferOf(pc) # None /\ OfferOf(pc).by = q
          /\ desc.type = "answer"
      BY <1>2, <2>2 DEF AnswerStep, Answering, HasOffer, desc
    <3>2. asked /\ pc.offer = OfferOf(peer[q][p])
      BY <1>2, <3>1 DEF SignalingState, OfferOf
    <3>3. answers
      BY <3>1, <3>2
    <3>4. new = answered /\ Send(p, q, "answer", desc)
      BY <1>3, <3>3
    <3> HIDE DEF new, asked, answers
    <3>5. /\ peer'[p][q] # None /\ peer'[p][q].offer = None /\ peer'[p][q].local = desc
          /\ peer'[p][q].remote = OfferOf(peer[q][p]) /\ Calm(peer'[p][q])
      BY <1>5, <1>6, <1>7, <2>2, <3>2, <3>3, <3>4
    <3>6. inbox'[q] = Append(inbox[q], m)
      BY <2>2, <3>4 DEF Send, LinkInv, TypeInv, TypeOK, m
    <3>7. OneOf(inbox'[q], Signals(p), PeerLeft(p), m)
      <4>1. inbox[q] \in Seq(Messages) /\ NoneOf(inbox[q], Signals(p))
        BY <2>2, LinkTypes DEF LinkInv, Answering, Silent
      <4> QED
        BY <1>8, <3>1, <3>6, <4>1, OneNew
    <3>8. desc # None
      BY <1>4, NoneAssumption
    <3>9. HasOffer(q, p)' /\ Calm(peer'[q][p]) /\ Silent(p, q)'
      BY <1>5, <2>1, <2>2 DEF Answering, HasOffer, Silent
    <3>10. Only(q, p, Message("answer", p, peer[p][q].local))'
      BY <3>5, <3>7 DEF Only, m
    <3>11. OfferOf(peer'[p][q]) = None /\ peer'[p][q].remote = OfferOf(peer'[q][p])
      BY <1>5, <3>5 DEF OfferOf
    <3>13. (stray \/ FittedWell(q, p))'
      <4>1. stray \/ (Fitted(q, p, desc.found) /\ pc.heard)
        BY <1>2, <2>2, StepIsHeard DEF AnswerFits, desc, op
      <4> SUFFICES ASSUME Fitted(q, p, desc.found), pc.heard PROVE FittedWell(q, p)'
        BY <1>1, <4>1
      <4>2. /\ peer'[p][q].queue = Tail(pc.queue) /\ peer'[p][q].candidate = pc.candidate
            /\ peer'[p][q].heard = pc.heard /\ peer'[p][q] # None /\ peer'[p][q].remote # None
            /\ peer'[p][q].gathering = IF pc.gathering = "new" THEN "gathering" ELSE pc.gathering
        BY <1>5, <1>7, <3>1, <3>2, <3>3, <3>4, <3>5
      <4>3. NoneOf(peer'[p][q].queue, IceOps) => NoneOf(pc.queue, IceOps)
        BY <1>2, <4>2, PeerFields, StepLosesNone DEF op
      <4>4. NoneOf(inbox'[q], Ice(p)) => NoneOf(inbox[q], Ice(p))
        <5>1. inbox[q] \in Seq(Messages)
          BY LinkTypes DEF LinkInv
        <5> QED
          BY <1>8, <3>1, <3>6, <5>1, NoneAppend
      <4>5. Gathers(pc) \/ New(pc) => Gathers(peer'[p][q])
        BY <1>2, <4>2 DEF Gathers, New
      <4>6. (Hears(p, q) => Hears(p, q)') /\ (Hears(q, p) => Hears(q, p)')
        BY <1>5, <2>1, <4>2, <4>3, <4>4, <4>5, HearsOn DEF Hears
      <4> QED
        BY <1>5, <3>5, <4>5, <4>6 DEF Fitted, FittedWell, Met, Trails
    <3>14. AnswerOut(q, p)'
      BY <3>1, <3>5, <3>8, <3>9, <3>10, <3>11, <3>13 DEF AnswerOut
    <3> QED
      BY <3>14 DEF Linked, Working
  <2>3. ~ Starts(op) /\ op.do # "setRemote"
    BY <1>2, <1>4, <1>11, <1>13
  <2>4. \A o \in Pending(peer'[p][q]) : o \in Pending(pc)
    BY <1>5, <1>10
  <2> HIDE DEF new
  <2> QED
    BY <1>2, <1>13, <2>1, <2>2, <2>3, <2>4, SoundStep
<1> HIDE DEF new
<1> QED
  BY <1>1, <1>2, <1>3, <1>9, <1>10, <1>12, <1>13, LinkOperation
-----------------------------------------------------------------------------
(* Who waits for the senders of a connection. *)

(* A connection is made with a step of a negotiation to do, and who waits  *)
(* for its senders is its maker; candidates are gathered when there is a   *)
(* description, and one description is followed by the next.               *)
MadeForAStep(pc, pc2) ==
  pc2 # None =>
    /\ \/ pc2.waiting \subseteq StepOps
       \/ pc # None /\ pc2.waiting \subseteq pc.waiting
    /\ pc = None \/ HasBegun(pc) => HasBegun(pc2)

LEMMA StrayKept ==
  ASSUME NoStray, stray => stray',
         ~ stray' => \A p, q \in Pages : MadeForAStep(peer[p][q], peer'[p][q])
  PROVE  NoStray'
BY DEF NoStray, MadeForAStep

LEMMA AskedForAStep ==
  ASSUME NEW pc \in PeerOK, NEW op \in Ops, op \in StepOps \/ pc # None
  PROVE  MadeForAStep(pc, Asked(pc, op))
<1>1. pc = None \/ HasBegun(pc) => HasBegun(Asked(pc, op))
  BY AskedFields DEF HasBegun, New, OfferOf
<1> QED
  BY <1>1, AskedFields DEF MadeForAStep

(* handleWelcome's list asks for offers only. *)
LEMMA TurnForAStep ==
  ASSUME NEW peers \in [Pages -> PeerOK], NEW list \in Seq(Pages), NEW y \in Pages
  PROVE  MadeForAStep(peers[y], Turn(peers, list)[y])
<1>1. CASE y \in First(list)
  <2>1. list # <<>>
    BY <1>1 DEF First
  <2> DEFINE op == Op("createOffer", None, Tail(list))
  <2>2. op \in Ops /\ op \in StepOps
    BY <2>1, HeadTailProperties, OpType DEF Op, StepOps
  <2>3. Turn(peers, list)[y] = Asked(peers[y], op)
    BY <1>1 DEF Turn
  <2> HIDE DEF op
  <2> QED
    BY <2>2, <2>3, AskedForAStep
<1>2. CASE y \notin First(list)
  BY <1>2 DEF Turn, MadeForAStep
<1> QED
  BY <1>1, <1>2

(* One connection goes on, the others stay. *)
LEMMA OneMade ==
  ASSUME TypeInv, NoStray, NEW p \in Pages, NEW q \in Pages, NEW pc, stray' = stray,
         Becomes(p, q, pc), MadeForAStep(peer[p][q], pc)
  PROVE  NoStray'
<1>1. \A x, y \in Pages : peer'[x][y] = IF x = p /\ y = q THEN pc ELSE peer[x][y]
  BY TypeParts DEF Becomes
<1>2. \A x, y \in Pages : MadeForAStep(peer[x][y], peer'[x][y])
  BY <1>1 DEF MadeForAStep
<1> QED
  BY <1>2, StrayKept

LEMMA AsksForAStep ==
  ASSUME TypeInv, NoStray, NEW p \in Pages, NEW q \in Pages, NEW do, NEW desc,
         Op(do, desc, <<>>) \in Ops, Asks(p, q, do, desc), stray => stray',
         Op(do, desc, <<>>) \in StepOps \/ (~ stray' => peer[p][q] # None)
  PROVE  NoStray'
<1>1. \A x, y \in Pages : peer'[x][y] = IF x = p /\ y = q THEN Asked(peer[p][q], Op(do, desc, <<>>))
                                                          ELSE peer[x][y]
  BY TypeParts DEF Asks
<1>2. peer[p][q] \in PeerOK
  BY PeersTyped DEF PeersOK
<1>3. ~ stray' => \A x, y \in Pages : MadeForAStep(peer[x][y], peer'[x][y])
  <2> SUFFICES ASSUME ~ stray', NEW x \in Pages, NEW y \in Pages
               PROVE  MadeForAStep(peer[x][y], peer'[x][y])
    OBVIOUS
  <2>1. CASE x = p /\ y = q
    BY <1>1, <1>2, <2>1, AskedForAStep
  <2>2. CASE ~ (x = p /\ y = q)
    BY <1>1, <2>2 DEF MadeForAStep
  <2> QED
    BY <2>1, <2>2
<1> QED
  BY <1>3, StrayKept

LEMMA NoStrayReceive ==
  ASSUME TypeInv, NoStray, NEW p \in Pages, Receive(p) PROVE NoStray'
<1> DEFINE m == Head(inbox[p])
<1>1. m \in Messages /\ m.from \in Pages /\ <<>> \in Seq(Pages)
  BY TypeParts, HeadTailProperties, MessageFields, EmptySeq DEF Receive
<1>2. \/ handleWelcome(p, m) \/ handlePeerLeft(p, m)
      \/ handleOffer(p, m) \/ handleAnswer(p, m) \/ handleICECandidate(p, m)
  BY DEF Receive
<1> HIDE DEF m
<1>3. peer \in [Pages -> [Pages -> PeerOK]]
  BY PeersTyped DEF PeersOK
<1>4. CASE handleWelcome(p, m)
  <2>1. /\ m.body \in Seq(Pages) /\ stray' = stray
        /\ peer' = [peer EXCEPT ![p] = Turn(peer[p], m.body)]
    BY <1>1, <1>4, MessageFields DEF handleWelcome
  <2>2. \A y \in Pages : MadeForAStep(peer[p][y], Turn(peer[p], m.body)[y])
    BY <1>3, <2>1, TurnForAStep
  <2>3. \A x, y \in Pages : MadeForAStep(peer[x][y], peer'[x][y])
    BY <1>3, <2>1, <2>2 DEF MadeForAStep
  <2> QED
    BY <2>1, <2>3, StrayKept
<1>5. CASE handlePeerLeft(p, m)
  <2>1. stray' = stray /\ Becomes(p, m.from, None)
    BY <1>5 DEF handlePeerLeft, Becomes
  <2>2. MadeForAStep(peer[p][m.from], None)
    BY DEF MadeForAStep
  <2> QED
    BY <1>1, <2>1, <2>2, OneMade
<1>6. CASE handleOffer(p, m) \/ handleAnswer(p, m)
  <2>1. /\ stray' = stray
        /\ Asks(p, m.from, "setRemote", m.body) \/ UNCHANGED peer
        /\ m.body \in Descriptions
    BY <1>1, <1>6, MessageFields DEF handleOffer, handleAnswer, history
  <2>2. Op("setRemote", m.body, <<>>) \in Ops /\ Op("setRemote", m.body, <<>>) \in StepOps
    BY <2>1, OpType DEF Op, StepOps
  <2>3. CASE Asks(p, m.from, "setRemote", m.body)
    BY <1>1, <2>1, <2>2, <2>3, AsksForAStep
  <2>4. CASE UNCHANGED peer
    BY <2>1, <2>4 DEF NoStray
  <2> QED
    BY <2>1, <2>3, <2>4
<1>7. CASE handleICECandidate(p, m)
  <2>1. /\ Asks(p, m.from, "addCandidate", None)
        /\ stray' = (stray \/ peer[p][m.from] = None)
    BY <1>7 DEF handleICECandidate
  <2>2. Op("addCandidate", None, <<>>) \in Ops
    BY OpType
  <2>3. (stray => stray') /\ (~ stray' => peer[p][m.from] # None)
    BY <2>1, Zenon
  <2> QED
    BY <1>1, <2>1, <2>2, <2>3, AsksForAStep
<1> QED
  BY <1>2, <1>4, <1>5, <1>6, <1>7

LEMMA NoStraySession ==
  ASSUME TypeInv, NoStray, NEW p \in Pages,
         Join(p) \/ Welcome(p) \/ Leave(p) \/ Drop(p) \/ Renegotiate(p)
  PROVE  NoStray'
<1>1. stray' = stray
  BY DEF Join, Welcome, Leave, Drop, Depart, Renegotiate, history
<1>2. peer \in [Pages -> [Pages -> PeerOK]]
  BY PeersTyped DEF PeersOK
<1>3. CASE Join(p) \/ Welcome(p) \/ Drop(p)
  BY <1>1, <1>3 DEF Join, Welcome, Drop, NoStray
<1>4. CASE Leave(p)
  <2>1. \A x, y \in Pages : peer'[x][y] \in {None, peer[x][y]}
    BY <1>2, <1>4 DEF Leave
  <2> QED
    BY <1>1, <2>1 DEF NoStray
<1>5. CASE Renegotiate(p)
  <2> DEFINE op == Op("createOffer", None, <<>>)
             ready == {q \in Pages : peer[p][q] # None /\ SignalingState(peer[p][q], p) = "stable"}
             now == [q \in Pages |-> IF q \in ready THEN Asked(peer[p][q], op) ELSE peer[p][q]]
  <2>1. peer' = [peer EXCEPT ![p] = now]
    BY <1>2, <1>5 DEF Renegotiate
  <2>2. op \in Ops /\ op \in StepOps
    BY OpType, EmptySeq DEF Op, StepOps
  <2> HIDE DEF op, ready
  <2>3. \A q \in Pages : MadeForAStep(peer[p][q], now[q])
    <3> SUFFICES ASSUME NEW q \in Pages PROVE MadeForAStep(peer[p][q], now[q])
      OBVIOUS
    <3>1. MadeForAStep(peer[p][q], Asked(peer[p][q], op))
      BY <1>2, <2>2, AskedForAStep
    <3> QED
      BY <3>1 DEF MadeForAStep
  <2> HIDE DEF now
  <2>4. \A x, y \in Pages : MadeForAStep(peer[x][y], peer'[x][y])
    BY <1>2, <2>1, <2>3 DEF MadeForAStep
  <2> QED
    BY <1>1, <2>4, StrayKept
<1> QED
  BY <1>3, <1>4, <1>5

(* An operation of a connection makes nobody wait that did not wait. *)
LEMMA NoStrayOperation ==
  ASSUME TypeInv, NoStray, NEW p \in Pages, NEW q \in Pages,
         \/ SendersReady(p, q) \/ Gathered(p, q) \/ CreateOffer(p, q) \/ CreateAnswer(p, q)
         \/ SetRemote(p, q) \/ AddCandidate(p, q)
  PROVE  NoStray'
<1> DEFINE pc == peer[p][q]
<1>1. stray' = stray /\ pc # None
  BY DEF SendersReady, Gathered, CreateOffer, CreateAnswer, SetRemote, AddCandidate, IsNext, history
<1>2. pc \in Peers
  BY <1>1, TypeParts
<1>3. /\ Done(pc).waiting = pc.waiting /\ (HasBegun(pc) => HasBegun(Done(pc)))
      /\ \A do, desc, rest : /\ Then(pc, do, desc, rest).waiting = pc.waiting
                             /\ HasBegun(pc) => HasBegun(Then(pc, do, desc, rest))
  BY <1>2 DEF Done, Then, Peers, HasBegun
<1>4. \E new : Becomes(p, q, new) /\ new.waiting \subseteq pc.waiting /\ (HasBegun(pc) => HasBegun(new))
  <2>1. CASE SendersReady(p, q)
    <3>1. PICK op \in pc.waiting :
            Becomes(p, q, [pc EXCEPT !.waiting = {}, !.heard = TRUE, !.queue = Append(pc.queue, op)])
      BY <2>1 DEF SendersReady
    <3> DEFINE new == [pc EXCEPT !.waiting = {}, !.heard = TRUE, !.queue = Append(pc.queue, op)]
    <3>2. new.waiting = {} /\ (HasBegun(pc) => HasBegun(new))
      BY <1>2 DEF Peers, HasBegun
    <3> HIDE DEF new
    <3> QED
      BY <3>1, <3>2 DEF new
  <2>2. CASE Gathered(p, q)
    <3> DEFINE new == [pc EXCEPT !.gathering = "complete"]
    <3>1. new.waiting = pc.waiting /\ (HasBegun(pc) => HasBegun(new))
      BY <1>2, <2>2 DEF Gathered, Peers, HasBegun
    <3>2. Becomes(p, q, new)
      BY <2>2 DEF Gathered
    <3> HIDE DEF new
    <3> QED
      BY <3>1, <3>2
  <2>3. CASE CreateOffer(p, q)
    BY <1>3, <2>3 DEF CreateOffer
  <2>4. CASE CreateAnswer(p, q)
    BY <1>3, <2>4 DEF CreateAnswer
  <2>5. CASE SetRemote(p, q)
    <3> DEFINE desc == Head(pc.queue).desc
               asked == [Then(pc, "createAnswer", None, <<>>) EXCEPT
                           !.offer = desc, !.candidate = @ \/ desc.found]
               settled == [Done(pc) EXCEPT !.offer = None, !.local = pc.offer, !.remote = desc,
                                           !.candidate = @ \/ desc.found]
    <3>1. /\ asked.waiting = pc.waiting /\ settled.waiting = pc.waiting
          /\ asked.offer = desc /\ settled.remote = desc
      BY <1>2 DEF Done, Then, Peers
    <3>2. Becomes(p, q, CASE desc.type = "offer" -> asked
                          [] desc.type = "answer" /\ SignalingState(pc, p) = "have-local-offer" -> settled
                          [] OTHER -> Done(pc))
      BY <2>5 DEF SetRemote
    <3>3. desc # None
      BY <1>2, <2>5, NextType, OpFields, NoneAssumption DEF SetRemote, IsNext
    <3> HIDE DEF asked, settled, desc
    <3>4. HasBegun(asked) /\ HasBegun(settled)
      BY <3>1, <3>3 DEF HasBegun
    <3> QED
      BY <1>3, <3>1, <3>2, <3>4
  <2>6. CASE AddCandidate(p, q)
    <3> DEFINE fits == pc.remote # None \/ SignalingState(pc, p) = "have-remote-offer"
               new == [Done(pc) EXCEPT !.candidate = @ \/ fits]
    <3>1. Becomes(p, q, new) /\ new.waiting = pc.waiting /\ (HasBegun(pc) => HasBegun(new))
      BY <1>2, <2>6 DEF AddCandidate, Done, Peers, HasBegun
    <3> HIDE DEF new
    <3> QED
      BY <3>1
  <2> QED
    BY <2>1, <2>2, <2>3, <2>4, <2>5, <2>6
<1>5. PICK new : Becomes(p, q, new) /\ new.waiting \subseteq pc.waiting /\ (HasBegun(pc) => HasBegun(new))
  BY <1>4
<1>6. MadeForAStep(pc, new)
  BY <1>1, <1>5 DEF MadeForAStep
<1> QED
  BY <1>1, <1>5, <1>6, OneMade

LEMMA NoStraySetLocal ==
  ASSUME TypeInv, NoStray, NEW p \in Pages, NEW q \in Pages, SetLocal(p, q) PROVE NoStray'
<1> DEFINE pc == peer[p][q]
           op == Head(pc.queue)
           now == [Done(pc) EXCEPT !.gathering = IF @ = "new" THEN "gathering" ELSE @]
           offered == [now EXCEPT !.offer = op.desc]
           answered == [now EXCEPT !.offer = None, !.local = op.desc, !.remote = pc.offer]
           mid == [peer[p] EXCEPT ![q] = offered]
<1>1. IsNext(p, q, "setLocal") /\ stray' = stray
  BY DEF SetLocal
<1>2. /\ pc \in Peers /\ pc # None /\ op \in Ops /\ op.rest \in Seq(Pages)
      /\ peer \in [Pages -> [Pages -> PeerOK]]
  BY <1>1, NextType, PeersTyped, OpFields DEF PeersOK
<1>3. /\ offered.waiting = pc.waiting /\ answered.waiting = pc.waiting
      /\ Done(pc).waiting = pc.waiting /\ (HasBegun(pc) => HasBegun(Done(pc)))
      /\ offered.offer = op.desc /\ answered.remote = pc.offer
  BY <1>2 DEF Done, Peers, HasBegun
<1>4. \/ peer' = [peer EXCEPT ![p] = Turn(mid, op.rest)] /\ op.desc.type = "offer"
      \/ Becomes(p, q, answered) /\ pc.offer # None
      \/ Becomes(p, q, Done(pc))
  BY <1>2 DEF SetLocal, SignalingState
<1>5. CASE peer' = [peer EXCEPT ![p] = Turn(mid, op.rest)] /\ op.desc.type = "offer"
  <2>1. offered \in PeerOK
    <3>1. op.desc \in Described("offer") /\ WaitsForListeners(pc) /\ Done(pc) \in Peers
      BY <1>1, <1>2, <1>5, NextType, OpFields, DescriptionKinds
    <3>2. now \in Peers /\ now.waiting = pc.waiting /\ now.heard = pc.heard
      BY <1>2, <3>1 DEF Peers, Done
    <3> HIDE DEF now, op
    <3>3. offered \in Peers /\ offered.waiting = pc.waiting /\ offered.heard = pc.heard
      BY <3>1, <3>2 DEF Peers
    <3> HIDE DEF offered
    <3> QED
      BY <1>2, <3>1, <3>3 DEF PeerOK, WaitsForListeners
  <2> HIDE DEF offered
  <2>2. HasBegun(offered)
    BY <1>1, <1>2, <1>3, OpFields, NoneAssumption DEF HasBegun, IsNext
  <2> HIDE DEF op
  <2>3. mid \in [Pages -> PeerOK] /\ mid[q] = offered /\ \A y \in Pages \ {q} : mid[y] = peer[p][y]
    BY <1>2, <2>1
  <2> HIDE DEF mid
  <2>4. \A y \in Pages : MadeForAStep(mid[y], Turn(mid, op.rest)[y])
    BY <1>2, <2>3, TurnForAStep
  <2>5. \A y \in Pages : MadeForAStep(peer[p][y], Turn(mid, op.rest)[y])
    BY <1>2, <1>3, <2>2, <2>3, <2>4 DEF MadeForAStep
  <2>6. \A x, y \in Pages : MadeForAStep(peer[x][y], peer'[x][y])
    BY <1>2, <1>5, <2>5 DEF MadeForAStep
  <2> QED
    BY <1>1, <2>6, StrayKept
<1>6. CASE Becomes(p, q, answered) /\ pc.offer # None
  <2> HIDE DEF answered
  <2>1. MadeForAStep(pc, answered)
    BY <1>2, <1>3, <1>6 DEF MadeForAStep, HasBegun
  <2> QED
    BY <1>1, <1>6, <2>1, OneMade
<1>7. CASE Becomes(p, q, Done(pc))
  <2>1. MadeForAStep(pc, Done(pc))
    BY <1>2, <1>3 DEF MadeForAStep
  <2> QED
    BY <1>1, <1>7, <2>1, OneMade
<1> QED
  BY <1>4, <1>5, <1>6, <1>7

LEMMA NoStrayStep == TypeInv /\ NoStray /\ [Next]_vars => NoStray'
<1> SUFFICES ASSUME TypeInv, NoStray, [Next]_vars PROVE NoStray'
  OBVIOUS
<1>1. CASE UNCHANGED vars
  BY <1>1 DEF vars, history, NoStray
<1> QED
  BY <1>1, NoStraySession, NoStrayReceive, NoStrayOperation, NoStraySetLocal DEF Next, AtRest


(* The offer is out, and handleWelcome turns to the next of its list.      *)
LEMMA LinkSetLocalOffer ==
  ASSUME LinkInv, TypeInv', NoStray', NEW p \in Pages, NEW q \in Pages, SetLocal(p, q),
         Head(peer[p][q].queue).desc.type = "offer",
         SignalingState(peer[p][q], p) # "have-remote-offer"
  PROVE  LinkInv'
<1> DEFINE pc == peer[p][q]
           op == Head(pc.queue)
           desc == op.desc
           list == op.rest
           now == [Done(pc) EXCEPT !.gathering = IF @ = "new" THEN "gathering" ELSE @]
           offered == [now EXCEPT !.offer = desc]
           mid == [peer[p] EXCEPT ![q] = offered]
           next == Op("createOffer", None, Tail(list))
           m == Message("offer", p, desc)
<1>1. /\ IsNext(p, q, "setLocal") /\ UNCHANGED <<session, stray, cut>>
      /\ Begins(p, First(list)) /\ Send(p, q, "offer", desc)
      /\ peer' = [peer EXCEPT ![p] = Turn(mid, list)]
  BY DEF SetLocal, sessionVars
<1>2. /\ p # q /\ pc \in PeerOK /\ pc \in Peers /\ pc # None /\ pc.queue # <<>>
      /\ op \in Ops /\ op.do = "setLocal" /\ op \in StepOps /\ op \in Pending(pc)
      /\ Done(pc) \in PeerOK /\ Done(pc) # None /\ Done(pc) \in Peers
      /\ Done(pc).waiting = pc.waiting /\ Done(pc).queue = Tail(pc.queue)
      /\ Done(pc).offer = pc.offer /\ Done(pc).local = pc.local /\ Done(pc).remote = pc.remote
      /\ Done(pc).heard = pc.heard /\ Done(pc).gathering = pc.gathering
  BY <1>1, NextFacts
<1>3. desc \in Described("offer") /\ desc \in Descriptions /\ list \in Seq(Pages) /\ Starts(op)
  BY <1>2, OpFields, DescriptionParts, DescriptionKinds DEF Starts
<1>4. mid \in [Pages -> PeerOK \cup {offered}] /\ mid[q] = offered
      /\ \A y \in Pages \ {q} : mid[y] = peer[p][y]
  BY <1>2, LinkTypes DEF LinkInv, TypeInv, TypeOK
<1>5. /\ \A x \in Pages \ {p} : peer'[x] = peer[x]
      /\ peer'[p] = Turn(mid, list)
  BY <1>1 DEF LinkInv, TypeInv, TypeOK
<1> HIDE DEF mid
<1>6. \A y \in Pages : peer'[p][y] = IF y \in First(list) THEN Asked(mid[y], next) ELSE mid[y]
  BY <1>5 DEF Turn
<1>7. /\ offered # None /\ offered \in PeerOK /\ offered.offer = desc
      /\ offered.waiting = pc.waiting /\ offered.queue = Tail(pc.queue)
      /\ offered.remote = pc.remote /\ offered.heard = pc.heard
      /\ pc.gathering = "new" => offered.gathering = "gathering"
  <2> HIDE DEF desc
  <2>1. /\ now \in Peers /\ now.waiting = Done(pc).waiting /\ now.queue = Done(pc).queue
        /\ now.heard = Done(pc).heard /\ now.remote = Done(pc).remote
        /\ Done(pc).gathering = "new" => now.gathering = "gathering"
    BY <1>2 DEF Peers
  <2> HIDE DEF now
  <2>2. /\ offered \in Peers /\ offered.waiting = Done(pc).waiting /\ offered.queue = Done(pc).queue
        /\ offered.heard = Done(pc).heard /\ offered.offer = desc
        /\ offered.remote = Done(pc).remote /\ offered.gathering = now.gathering
    BY <1>3, <2>1 DEF Peers
  <2>3. WaitsForListeners(Done(pc)) /\ None \notin Peers
    BY <1>2, NoneAssumption DEF PeerOK
  <2> HIDE DEF offered
  <2>4. WaitsForListeners(offered)
    BY <1>2, <2>2, <2>3 DEF WaitsForListeners
  <2> QED
    BY <1>2, <2>1, <2>2, <2>3, <2>4 DEF PeerOK
<1> HIDE DEF offered
<1>8. /\ Pending(pc) = {op} \cup Pending(offered) /\ Rests(pc) = ToSet(list) \cup Rests(offered)
      /\ op \in Current(pc) => Calm(offered)
  BY <1>2, <1>7, TailPending
<1>9. OfferOf(offered) = desc
  BY <1>7 DEF OfferOf
<1>10. m \in Messages /\ m \in Signals(p) /\ m \notin PeerLeft(p)
  BY <1>3, MessageType, SignalTypes DEF Message, PeerLeft
<1> HIDE DEF op, desc, list, m
<1>11. list # <<>> => /\ Head(list) \in Pages /\ Tail(list) \in Seq(Pages)
                      /\ First(list) = {Head(list)} /\ next \in Ops /\ next.rest = Tail(list)
                      /\ ToSet(list) = {Head(list)} \cup ToSet(Tail(list)) /\ Head(list) # p
  <2> SUFFICES ASSUME list # <<>>
               PROVE  /\ Head(list) \in Pages /\ Tail(list) \in Seq(Pages)
                      /\ First(list) = {Head(list)} /\ next \in Ops /\ next.rest = Tail(list)
                      /\ ToSet(list) = {Head(list)} \cup ToSet(Tail(list)) /\ Head(list) # p
    OBVIOUS
  <2>1. Head(list) \in Pages /\ Tail(list) \in Seq(Pages) /\ First(list) = {Head(list)}
    BY <1>3, HeadTailProperties DEF First
  <2>2. next \in Ops /\ next.rest = Tail(list)
    BY <2>1, OpType DEF Op
  <2>3. ToSet(list) = {Head(list)} \cup ToSet(Tail(list))
    BY <1>3, ElementsTail
  <2>4. p \notin ToSet(list)
    BY <1>8 DEF LinkInv, NotWithItself
  <2> QED
    BY <2>1, <2>2, <2>3, <2>4
<1>12. list = <<>> => First(list) = {} /\ ToSet(list) = {}
  BY DEF First, ToSet
<1>13. \A y \in Pages : mid[y] \in PeerOK
  BY <1>4, <1>7
<1>14. \A y \in Pages : Rests(peer'[p][y]) = Rests(mid[y]) \cup
                          (IF y \in First(list) THEN ToSet(Tail(list)) ELSE {})
  <2> SUFFICES ASSUME NEW y \in First(list), y \in Pages
               PROVE  Rests(peer'[p][y]) = Rests(mid[y]) \cup ToSet(Tail(list))
    BY <1>6
  <2>1. next \in Ops /\ next.rest = Tail(list)
    BY <1>11, <1>12
  <2> HIDE DEF next
  <2>2. Rests(Asked(mid[y], next)) = Rests(mid[y]) \cup ToSet(next.rest)
    BY <1>13, <2>1, AskedFields
  <2> QED
    BY <1>6, <2>1, <2>2
<1>15. peer'[p][p] = peer[p][p] /\ \A r \in Pages : p \notin Rests(peer'[p][r])
  <2>1. p \notin First(list)
    BY <1>11, <1>12
  <2>2. \A r \in Pages : p \notin Rests(peer[p][r])
    BY DEF LinkInv, NotWithItself
  <2>3. \A r \in Pages : p \notin Rests(mid[r])
    BY <1>4, <1>8, <2>2
  <2>4. \A y \in First(list) : p \notin ToSet(Tail(list))
    BY <1>8, <1>11, <1>12, <2>2
  <2> QED
    BY <1>2, <1>4, <1>6, <1>14, <2>1, <2>3, <2>4
<1>16. SendsAny(p, q)
  BY <1>1, <1>10 DEF SendsAny, m
<1>17. /\ OnlyPage(p) /\ inbox'[p] = inbox[p] /\ \A x \in Pages \ {q} : inbox'[x] = inbox[x]
       /\ session[p] = "out" => inbox'[p] = <<>>
       /\ NoneOf(inbox[q], PeerLeft(p)) => NoneOf(inbox'[q], PeerLeft(p))
  BY <1>1, <1>2, <1>5, <1>16, SendsAlone
<1>18. NotWithItself(p)'
  BY <1>15, <1>17 DEF LinkInv, NotWithItself
<1> HIDE DEF next
<1>19. ASSUME ~ Spoilt', NEW y \in Pages \ {p} PROVE ~ Spoilt /\ Sound(p, y)'
  <2>1. ~ Spoilt /\ \A h \in First(list) : ~ Busy(p, h) /\ ~ Busy(h, p)
    BY <1>1, <1>19 DEF Spoilt, Begins
  <2>2. q \notin First(list)
    <3>1. Busy(p, q)
      BY <1>2 DEF Busy
    <3> QED
      BY <2>1, <3>1
  <2>3. peer'[p][q] = offered /\ peer'[q][p] = peer[q][p]
    BY <1>2, <1>4, <1>5, <1>6, <2>2
  <2>4. CASE y \in First(list)
    <3>1. peer'[p][y] = Asked(peer[p][y], Op("createOffer", None, Tail(list)))
      BY <1>4, <1>6, <2>2, <2>4 DEF next
    <3>2. Tail(list) \in Seq(Pages) /\ inbox'[y] = inbox[y] /\ KeptIn(inbox[p], inbox'[p], y)
      BY <1>11, <1>12, <1>17, <2>2, <2>4, KeptInSame
    <3> QED
      BY <1>17, <2>1, <2>4, <3>1, <3>2, SoundBegun
  <2>5. CASE y = q
    <3>1. /\ op \in Current(pc) /\ desc.by = p /\ OfferOf(pc) = None
          /\ Calm(peer[q][p]) /\ OfferOf(peer[q][p]) = None
          /\ Silent(p, q) /\ Silent(q, p)
          /\ ~ Preparing(q, p) /\ ~ OfferOut(q, p)
          /\ \A o \in Pending(peer[q][p]) : ~ Starts(o)
      BY <1>2, <1>3, <2>1, PreparingIs DEF desc
    <3>2. Calm(offered)
      BY <1>8, <3>1
    <3>3. \A o \in Pending(offered) : ~ Starts(o)
      BY <1>7, <3>2, PendingOps DEF StepOps, Starts
    <3>4. StartsAlone(p, q)' /\ StartsAlone(q, p)'
      BY <2>3, <3>1, <3>3 DEF StartsAlone
    <3>5. ASSUME p \in Members, q \in Members PROVE OfferOut(p, q)' /\ Harmless(p, q)'
      <4>1. inbox'[q] = Append(inbox[q], m)
        BY <1>1, <3>5 DEF Send, LinkInv, TypeInv, TypeOK, m
      <4>2. OneOf(inbox'[q], Signals(p), PeerLeft(p), m)
        <5>1. inbox[q] \in Seq(Messages) /\ NoneOf(inbox[q], Signals(p))
          BY <3>1, LinkTypes DEF LinkInv, Silent
        <5> QED
          BY <1>10, <4>1, <5>1, OneNew
      <4>3. OfferOf(peer'[p][q]) = desc /\ desc # None
        BY <1>3, <1>9, <2>3, NoneAssumption
      <4>4. Only(q, p, Message("offer", p, OfferOf(peer[p][q])))'
        BY <4>2, <4>3 DEF Only, m
      <4>5. HasOffer(p, q)'
        BY <3>1, <4>3 DEF HasOffer
      <4>6. (stray \/ Fit(p, q))'
        <5>1. stray \/ (pc.heard /\ HasBegun(pc) /\ (peer[q][p] # None => HasBegun(peer[q][p])))
          BY <1>2, <3>1, StepIsHeard DEF LinkInv, NoStray, op
        <5> SUFFICES ASSUME pc.heard, HasBegun(pc), peer[q][p] # None => HasBegun(peer[q][p])
                     PROVE  Fit(p, q)'
          BY <1>1, <5>1
        <5>2. CASE pc.remote # None
          BY <1>7, <2>3, <5>2 DEF Fit
        <5>3. CASE pc.remote = None
          <6>1. pc.gathering = "new"
            BY <1>2, <3>1, <5>3 DEF HasBegun, OfferOf
          <6>2. Gathers(peer'[p][q])
            BY <1>7, <2>3, <6>1 DEF Gathers
          <6>3. New(peer[q][p]) \/ (peer[q][p] # None /\ peer[q][p].remote # None)
            BY <3>1 DEF New, HasBegun, OfferOf
          <6> QED
            BY <1>7, <2>3, <6>2, <6>3 DEF Fit, Hears, OnItsWay
        <5> QED
          BY <5>2, <5>3
      <4>7. OfferOut(p, q)'
        BY <1>17, <2>3, <3>1, <3>2, <4>4, <4>5, <4>6 DEF OfferOut, Silent
      <4>8. Harmless(p, q)
        BY <1>2, <2>1, <3>5 DEF LinkInv, PairsLinked
      <4>9. Owes(q, p) => Owes(q, p)'
        BY <1>2, <1>17, OthersOwe
      <4> QED
        BY <1>17, <3>1, <4>7, <4>8, <4>9 DEF Harmless
    <3>6. Members' = Members
      BY <1>1 DEF Members
    <3> QED
      BY <2>1, <2>5, <3>4, <3>5, <3>6 DEF Sound, Linked, Working, Harmless
  <2>6. CASE y \notin First(list) /\ y # q
    <3>1. PairKept(p, y)
      <4>1. peer'[p][y] = peer[p][y] /\ peer'[y][p] = peer[y][p]
        BY <1>4, <1>5, <1>6, <2>6
      <4>2. inbox'[p] = inbox[p] /\ inbox'[y] = inbox[y]
        BY <1>17, <2>6
      <4> QED
        BY <1>1, <4>1, <4>2, NothingBetween
    <3>2. ASSUME Owes(p, y) PROVE Owes(p, y)'
      <4>1. \A r \in Pages : Rests(peer[p][r]) \subseteq Rests(peer'[p][r]) \cup ToSet(list)
        BY <1>4, <1>8, <1>14
      <4>2. CASE y \in ToSet(list)
        <5>1. Head(list) \in Pages /\ y \in Rests(peer'[p][Head(list)])
          BY <1>11, <1>12, <1>14, <2>6, <4>2
        <5> QED
          BY <5>1 DEF Owes
      <4>3. CASE y \notin ToSet(list)
        BY <1>1, <1>17, <3>2, <4>1, <4>3 DEF Owes
      <4> QED
        BY <4>2, <4>3
    <3>3. Owes(y, p) => Owes(y, p)'
      BY <1>17, OthersOwe
    <3> QED
      BY <1>1, <2>1, <3>1, <3>2, <3>3, SoundFrame
  <2> QED
    BY <2>1, <2>4, <2>5, <2>6
<1>20. ASSUME ~ Spoilt' PROVE ~ Spoilt
  BY <1>1, <1>20 DEF Spoilt, Begins
<1> QED
  BY <1>17, <1>18, <1>19, <1>20, LinkLocal

LEMMA LinkSetLocal ==
  ASSUME LinkInv, TypeInv', NoStray', NEW p \in Pages, NEW q \in Pages, SetLocal(p, q) PROVE LinkInv'
BY LinkSetLocalOther, LinkSetLocalOffer

-----------------------------------------------------------------------------
(* Agreement. *)

LEMMA LinkInvStep == LinkInv /\ [Next]_vars => LinkInv'
<1> SUFFICES ASSUME LinkInv, [Next]_vars PROVE LinkInv'
  OBVIOUS
<1>1. TypeInv' /\ NoStray'
  BY TypeInvStep, NoStrayStep DEF LinkInv
<1>2. CASE UNCHANGED vars
  <2>1. UNCHANGED <<session, inbox, peer, overlap, stray, cut>>
    BY <1>2 DEF vars, sessionVars, history
  <2>2. OutIsSilent' /\ OneFarewell' /\ \A p \in Pages : NotWithItself(p)'
    BY <2>1 DEF LinkInv, OutIsSilent, OneFarewell, NotWithItself
  <2>3. (Spoilt' <=> Spoilt) /\ Members' = Members /\ \A p, q : Owes(p, q) => Owes(p, q)'
    BY <2>1 DEF Spoilt, Members, Owes
  <2>4. \A p, q : PairKept(p, q)
    BY <2>1, NothingBetween
  <2>5. ~ Spoilt => OffersAlone' /\ PairsLinked'
    BY <1>1, <2>3, <2>4, StartsFrame, PairFrame DEF OffersAlone, PairsLinked
  <2> QED
    BY <1>1, <2>2, <2>3, <2>5 DEF LinkInv
<1>3. CASE \E p \in Pages :
             Join(p) \/ Welcome(p) \/ Leave(p) \/ Drop(p) \/ Renegotiate(p) \/ Receive(p)
  BY <1>1, <1>3, LinkJoin, LinkWelcome, LinkDepart, LinkRenegotiate, LinkReceive
<1>4. CASE \E p, q \in Pages :
             \/ SendersReady(p, q) \/ Gathered(p, q)
             \/ CreateOffer(p, q) \/ CreateAnswer(p, q) \/ SetLocal(p, q)
             \/ SetRemote(p, q) \/ AddCandidate(p, q)
  BY <1>1, <1>4, LinkReady, LinkGathered, LinkCreateOffer, LinkCreateAnswer, LinkSetLocal,
     LinkSetRemote, LinkAddCandidate
<1> QED
  BY <1>2, <1>3, <1>4 DEF Next, AtRest

LEMMA InitLinkInv == Init => LinkInv
<1> SUFFICES ASSUME Init PROVE LinkInv
  OBVIOUS
<1>1. /\ \A p \in Pages : session[p] = "out" /\ inbox[p] = <<>>
      /\ \A p, q \in Pages : peer[p][q] = None
  BY DEF Init
<1>2. Pending(None) = {} /\ Rests(None) = {} /\ ToSet(<<>>) = {}
  BY DEF Pending, Rests, ToSet
<1>3. NoStray /\ OutIsSilent /\ OneFarewell
  BY <1>1, NoneEmpty DEF NoStray, OutIsSilent, OneFarewell
<1>4. \A p \in Pages : NotWithItself(p)
  BY <1>1, <1>2 DEF NotWithItself
<1>5. OffersAlone /\ PairsLinked
  BY <1>1, <1>2 DEF OffersAlone, StartsAlone, PairsLinked, Members
<1> QED
  BY <1>3, <1>4, <1>5, InitTypeInv DEF LinkInv

(* When nothing is under way, a negotiation is settled or has not begun.   *)
LEMMA QuietIsSettled ==
  ASSUME LinkInv, Quiet, NEW p \in Pages, NEW q \in Pages
  PROVE  /\ ~ Owes(p, q) /\ ~ Preparing(p, q) /\ ~ OfferOut(p, q)
         /\ ~ Answering(p, q) /\ ~ AnswerOut(p, q)
<1>1. ToSet(<<>>) = {}
  BY DEF ToSet
<1>2. \A x, y \in Pages : Pending(peer[x][y]) = {}
  BY <1>1 DEF Quiet, Pending
<1>3. \A x \in Pages : session[x] # "joining" /\ inbox[x] = <<>>
  BY DEF Quiet
<1>4. ~ Owes(p, q)
  BY <1>1, <1>2, <1>3 DEF Owes, Rests
<1>5. \A x, y \in Pages : \A op : op \notin Current(peer[x][y])
  BY <1>2 DEF Current
<1>6. \A x, y \in Pages : \A m : ~ Only(x, y, m)
  <2>1. \A S, L, m : ~ OneOf(<<>>, S, L, m)
    BY DEF OneOf
  <2> QED
    BY <1>3, <2>1 DEF Only
<1> QED
  BY <1>4, <1>5, <1>6 DEF Preparing, OfferOut, Answering, AnswerOut

(* When all is done, any two members agree on offer and answer, whatever   *)
(* number of pages joined, left, lost its session or renegotiated, and in  *)
(* which order: only an offer begun while the two were negotiating, or a   *)
(* departure in the middle of a newcomer's list, can keep two apart.       *)
THEOREM AgreeUnlessSpoiltHolds == Spec => []AgreeUnlessSpoilt
<1>1. LinkInv => AgreeUnlessSpoilt
  <2> SUFFICES ASSUME LinkInv, ~ Spoilt, Quiet, NEW pq \in Pairs PROVE Agree(pq[1], pq[2])
    BY DEF AgreeUnlessSpoilt, Connected
  <2> DEFINE p == pq[1]
             q == pq[2]
  <2>1. p \in Members /\ q \in Members /\ p # q /\ p \in Pages /\ q \in Pages
    BY DEF Pairs, Members
  <2> HIDE DEF p, q
  <2>2. Linked(p, q)
    BY <2>1 DEF LinkInv, PairsLinked
  <2>3. Settled(p, q)
    BY <2>1, <2>2, QuietIsSettled DEF Linked, Working
  <2> QED
    BY <2>3 DEF Settled, p, q
<1> QED
  BY <1>1, InitLinkInv, LinkInvStep, PTL DEF Spec

(* When all is done, of any two members one at least has a candidate of    *)
(* the other: addIceCandidate refuses what comes before the description,   *)
(* but never all that both sides send, unless a candidate has made a       *)
(* connection or a negotiation was spoilt.                                 *)
THEOREM SomeCandidateHolds == Spec => []SomeCandidate
<1>1. LinkInv => SomeCandidate
  <2> SUFFICES ASSUME LinkInv, ~ Spoilt, ~ stray, Quiet, NEW pq \in Pairs
               PROVE  peer[pq[1]][pq[2]].candidate \/ peer[pq[2]][pq[1]].candidate
    BY DEF SomeCandidate
  <2> DEFINE p == pq[1]
             q == pq[2]
  <2>1. p \in Members /\ q \in Members /\ p # q /\ p \in Pages /\ q \in Pages
    BY DEF Pairs, Members
  <2> HIDE DEF p, q
  <2>2. Linked(p, q)
    BY <2>1 DEF LinkInv, PairsLinked
  <2>3. Settled(p, q)
    BY <2>1, <2>2, QuietIsSettled DEF Linked, Working
  <2>4. \A x, y \in Pages : Hears(x, y) => peer[x][y].candidate
    <3> SUFFICES ASSUME NEW x \in Pages, NEW y \in Pages, peer[x][y] # None PROVE ~ OnItsWay(x, y)
      BY DEF Hears
    <3>1. inbox[x] = <<>> /\ peer[x][y].queue = <<>> /\ ~ Gathers(peer[y][x])
      BY DEF Quiet, Gathers
    <3> QED
      BY <3>1, NoneEmpty DEF OnItsWay
  <2> QED
    BY <2>1, <2>3, <2>4 DEF Settled, Met, p, q
<1> QED
  BY <1>1, InitLinkInv, LinkInvStep, PTL DEF Spec

-----------------------------------------------------------------------------
(* One at a time: of two pages at most one has something to do in their    *)
(* negotiation, a step to take or a message to read, and only one thing.   *)

Rest(p, q) == Calm(peer[p][q]) /\ Silent(p, q)

One(p, q) ==
  \/ Calm(peer[p][q]) /\ \E m \in Signals(q) : OneOf(inbox[p], Signals(q), {}, m)
  \/ Silent(p, q) /\ Current(peer[p][q]) # {}

InTurn(p, q) == (Rest(p, q) \/ One(p, q)) /\ (Rest(q, p) \/ One(q, p)) /\ (Rest(p, q) \/ Rest(q, p))

InTurns == \A p, q \in Pages : p # q => InTurn(p, q)

(* What adds nothing to do. *)
BoxKept(s, s2, q) ==
  /\ NoneOf(s, Signals(q)) => NoneOf(s2, Signals(q))
  /\ \A m \in Signals(q) : OneOf(s, Signals(q), {}, m) =>
       NoneOf(s2, Signals(q)) \/ OneOf(s2, Signals(q), {}, m)

StepsKept(pc, pc2) ==
  /\ Calm(pc) => Calm(pc2)
  /\ Current(pc) # {} => Calm(pc2) \/ Current(pc2) # {}

EndKept(p, q) == (Rest(p, q) => Rest(p, q)') /\ (One(p, q) => Rest(p, q)' \/ One(p, q)')

LEMMA EndFrame ==
  ASSUME NEW p, NEW q, BoxKept(inbox[p], inbox'[p], q), StepsKept(peer[p][q], peer'[p][q])
  PROVE  EndKept(p, q)
BY DEF BoxKept, StepsKept, EndKept, Rest, One, Silent

LEMMA BoxSame == ASSUME NEW s, NEW q PROVE BoxKept(s, s, q)
BY DEF BoxKept

LEMMA BoxEmpty == ASSUME NEW s, NEW q PROVE BoxKept(s, <<>>, q)
BY NoneEmpty DEF BoxKept

LEMMA BoxAppend ==
  ASSUME NEW s \in Seq(Messages), NEW m \in Messages, NEW q, m \notin Signals(q)
  PROVE  BoxKept(s, Append(s, m), q)
BY NoneAppend, OneAppend DEF BoxKept

LEMMA BoxFront ==
  ASSUME NEW s \in Seq(Messages), NEW m \in Messages, NEW q, m \notin Signals(q)
  PROVE  BoxKept(s, <<m>> \o s, q)
BY NoneFront, OneFront DEF BoxKept

LEMMA BoxTail ==
  ASSUME NEW s \in Seq(Messages), s # <<>>, NEW q
  PROVE  BoxKept(s, Tail(s), q)
BY NoneTail, OneTail DEF BoxKept

LEMMA StepsSame == ASSUME NEW pc PROVE StepsKept(pc, pc)
BY DEF StepsKept

LEMMA StepsNone == ASSUME NEW pc PROVE StepsKept(pc, None)
BY DEF StepsKept, Calm

LEMMA StepsLike ==
  ASSUME NEW pc \in PeerOK, NEW pc2 \in PeerOK, Kept(pc, pc2) PROVE StepsKept(pc, pc2)
BY KeptCalm DEF StepsKept, Kept

(* Only what is between p and the pages of S need be looked at. *)
LEMMA TurnsFrame ==
  ASSUME InTurns, NEW p \in Pages, NEW S,
         \A x, y \in Pages : x # y /\ ~ (x = p /\ y \in S) /\ ~ (y = p /\ x \in S) => EndKept(x, y),
         \A q \in Pages \ {p} : q \in S => InTurn(p, q)'
  PROVE  InTurns'
<1> SUFFICES ASSUME NEW x \in Pages, NEW y \in Pages, x # y PROVE InTurn(x, y)'
  BY DEF InTurns
<1>1. CASE x = p /\ y \in S
  BY <1>1
<1>2. CASE y = p /\ x \in S
  <2>1. InTurn(y, x)'
    BY <1>2
  <2> QED
    BY <2>1 DEF InTurn
<1>3. CASE ~ (x = p /\ y \in S) /\ ~ (y = p /\ x \in S)
  <2>1. EndKept(x, y) /\ EndKept(y, x) /\ InTurn(x, y)
    BY <1>3 DEF InTurns
  <2> QED
    BY <2>1 DEF InTurn, EndKept
<1> QED
  BY <1>1, <1>2, <1>3

LEMMA NothingBegun ==
  ASSUME InTurns, \A x, y \in Pages : x # y => EndKept(x, y) PROVE InTurns'
BY DEF InTurns, InTurn, EndKept

(* Who has a step to take has nothing else, and the other nothing at all.  *)
LEMMA Acting ==
  ASSUME TypeInv, NEW p \in Pages, NEW q \in Pages, InTurn(p, q),
         NEW op \in StepOps, op \in Pending(peer[p][q])
  PROVE  op \in Current(peer[p][q]) /\ Silent(p, q) /\ Rest(q, p)
<1>1. peer[p][q] \in PeerOK
  BY LinkTypes
<1>2. ~ Calm(peer[p][q])
  BY <1>1, PendingOps
<1>3. Silent(p, q) /\ Current(peer[p][q]) # {} /\ Rest(q, p)
  BY <1>2 DEF InTurn, One, Rest
<1> QED
  BY <1>1, <1>3, CurrentOnly

(* Whoever is to read a step has nothing else, and the other nothing.      *)
LEMMA Reading ==
  ASSUME TypeInv, NEW p \in Pages, NEW q \in Pages, InTurn(p, q), inbox[p] # <<>>,
         Head(inbox[p]) \in Signals(q)
  PROVE  Calm(peer[p][q]) /\ NoneOf(Tail(inbox[p]), Signals(q)) /\ Rest(q, p)
<1>1. inbox[p] \in Seq(Messages)
  BY LinkTypes
<1>2. ~ Silent(p, q)
  BY <1>1, NoneTail DEF Silent
<1>3. PICK m \in Signals(q) : OneOf(inbox[p], Signals(q), {}, m)
  BY <1>2 DEF InTurn, One, Rest
<1>4. NoneOf(Tail(inbox[p]), Signals(q))
  BY <1>1, <1>3, OneTail
<1> QED
  BY <1>2, <1>4 DEF InTurn, One, Rest

(* An offer begins. *)
LEMMA TurnBegun ==
  ASSUME TypeInv, TypeInv', NEW p \in Pages, NEW q \in Pages, ~ Busy(p, q), ~ Busy(q, p),
         NEW op \in StepOps, peer'[p][q] = Asked(peer[p][q], op), peer'[q][p] = peer[q][p],
         BoxKept(inbox[p], inbox'[p], q), BoxKept(inbox[q], inbox'[q], p)
  PROVE  InTurn(p, q)'
<1>1. Rest(p, q) /\ Rest(q, p)
  BY NotBusy DEF Rest
<1>2. op \in Current(peer'[p][q])
  <2>1. peer[p][q] \in PeerOK
    BY LinkTypes
  <2> QED
    BY <1>1, <2>1, AskedStep DEF Rest
<1>3. Silent(p, q)' /\ Rest(q, p)'
  BY <1>1 DEF Rest, Silent, BoxKept
<1> QED
  BY <1>2, <1>3 DEF InTurn, One

LEMMA JoinTurn ==
  ASSUME InTurns, UNCHANGED <<inbox, peer>> PROVE InTurns'
<1>1. \A x, y : EndKept(x, y)
  BY BoxSame, StepsSame, EndFrame
<1> QED
  BY <1>1, NothingBegun

LEMMA WelcomeTurn ==
  ASSUME LinkInv, TypeInv', InTurns, NEW p \in Pages, Welcome(p) PROVE InTurns'
<1>1. PICK list \in SetToSeqs(Members \ {p}) :
        inbox' = [inbox EXCEPT ![p] = <<Message("welcome", p, list)>> \o inbox[p]]
  BY DEF Welcome, LinkInv, TypeInv, TypeOK
<1> DEFINE m == Message("welcome", p, list)
<1>2. peer' = peer /\ \A x \in Pages \ {p} : inbox'[x] = inbox[x]
  BY <1>1 DEF Welcome, LinkInv, TypeInv, TypeOK
<1>3. inbox'[p] = <<m>> \o inbox[p] /\ inbox[p] \in Seq(Messages)
  BY <1>1, LinkTypes DEF LinkInv, TypeInv, TypeOK
<1>4. m \in Messages
  <2>1. inbox'[p] \in Seq(Messages)
    BY LinkTypesNext
  <2> HIDE DEF m
  <2>2. inbox'[p][1] = m /\ 1 \in DOMAIN inbox'[p]
    BY <1>3, FrontElement
  <2> QED
    BY <2>1, <2>2
<1>5. \A q : m \notin Signals(q)
  BY DEF Message, Signals
<1> HIDE DEF m
<1>6. \A q : BoxKept(inbox[p], inbox'[p], q)
  BY <1>3, <1>4, <1>5, BoxFront
<1>7. \A x, y \in Pages : EndKept(x, y)
  BY <1>2, <1>6, BoxSame, StepsSame, EndFrame
<1> QED
  BY <1>7, NothingBegun

LEMMA DepartTurn ==
  ASSUME LinkInv, InTurns, NEW p \in Pages, Leave(p) \/ Drop(p) PROVE InTurns'
<1> DEFINE m == Message("peer-left", p, None)
<1>1. /\ inbox'[p] = <<>>
      /\ \A x \in Pages \ {p} : inbox'[x] = inbox[x] \/ inbox'[x] = Append(inbox[x], m)
  BY DEF Leave, Drop, Depart
<1>2. /\ \A x \in Pages \ {p} : peer'[x] = peer[x]
      /\ \A y \in Pages : peer'[p][y] = peer[p][y] \/ peer'[p][y] = None
  BY DEF Leave, Drop, LinkInv, TypeInv, TypeOK
<1>3. m \in Messages
  BY MessageType
<1>4. \A q : m \notin Signals(q)
  BY DEF Message, Signals
<1> HIDE DEF m
<1>5. ASSUME NEW x \in Pages, NEW y \in Pages PROVE BoxKept(inbox[x], inbox'[x], y)
  <2>1. inbox[x] \in Seq(Messages)
    BY LinkTypes DEF LinkInv
  <2> QED
    BY <1>1, <1>3, <1>4, <2>1, BoxSame, BoxEmpty, BoxAppend
<1>6. ASSUME NEW x \in Pages, NEW y \in Pages PROVE StepsKept(peer[x][y], peer'[x][y])
  BY <1>2, StepsSame, StepsNone
<1>7. \A x, y \in Pages : EndKept(x, y)
  BY <1>5, <1>6, EndFrame
<1> QED
  BY <1>7, NothingBegun

(* Nobody is busy when an offer begins, if nothing is spoilt by it.        *)
LEMMA BegunIdle ==
  ASSUME NEW p, NEW S, Begins(p, S), ~ Spoilt'
  PROVE  \A q \in S : ~ Busy(p, q) /\ ~ Busy(q, p)
BY DEF Begins, Spoilt

LEMMA RenegotiateTurn ==
  ASSUME LinkInv, TypeInv', InTurns, ~ Spoilt', NEW p \in Pages, Renegotiate(p) PROVE InTurns'
<1> DEFINE ready == {q \in Pages : peer[p][q] # None /\ SignalingState(peer[p][q], p) = "stable"}
           op == Op("createOffer", None, <<>>)
<1>1. /\ UNCHANGED inbox /\ Begins(p, ready)
      /\ peer' = [peer EXCEPT ![p] = [q \in Pages |->
                    IF q \in ready THEN Asked(peer[p][q], op) ELSE peer[p][q]]]
  BY DEF Renegotiate, LinkInv, TypeInv, TypeOK
<1>2. ready \subseteq Pages
  OBVIOUS
<1>3. op \in StepOps
  <2>1. op \in Ops
    BY EmptySeq, OpType
  <2> QED
    BY <2>1 DEF StepOps, Op
<1> HIDE DEF ready, op
<1>4. /\ \A q \in ready : peer'[p][q] = Asked(peer[p][q], op)
      /\ \A q \in Pages \ ready : peer'[p][q] = peer[p][q]
      /\ \A x \in Pages \ {p} : peer'[x] = peer[x]
  BY <1>1, <1>2 DEF LinkInv, TypeInv, TypeOK
<1>5. \A q \in ready : ~ Busy(p, q) /\ ~ Busy(q, p)
  BY <1>1, BegunIdle
<1>6. ASSUME NEW q \in Pages \ {p}, q \in ready PROVE InTurn(p, q)'
  BY <1>1, <1>3, <1>4, <1>5, <1>6, BoxSame, TurnBegun DEF LinkInv
<1>7. ASSUME NEW x \in Pages, NEW y \in Pages, x # y, ~ (x = p /\ y \in ready) PROVE EndKept(x, y)
  BY <1>1, <1>4, <1>7, BoxSame, StepsSame, EndFrame
<1> QED
  BY <1>6, <1>7, TurnsFrame

LEMMA ReceiveTurn ==
  ASSUME LinkInv, TypeInv', InTurns, ~ Spoilt', NEW p \in Pages, Receive(p) PROVE InTurns'
<1> DEFINE m == Head(inbox[p])
<1>1. \/ handleWelcome(p, m) \/ handlePeerLeft(p, m)
      \/ handleOffer(p, m) \/ handleAnswer(p, m) \/ handleICECandidate(p, m)
  BY DEF Receive
<1>2. m = Head(inbox[p])
  OBVIOUS
<1> HIDE DEF m
<1>3. /\ inbox[p] \in Seq(Messages) /\ inbox[p] # <<>> /\ inbox'[p] = Tail(inbox[p])
      /\ m \in Messages /\ \A x \in Pages \ {p} : inbox'[x] = inbox[x]
      /\ IF m.type = "welcome" THEN p \notin ToSet(m.body) ELSE m.from # p
  BY <1>2, ReadFacts
<1>4. \A x, y \in Pages : BoxKept(inbox[x], inbox'[x], y)
  BY <1>3, BoxSame, BoxTail
<1>5. ASSUME handleWelcome(p, m) PROVE InTurns'
  <2> DEFINE list == m.body
             op == Op("createOffer", None, Tail(list))
  <2>1. peer' = [peer EXCEPT ![p] = Turn(peer[p], list)] /\ Begins(p, First(list)) /\ list \in Seq(Pages)
    BY <1>3, <1>5, MessageFields DEF handleWelcome, LinkInv, TypeInv, TypeOK
  <2> HIDE DEF list
  <2>2. /\ \A x \in Pages \ {p} : peer'[x] = peer[x]
        /\ \A y \in Pages : peer'[p][y] = IF y \in First(list) THEN Asked(peer[p][y], op) ELSE peer[p][y]
    BY <2>1 DEF Turn, LinkInv, TypeInv, TypeOK
  <2>3. First(list) # {} => op \in StepOps
    <3> SUFFICES ASSUME list # <<>> PROVE op \in StepOps
      BY DEF First
    <3>1. Tail(list) \in Seq(Pages)
      BY <2>1, HeadTailProperties
    <3>2. op \in Ops
      BY <3>1, OpType
    <3> QED
      BY <3>2 DEF StepOps, Op
  <2> HIDE DEF op
  <2>4. ASSUME NEW q \in Pages \ {p}, q \in First(list) PROVE InTurn(p, q)'
    BY <1>4, <2>1, <2>2, <2>3, <2>4, BegunIdle, TurnBegun DEF LinkInv
  <2>5. ASSUME NEW x \in Pages, NEW y \in Pages, x # y, ~ (x = p /\ y \in First(list))
        PROVE  EndKept(x, y)
    BY <1>4, <2>2, <2>5, StepsSame, EndFrame
  <2> QED
    BY <2>4, <2>5, TurnsFrame
<1>6. ASSUME handlePeerLeft(p, m) PROVE InTurns'
  <2>1. /\ \A x \in Pages \ {p} : peer'[x] = peer[x]
        /\ \A y \in Pages : peer'[p][y] = peer[p][y] \/ peer'[p][y] = None
    BY <1>6 DEF handlePeerLeft, LinkInv, TypeInv, TypeOK
  <2>2. \A x, y \in Pages : EndKept(x, y)
    BY <1>4, <2>1, StepsSame, StepsNone, EndFrame
  <2> QED
    BY <2>2, NothingBegun
<1>7. ASSUME m.type \in {"offer", "answer"}, Asks(p, m.from, "setRemote", m.body) PROVE InTurns'
  <2> DEFINE op == Op("setRemote", m.body, <<>>)
  <2>0. PICK q \in Pages : q = m.from
    BY <1>3, MessageFields
  <2>1. q # p /\ m.body \in Descriptions /\ m \in Signals(q)
    BY <1>3, <1>7, <2>0, MessageFields DEF Signals
  <2>2. op \in Ops /\ op \in StepOps
    BY <2>1, OpType DEF Op, StepOps
  <2>3. /\ peer'[p][q] = Asked(peer[p][q], op) /\ peer[p][q] \in PeerOK
        /\ \A y \in Pages \ {q} : peer'[p][y] = peer[p][y]
        /\ \A x \in Pages \ {p} : peer'[x] = peer[x]
    BY <1>7, <2>0, <2>1, <2>2, AsksFields
  <2> HIDE DEF op
  <2>4. Calm(peer[p][q]) /\ NoneOf(inbox'[p], Signals(q)) /\ Rest(q, p)
    BY <1>2, <1>3, <2>1, Reading DEF LinkInv, InTurns
  <2>5. op \in Current(peer'[p][q])
    BY <2>2, <2>3, <2>4, AskedStep
  <2>6. One(p, q)' /\ Rest(q, p)'
    BY <1>3, <2>1, <2>3, <2>4, <2>5 DEF One, Rest, Silent
  <2>7. ASSUME NEW r \in Pages \ {p}, r \in {q} PROVE InTurn(p, r)'
    BY <2>6, <2>7 DEF InTurn
  <2>8. ASSUME NEW x \in Pages, NEW y \in Pages, x # y, ~ (x = p /\ y \in {q}) PROVE EndKept(x, y)
    BY <1>4, <2>3, <2>8, StepsSame, EndFrame
  <2> QED
    BY <2>7, <2>8, TurnsFrame
<1>8. ASSUME handleAnswer(p, m), UNCHANGED peer PROVE InTurns'
  <2>1. \A x, y \in Pages : EndKept(x, y)
    BY <1>4, <1>8, StepsSame, EndFrame
  <2> QED
    BY <2>1, NothingBegun
<1>9. ASSUME handleICECandidate(p, m) PROVE InTurns'
  <2> DEFINE q == m.from
             op == Op("addCandidate", None, <<>>)
  <2>1. q \in Pages /\ q # p
    BY <1>3, <1>9, MessageFields DEF handleICECandidate
  <2>2. op \in Ops /\ op \notin StepOps
    BY OpType DEF Op, StepOps
  <2>3. /\ peer'[p][q] = Asked(peer[p][q], op) /\ peer[p][q] \in PeerOK
        /\ \A y \in Pages \ {q} : peer'[p][y] = peer[p][y]
        /\ \A x \in Pages \ {p} : peer'[x] = peer[x]
    BY <1>9, <2>1, <2>2, AsksFields DEF handleICECandidate
  <2> HIDE DEF q, op
  <2>4. StepsKept(peer[p][q], peer'[p][q])
    BY <2>2, <2>3, KeptAsked, AskedFields, StepsLike
  <2>5. \A x, y \in Pages : EndKept(x, y)
    BY <1>4, <2>3, <2>4, StepsSame, EndFrame
  <2> QED
    BY <2>5, NothingBegun
<1> QED
  BY <1>1, <1>5, <1>6, <1>7, <1>8, <1>9 DEF handleOffer, handleAnswer

(* A connection of p to q changes as it may, and sends no step.            *)
LEMMA QuietTurn ==
  ASSUME LinkInv, InTurns, NEW p \in Pages, NEW q \in Pages, NEW pc, Becomes(p, q, pc),
         StepsKept(peer[p][q], pc), UNCHANGED inbox \/ Send(p, q, "ice-candidate", None)
  PROVE  InTurns'
<1>1. /\ peer'[p][q] = pc /\ \A y \in Pages \ {q} : peer'[p][y] = peer[p][y]
      /\ \A x \in Pages \ {p} : peer'[x] = peer[x]
  BY DEF Becomes, LinkInv, TypeInv, TypeOK
<1> DEFINE m == Message("ice-candidate", p, None)
<1>2. \A x \in Pages : inbox'[x] = inbox[x] \/ inbox'[x] = Append(inbox[x], m)
  BY DEF Send, LinkInv, TypeInv, TypeOK
<1>3. m \in Messages
  BY MessageType
<1>4. \A y : m \notin Signals(y)
  BY DEF Message, Signals
<1> HIDE DEF m
<1>5. ASSUME NEW x \in Pages, NEW y \in Pages PROVE BoxKept(inbox[x], inbox'[x], y)
  <2>1. inbox[x] \in Seq(Messages)
    BY LinkTypes DEF LinkInv
  <2> QED
    BY <1>2, <1>3, <1>4, <2>1, BoxSame, BoxAppend
<1>6. \A x, y \in Pages : EndKept(x, y)
  BY <1>1, <1>5, StepsSame, EndFrame
<1> QED
  BY <1>6, NothingBegun

LEMMA ReadyTurn ==
  ASSUME LinkInv, TypeInv', InTurns, NEW p \in Pages, NEW q \in Pages, SendersReady(p, q)
  PROVE  InTurns'
<1> DEFINE pc == peer[p][q]
<1>1. pc # None /\ pc \in PeerOK /\ UNCHANGED inbox
  BY LinkTypes DEF SendersReady, LinkInv
<1>2. PICK op \in pc.waiting :
        Becomes(p, q, [pc EXCEPT !.waiting = {}, !.heard = TRUE, !.queue = Append(@, op)])
  BY DEF SendersReady
<1> DEFINE pc2 == [pc EXCEPT !.waiting = {}, !.heard = TRUE, !.queue = Append(@, op)]
<1>3. /\ pc2.waiting = {} /\ pc2.queue = Append(pc.queue, op)
      /\ pc2.offer = pc.offer /\ pc2.local = pc.local /\ pc2.remote = pc.remote
      /\ pc2.heard /\ pc2.candidate = pc.candidate /\ pc2.gathering = pc.gathering
      /\ pc2 \in Peers
  <2>1. pc \in Peers /\ op \in Ops /\ Append(pc.queue, op) \in Seq(Ops)
    BY <1>1, PeerFields
  <2> QED
    BY <2>1 DEF Peers
<1> HIDE DEF pc2
<1>4. peer'[p][q] = pc2
  BY <1>2 DEF Becomes, LinkInv, TypeInv, TypeOK, pc2
<1>5. pc2 \in PeerOK /\ pc2 # None
  BY <1>3, <1>4, LinkTypesNext, NoneAssumption
<1>6. StepsKept(pc, pc2)
  BY <1>1, <1>3, <1>5, KeptReady, StepsLike
<1>7. Becomes(p, q, pc2)
  BY <1>2 DEF pc2
<1> QED
  BY <1>1, <1>6, <1>7, QuietTurn

LEMMA GatheredTurn ==
  ASSUME LinkInv, InTurns, NEW p \in Pages, NEW q \in Pages, Gathered(p, q)
  PROVE  InTurns'
<1> DEFINE pc == peer[p][q]
           pc2 == [pc EXCEPT !.gathering = "complete"]
<1>1. pc # None /\ pc \in PeerOK /\ Becomes(p, q, pc2)
      /\ (UNCHANGED inbox \/ Send(p, q, "ice-candidate", None))
  BY LinkTypes DEF Gathered, LinkInv
<1>2. pc2 # None /\ pc2.waiting = pc.waiting /\ pc2.queue = pc.queue
  BY <1>1, NoneAssumption DEF PeerOK, Peers
<1> HIDE DEF pc2
<1>3. Pending(pc2) = Pending(pc) /\ (Calm(pc) => Calm(pc2)) /\ Current(pc) = Current(pc2)
  BY <1>1, <1>2 DEF Pending, Calm, Current, HasOnly
<1> QED
  BY <1>1, <1>3, QuietTurn DEF StepsKept

LEMMA CandidateTurn ==
  ASSUME LinkInv, TypeInv', InTurns, NEW p \in Pages, NEW q \in Pages, AddCandidate(p, q)
  PROVE  InTurns'
<1> DEFINE pc == peer[p][q]
           fits == pc.candidate \/ pc.remote # None \/ SignalingState(pc, p) = "have-remote-offer"
           pc2 == [Done(pc) EXCEPT !.candidate = fits]
<1>1. IsNext(p, q, "addCandidate") /\ UNCHANGED inbox /\ Becomes(p, q, pc2)
  BY DEF AddCandidate, Done
<1>2. /\ pc \in PeerOK /\ pc # None /\ pc.queue # <<>>
      /\ Head(pc.queue) \in Ops /\ Head(pc.queue).do = "addCandidate" /\ pc \in Peers
      /\ Done(pc) \in Peers /\ Done(pc).waiting = pc.waiting /\ Done(pc).queue = Tail(pc.queue)
      /\ Done(pc).offer = pc.offer /\ Done(pc).local = pc.local /\ Done(pc).remote = pc.remote
      /\ Done(pc).heard = pc.heard /\ Done(pc).candidate = pc.candidate
      /\ Done(pc).gathering = pc.gathering
  BY <1>1, NextFacts
<1>3. fits \in BOOLEAN /\ (pc.candidate => fits)
  BY <1>2 DEF Peers
<1> HIDE DEF fits
<1>4. /\ pc2 \in Peers /\ pc2.waiting = pc.waiting /\ pc2.queue = Tail(pc.queue)
      /\ pc2.offer = pc.offer /\ pc2.local = pc.local /\ pc2.remote = pc.remote
      /\ pc2.heard = pc.heard /\ (pc.candidate => pc2.candidate) /\ pc2.gathering = pc.gathering
  BY <1>2, <1>3 DEF Peers
<1>5. peer'[p][q] = pc2
  BY <1>1 DEF Becomes, LinkInv, TypeInv, TypeOK
<1> HIDE DEF pc2
<1>6. pc2 \in PeerOK /\ pc2 # None
  BY <1>4, <1>5, LinkTypesNext, NoneAssumption
<1>7. Head(pc.queue) \notin StepOps /\ Head(pc.queue).rest = <<>>
  BY <1>2, OpFields DEF StepOps
<1>8. Kept(pc, pc2)
  BY <1>2, <1>4, <1>6, <1>7, KeptTail
<1> QED
  BY <1>1, <1>2, <1>6, <1>8, StepsLike, QuietTurn

(* The step a connection is at is done, and another may follow on it.      *)
LEMMA OperationTurn ==
  ASSUME LinkInv, TypeInv', InTurns, NEW p \in Pages, NEW q \in Pages,
         NEW do, do # "addCandidate", IsNext(p, q, do), UNCHANGED inbox,
         NEW pc2, Becomes(p, q, pc2), pc2.waiting = peer[p][q].waiting,
         \/ pc2.queue = Tail(peer[p][q].queue)
         \/ \E op \in StepOps : pc2.queue = Append(Tail(peer[p][q].queue), op)
  PROVE  InTurns'
<1> DEFINE pc == peer[p][q]
           head == Head(pc.queue)
<1>1. pc \in PeerOK /\ pc # None /\ pc.queue # <<>> /\ head \in StepOps /\ head \in Pending(pc) /\ p # q
  BY NextFacts
<1>2. peer'[p][q] = pc2
  BY DEF Becomes, LinkInv, TypeInv, TypeOK
<1>3. pc2 \in PeerOK
  BY <1>2, LinkTypesNext
<1>4. head \in Current(pc)
  BY <1>1, Acting DEF LinkInv, InTurns
<1>5. Calm(pc2) \/ Current(pc2) # {}
  <2>1. CASE pc2 = None
    BY <2>1 DEF Calm
  <2>2. CASE pc2 # None /\ pc2.queue = Tail(pc.queue)
    BY <1>1, <1>3, <1>4, <2>2, TailPending
  <2>3. CASE pc2 # None /\ \E op \in StepOps : pc2.queue = Append(Tail(pc.queue), op)
    BY <1>1, <1>3, <1>4, <2>3, ThenPending
  <2> QED
    BY <2>1, <2>2, <2>3
<1>6. ~ Calm(pc)
  BY <1>1, <1>4, CurrentOnly
<1> QED
  BY <1>5, <1>6, QuietTurn DEF StepsKept

LEMMA CreateOfferTurn ==
  ASSUME LinkInv, TypeInv', InTurns, NEW p \in Pages, NEW q \in Pages, CreateOffer(p, q)
  PROVE  InTurns'
<1> DEFINE pc == peer[p][q]
           head == Head(pc.queue)
           desc == Description("offer", p, made'[p], pc)
           op == Op("setLocal", desc, head.rest)
<1>1. /\ IsNext(p, q, "createOffer") /\ UNCHANGED inbox
      /\ Becomes(p, q, Done(pc)) \/ Becomes(p, q, Then(pc, "setLocal", desc, head.rest))
  BY DEF CreateOffer
<1>2. /\ pc \in Peers /\ head \in Ops /\ head.do = "createOffer" /\ Done(pc) # None
      /\ Done(pc).waiting = pc.waiting /\ Done(pc).queue = Tail(pc.queue)
  BY <1>1, NextFacts
<1>3. op \in StepOps
  <2>1. made'[p] \in Nat
    BY DEF TypeInv, TypeOK
  <2>2. desc \in Described("offer") /\ head.rest \in Seq(Pages)
    BY <1>2, <2>1, DescriptionType, OpFields
  <2>3. op \in Ops
    BY <2>2, OpType
  <2> QED
    BY <2>3 DEF StepOps, Op
<1> HIDE DEF desc
<1>4. /\ Then(pc, "setLocal", desc, head.rest).waiting = pc.waiting
      /\ Then(pc, "setLocal", desc, head.rest).queue = Append(Tail(pc.queue), op)
  BY <1>2 DEF Then, Peers
<1> HIDE DEF op, head
<1> QED
  BY <1>1, <1>2, <1>3, <1>4, OperationTurn DEF head

LEMMA CreateAnswerTurn ==
  ASSUME LinkInv, TypeInv', InTurns, NEW p \in Pages, NEW q \in Pages, CreateAnswer(p, q)
  PROVE  InTurns'
<1> DEFINE pc == peer[p][q]
           desc == Description("answer", p, pc.offer.n, pc)
           op == Op("setLocal", desc, <<>>)
<1>1. /\ IsNext(p, q, "createAnswer") /\ UNCHANGED inbox
      /\ \/ Becomes(p, q, Done(pc))
         \/ Becomes(p, q, Then(pc, "setLocal", desc, <<>>)) /\ SignalingState(pc, p) = "have-remote-offer"
  BY DEF CreateAnswer
<1>2. /\ pc \in Peers /\ Done(pc) # None
      /\ Done(pc).waiting = pc.waiting /\ Done(pc).queue = Tail(pc.queue)
  BY <1>1, NextFacts
<1>3. SignalingState(pc, p) = "have-remote-offer" => op \in StepOps
  <2> SUFFICES ASSUME SignalingState(pc, p) = "have-remote-offer" PROVE op \in StepOps
    OBVIOUS
  <2>1. pc.offer \in Descriptions
    BY <1>2, DescriptionKinds DEF SignalingState, Peers
  <2>2. desc \in Described("answer")
    BY <1>2, <2>1, DescriptionParts, DescriptionType
  <2>3. op \in Ops
    BY <2>2, OpType
  <2> QED
    BY <2>3 DEF StepOps, Op
<1> HIDE DEF desc
<1>4. /\ Then(pc, "setLocal", desc, <<>>).waiting = pc.waiting
      /\ Then(pc, "setLocal", desc, <<>>).queue = Append(Tail(pc.queue), op)
  BY <1>2 DEF Then, Peers
<1> HIDE DEF op
<1> QED
  BY <1>1, <1>2, <1>3, <1>4, OperationTurn

LEMMA SetRemoteTurn ==
  ASSUME LinkInv, TypeInv', InTurns, NEW p \in Pages, NEW q \in Pages, SetRemote(p, q)
  PROVE  InTurns'
<1> DEFINE pc == peer[p][q]
           desc == Head(pc.queue).desc
           then == Then(pc, "createAnswer", None, <<>>)
           op == Op("createAnswer", None, <<>>)
           asked == [then EXCEPT !.offer = desc, !.candidate = @ \/ desc.found]
           settled == [Done(pc) EXCEPT !.offer = None, !.local = pc.offer, !.remote = desc,
                                       !.candidate = @ \/ desc.found]
<1>1. /\ IsNext(p, q, "setRemote") /\ UNCHANGED inbox
      /\ Becomes(p, q, CASE desc.type = "offer" -> asked
                         [] desc.type = "answer" /\ SignalingState(pc, p) = "have-local-offer" -> settled
                         [] OTHER -> Done(pc))
  BY DEF SetRemote
<1>2. op \in Ops /\ op \in StepOps
  BY OpType DEF StepOps, Op
<1>3. /\ pc \in Peers /\ Done(pc) # None /\ Done(pc) \in Peers
      /\ Done(pc).waiting = pc.waiting /\ Done(pc).queue = Tail(pc.queue) /\ then \in Peers
  BY <1>1, <1>2, NextFacts
<1>4. then.waiting = pc.waiting /\ then.queue = Append(Tail(pc.queue), op)
  BY <1>3 DEF Then, Peers
<1> DEFINE now == CASE desc.type = "offer" -> asked
                    [] desc.type = "answer" /\ SignalingState(pc, p) = "have-local-offer" -> settled
                    [] OTHER -> Done(pc)
<1>5. /\ asked.waiting = pc.waiting /\ asked.queue = Append(Tail(pc.queue), op)
      /\ settled.waiting = pc.waiting /\ settled.queue = Tail(pc.queue)
  BY <1>3, <1>4 DEF Peers
<1> HIDE DEF then, asked, settled, desc, op
<1>6. now.waiting = pc.waiting /\ (now.queue = Tail(pc.queue) \/ now.queue = Append(Tail(pc.queue), op))
  BY <1>3, <1>5
<1> HIDE DEF now
<1>7. Becomes(p, q, now)
  BY <1>1 DEF now
<1> QED
  BY <1>1, <1>2, <1>6, <1>7, OperationTurn

(* The step is done, and its outcome is sent. *)
LEMMA SentTurn ==
  ASSUME LinkInv, TypeInv', InTurns, NEW p \in Pages, NEW q \in Pages, IsNext(p, q, "setLocal"),
         peer'[p][q].waiting = peer[p][q].waiting, peer'[p][q].queue = Tail(peer[p][q].queue),
         peer'[q][p] = peer[q][p], inbox'[p] = inbox[p],
         NEW m \in Signals(p), inbox'[q] = inbox[q] \/ inbox'[q] = Append(inbox[q], m)
  PROVE  InTurn(p, q)'
<1> DEFINE pc == peer[p][q]
           op == Head(pc.queue)
<1>1. pc \in PeerOK /\ pc # None /\ pc.queue # <<>> /\ op \in StepOps /\ op \in Pending(pc) /\ p # q
  BY NextFacts
<1>2. op \in Current(pc) /\ Silent(p, q) /\ Rest(q, p)
  BY <1>1, Acting DEF LinkInv, InTurns
<1>3. Calm(peer'[p][q])
  <2>1. CASE peer'[p][q] = None
    BY <2>1 DEF Calm
  <2>2. CASE peer'[p][q] # None
    BY <1>1, <1>2, <2>2, TailPending, LinkTypesNext
  <2> QED
    BY <2>1, <2>2
<1>4. Rest(p, q)'
  BY <1>2, <1>3 DEF Rest, Silent
<1>5. Rest(q, p)' \/ One(q, p)'
  <2>1. CASE inbox'[q] = inbox[q]
    BY <1>2, <2>1 DEF Rest, Silent
  <2>2. CASE inbox'[q] = Append(inbox[q], m)
    <3>1. inbox[q] \in Seq(Messages) /\ m \in Messages /\ NoneOf(inbox[q], Signals(p))
      BY <1>2, LinkTypes DEF LinkInv, Signals, Rest, Silent
    <3>2. OneOf(inbox'[q], Signals(p), {}, m)
      BY <2>2, <3>1, OneNew
    <3>3. Calm(peer'[q][p])
      BY <1>2 DEF Rest
    <3> QED
      BY <3>2, <3>3 DEF One
  <2> QED
    BY <2>1, <2>2
<1> QED
  BY <1>4, <1>5 DEF InTurn

(* What p sends to q is seen by nobody else. *)
LEMMA SentElsewhere ==
  ASSUME LinkInv, NEW p \in Pages, NEW q \in Pages, p # q, NEW t \in {"offer", "answer"}, NEW body,
         Message(t, p, body) \in Messages, Send(p, q, t, body)
  PROVE  /\ \A x \in Pages \ {q} : inbox'[x] = inbox[x]
         /\ inbox'[q] = inbox[q] \/ inbox'[q] = Append(inbox[q], Message(t, p, body))
         /\ Message(t, p, body) \in Signals(p)
         /\ \A x, y \in Pages : ~ (x = q /\ y = p) => BoxKept(inbox[x], inbox'[x], y)
<1> DEFINE m == Message(t, p, body)
<1>1. /\ \A x \in Pages \ {q} : inbox'[x] = inbox[x]
      /\ inbox'[q] = inbox[q] \/ inbox'[q] = Append(inbox[q], m)
  BY DEF Send, LinkInv, TypeInv, TypeOK
<1>2. m \in Signals(p) /\ \A y \in Pages \ {p} : m \notin Signals(y)
  BY DEF Message, Signals
<1>3. inbox[q] \in Seq(Messages) /\ m \in Messages
  BY LinkTypes DEF LinkInv
<1> HIDE DEF m
<1>4. \A x, y \in Pages : ~ (x = q /\ y = p) => BoxKept(inbox[x], inbox'[x], y)
  BY <1>1, <1>2, <1>3, BoxSame, BoxAppend
<1> QED
  BY <1>1, <1>2, <1>4 DEF m

LEMMA SetLocalTurn ==
  ASSUME LinkInv, TypeInv', InTurns, ~ Spoilt', NEW p \in Pages, NEW q \in Pages, SetLocal(p, q)
  PROVE  InTurns'
<1> DEFINE pc == peer[p][q]
           op == Head(pc.queue)
           desc == op.desc
           list == op.rest
           now == [Done(pc) EXCEPT !.gathering = IF @ = "new" THEN "gathering" ELSE @]
           offered == [now EXCEPT !.offer = desc]
           answered == [now EXCEPT !.offer = None, !.local = desc, !.remote = pc.offer]
           next == Op("createOffer", None, Tail(list))
<1>1. /\ IsNext(p, q, "setLocal")
      /\ \/ /\ desc.type = "offer"
            /\ peer' = [peer EXCEPT ![p] = Turn([peer[p] EXCEPT ![q] = offered], list)]
            /\ Begins(p, First(list)) /\ Send(p, q, "offer", desc)
         \/ desc.type = "answer" /\ Becomes(p, q, answered) /\ Send(p, q, "answer", desc)
         \/ Becomes(p, q, Done(pc)) /\ UNCHANGED inbox
  BY DEF SetLocal, LinkInv, TypeInv, TypeOK
<1>2. /\ p # q /\ pc \in Peers /\ op \in Ops /\ op.do = "setLocal" /\ op \in Pending(pc)
      /\ Done(pc) \in Peers /\ Done(pc).waiting = pc.waiting /\ Done(pc).queue = Tail(pc.queue)
  <2>1. IsNext(p, q, "setLocal")
    BY <1>1
  <2> HIDE DEF desc, list, now, offered, answered, next
  <2> QED
    BY <2>1, NextFacts
<1>3. /\ list \in Seq(Pages) /\ desc \in Descriptions
      /\ desc.type \in {"offer", "answer"} => desc \in Described(desc.type)
  BY <1>2, OpFields, DescriptionParts
<1> HIDE DEF op, desc, list
<1>4. now \in Peers /\ now.waiting = pc.waiting /\ now.queue = Tail(pc.queue)
  BY <1>2 DEF Peers
<1> HIDE DEF now
<1>5. /\ offered.waiting = pc.waiting /\ offered.queue = Tail(pc.queue)
      /\ answered.waiting = pc.waiting /\ answered.queue = Tail(pc.queue)
  BY <1>4 DEF Peers
<1> HIDE DEF offered, answered
<1>6. CASE /\ desc.type = "offer"
           /\ peer' = [peer EXCEPT ![p] = Turn([peer[p] EXCEPT ![q] = offered], list)]
           /\ Begins(p, First(list)) /\ Send(p, q, "offer", desc)
  <2> DEFINE S == {q} \cup First(list)
  <2>1. /\ \A r \in First(list) : ~ Busy(p, r) /\ ~ Busy(r, p)
        /\ q \notin First(list)
    <3>1. Busy(p, q)
      BY <1>2 DEF Busy
    <3> QED
      BY <1>6, <3>1, BegunIdle
  <2>2. /\ \A x \in Pages \ {p} : peer'[x] = peer[x]
        /\ peer'[p][q] = offered
        /\ \A r \in Pages \ {q} : peer'[p][r] =
             IF r \in First(list) THEN Asked(peer[p][r], next) ELSE peer[p][r]
    BY <1>6, <2>1 DEF Turn, LinkInv, TypeInv, TypeOK
  <2>3. First(list) # {} => next \in StepOps
    <3> SUFFICES ASSUME list # <<>> PROVE next \in StepOps
      BY DEF First
    <3>1. Tail(list) \in Seq(Pages)
      BY <1>3, HeadTailProperties
    <3>2. next \in Ops
      BY <3>1, OpType
    <3> QED
      BY <3>2 DEF StepOps, Op
  <2> HIDE DEF next
  <2>4. Message("offer", p, desc) \in Messages
    BY <1>3, <1>6, MessageType
  <2>5. /\ \A x \in Pages \ {q} : inbox'[x] = inbox[x]
        /\ inbox'[q] = inbox[q] \/ inbox'[q] = Append(inbox[q], Message("offer", p, desc))
        /\ Message("offer", p, desc) \in Signals(p)
        /\ \A x, y \in Pages : ~ (x = q /\ y = p) => BoxKept(inbox[x], inbox'[x], y)
    BY <1>2, <1>6, <2>4, SentElsewhere
  <2>6. InTurn(p, q)'
    BY <1>1, <1>2, <1>5, <2>2, <2>5, SentTurn
  <2>7. ASSUME NEW r \in Pages \ {p}, r \in S PROVE InTurn(p, r)'
    BY <1>2, <2>1, <2>2, <2>3, <2>5, <2>6, <2>7, TurnBegun DEF LinkInv
  <2>8. ASSUME NEW x \in Pages, NEW y \in Pages, x # y,
               ~ (x = p /\ y \in S), ~ (y = p /\ x \in S)
        PROVE  EndKept(x, y)
    BY <2>2, <2>5, <2>8, StepsSame, EndFrame
  <2> HIDE DEF S
  <2> QED
    BY <2>7, <2>8, TurnsFrame
<1>7. CASE desc.type = "answer" /\ Becomes(p, q, answered) /\ Send(p, q, "answer", desc)
  <2>1. /\ peer'[p][q] = answered /\ \A r \in Pages \ {q} : peer'[p][r] = peer[p][r]
        /\ \A x \in Pages \ {p} : peer'[x] = peer[x]
    BY <1>7 DEF Becomes, LinkInv, TypeInv, TypeOK
  <2>2. Message("answer", p, desc) \in Messages
    BY <1>3, <1>7, MessageType
  <2>3. /\ \A x \in Pages \ {q} : inbox'[x] = inbox[x]
        /\ inbox'[q] = inbox[q] \/ inbox'[q] = Append(inbox[q], Message("answer", p, desc))
        /\ Message("answer", p, desc) \in Signals(p)
        /\ \A x, y \in Pages : ~ (x = q /\ y = p) => BoxKept(inbox[x], inbox'[x], y)
    BY <1>2, <1>7, <2>2, SentElsewhere
  <2>4. InTurn(p, q)'
    BY <1>1, <1>2, <1>5, <2>1, <2>3, SentTurn
  <2>5. ASSUME NEW x \in Pages, NEW y \in Pages, x # y,
               ~ (x = p /\ y \in {q}), ~ (y = p /\ x \in {q})
        PROVE  EndKept(x, y)
    BY <2>1, <2>3, <2>5, StepsSame, EndFrame
  <2>6. \A r \in Pages \ {p} : r \in {q} => InTurn(p, r)'
    BY <2>4
  <2> QED
    BY <2>5, <2>6, TurnsFrame
<1>8. CASE Becomes(p, q, Done(pc)) /\ UNCHANGED inbox
  BY <1>1, <1>2, <1>8, OperationTurn
<1> QED
  BY <1>1, <1>6, <1>7, <1>8

TurnInv == LinkInv /\ (~ Spoilt => InTurns)

LEMMA TurnInvStep == TurnInv /\ [Next]_vars => TurnInv'
<1> SUFFICES ASSUME TurnInv, [Next]_vars PROVE TurnInv'
  OBVIOUS
<1>1. LinkInv' /\ TypeInv' /\ LinkInv
  BY LinkInvStep DEF TurnInv, LinkInv
<1> SUFFICES ASSUME ~ Spoilt' PROVE InTurns'
  BY <1>1 DEF TurnInv
<1>2. CASE UNCHANGED vars
  <2>1. UNCHANGED <<inbox, peer>> /\ ~ Spoilt
    BY <1>2 DEF vars, Spoilt, history
  <2> QED
    BY <2>1, JoinTurn DEF TurnInv
<1>3. ASSUME NEW p \in Pages,
             Join(p) \/ Welcome(p) \/ Leave(p) \/ Drop(p) \/ Renegotiate(p) \/ Receive(p)
      PROVE  InTurns'
  <2>1. ~ Spoilt
    BY <1>3 DEF Join, Welcome, Leave, Drop, Depart, Renegotiate, Receive, Begins, Spoilt, history,
                handleWelcome, handlePeerLeft, handleOffer, handleAnswer, handleICECandidate
  <2>2. InTurns
    BY <2>1 DEF TurnInv
  <2>3. Join(p) => UNCHANGED <<inbox, peer>>
    BY DEF Join
  <2> QED
    BY <1>1, <1>3, <2>2, <2>3, JoinTurn, WelcomeTurn, DepartTurn, RenegotiateTurn, ReceiveTurn
<1>4. ASSUME NEW p \in Pages, NEW q \in Pages,
             \/ SendersReady(p, q) \/ Gathered(p, q)
             \/ CreateOffer(p, q) \/ CreateAnswer(p, q) \/ SetLocal(p, q)
             \/ SetRemote(p, q) \/ AddCandidate(p, q)
      PROVE  InTurns'
  <2>1. ~ Spoilt
    BY <1>4 DEF SendersReady, Gathered, CreateOffer, CreateAnswer, SetLocal, SetRemote, AddCandidate,
                Begins, Spoilt, history
  <2>2. InTurns
    BY <2>1 DEF TurnInv
  <2> QED
    BY <1>1, <1>4, <2>2, ReadyTurn, GatheredTurn, CreateOfferTurn, CreateAnswerTurn, SetLocalTurn,
       SetRemoteTurn, CandidateTurn
<1> QED
  BY <1>2, <1>3, <1>4 DEF Next, AtRest

LEMMA InitTurnInv == Init => TurnInv
<1> SUFFICES ASSUME Init PROVE TurnInv
  OBVIOUS
<1>1. \A p, q \in Pages : inbox[p] = <<>> /\ peer[p][q] = None
  BY DEF Init
<1>2. \A p, q \in Pages : Rest(p, q)
  BY <1>1, NoneEmpty DEF Rest, Silent, Calm
<1> QED
  BY <1>2, InitLinkInv DEF TurnInv, InTurns, InTurn

(* No description of the other side is applied before the page listens for *)
(* the tracks it brings, unless a candidate has made the connection or a   *)
(* negotiation was spoilt: who makes a connection does so for a step of    *)
(* its own, and of two pages only one has a step to take at a time.        *)
THEOREM TracksAreHeardHolds == Spec => []TracksAreHeard
<1>1. TurnInv => TracksAreHeard
  <2> SUFFICES ASSUME TurnInv, ~ Spoilt, ~ stray, NEW p \in Pages, NEW q \in Pages,
                      IsNext(p, q, "setRemote")
               PROVE  peer[p][q].heard
    BY DEF TracksAreHeard
  <2> DEFINE pc == peer[p][q]
             op == Head(pc.queue)
  <2>1. LinkInv /\ TypeInv /\ InTurns
    BY DEF TurnInv, LinkInv
  <2>2. pc # None /\ pc.queue # <<>> /\ op \in StepOps /\ op \in Pending(pc) /\ p # q
    BY <2>1, NextFacts
  <2>3. op \in Current(pc)
    BY <2>1, <2>2, Acting DEF InTurns
  <2> QED
    BY <2>1, <2>2, <2>3, StepIsHeard
<1> QED
  BY <1>1, InitTurnInv, TurnInvStep, PTL DEF Spec
=============================================================================

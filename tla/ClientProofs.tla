---------------------------- MODULE ClientProofs ----------------------------
(***************************************************************************)
(* What the page keeps about its session, for every number of clicks and   *)
(* of sockets.  SocketIsLive and CanLeave need no more than the types; the *)
(* other two rest on PatientInv, which says why a user who waits for every *)
(* action to end is never left with a forgotten connection, and on         *)
(* AskedInv, which says what the refreshes in flight may bring.            *)
(***************************************************************************)
EXTENDS Client, TLAPS

Closing == {s \in Sockets : net[s] = "closing"}

(* What holds of a user who waits: one call at a time; a call beyond       *)
(* joinRoom's guard finds no socket; and neither a call nor a socket is    *)
(* there while another socket is still closing.                            *)
PatientInv ==
  ~hasty =>
    /\ \A k, l \in InFlight : k = l
    /\ \A k \in Calls : call[k] \in {"asking", "media"} => socket = NoSocket
    /\ (InFlight # {} \/ socket # NoSocket) => Closing = {}

(* While no refresh strayed, one that is in flight asked in a session, and *)
(* for the room of that session, should it still be the present one.       *)
AskedInv ==
  ~strayed =>
    \A a \in asked : /\ a.session # NoSocket /\ net[a.session] # "unused"
                     /\ a.session = socket => a.room = roomOf[socket]

IInv ==
  /\ TypeOK
  /\ SocketIsLive
  /\ CanLeave
  /\ PatientInv
  /\ NoOrphanUnlessHasty
  /\ AskedInv
  /\ ShownIsCurrent

-----------------------------------------------------------------------------
(* The initial state: no socket and no call. *)
LEMMA InitIInv == Init => IInv
<1> SUFFICES ASSUME Init PROVE IInv
  OBVIOUS
<1>1. TypeOK
  BY DEF Init, TypeOK
<1>2. socket = NoSocket /\ Live = {} /\ InFlight = {} /\ Closing = {}
  BY DEF Init, Live, InFlight, Closing
<1>3. SocketIsLive /\ CanLeave
  BY <1>2 DEF SocketIsLive, CanLeave
<1>4. PatientInv
  BY <1>2 DEF Init, PatientInv
<1>5. NoOrphanUnlessHasty /\ AskedInv /\ ShownIsCurrent
  BY <1>2 DEF Init, NoOrphanUnlessHasty, AskedInv, ShownIsCurrent
<1>. QED
  BY <1>1, <1>3, <1>4, <1>5 DEF IInv

(* Every step keeps the types. *)
LEMMA NextTypeOK == TypeOK /\ [Next]_vars => TypeOK'
<1> SUFFICES ASSUME TypeOK, [Next]_vars PROVE TypeOK'
  OBVIOUS
<1> USE DEF TypeOK, callVars, netVars, refreshVars
<1>0. ASSUME NEW r \in Rooms \cup {NoRoom}, EditRoom(r) PROVE TypeOK'
  BY <1>0 DEF EditRoom
<1>1. ASSUME NEW k \in Calls, ClickCreate(k) PROVE TypeOK'
  BY <1>1 DEF ClickCreate, Advance, Hurry
<1>2. ASSUME NEW k \in Calls, ClickJoin(k) PROVE TypeOK'
  BY <1>2 DEF ClickJoin, EnterJoin, Advance, Hurry
<1>3. ASSUME NEW k \in Calls, RoomCreated(k) PROVE TypeOK'
  BY <1>3 DEF RoomCreated, EnterJoin, Advance
<1>4. ASSUME NEW k \in Calls, RequestFails(k) PROVE TypeOK'
  BY <1>4 DEF RequestFails, Advance
<1>5. ASSUME NEW k \in Calls, RoomFound(k) PROVE TypeOK'
  BY <1>5 DEF RoomFound, OpenSocket, Advance
<1>6. ASSUME NEW k \in Calls, MediaReady(k) PROVE TypeOK'
  BY <1>6 DEF MediaReady, OpenSocket, Advance
<1>7. ASSUME NEW s \in Sockets, Opens(s) PROVE TypeOK'
  BY <1>7 DEF Opens
<1>8. ASSUME NEW s \in Sockets, Lists(s) PROVE TypeOK'
  BY <1>8 DEF Lists
<1>9. ASSUME NEW s \in Sockets, CloseEvent(s) PROVE TypeOK'
  BY <1>9 DEF CloseEvent, cleanupSocketState
<1>10. CASE Leave
  BY <1>10 DEF Leave, cleanupSocketState
<1>11. CASE ClickRefresh
  BY <1>11 DEF ClickRefresh
<1>12. ASSUME NEW a \in asked, RefreshAnswered(a) \/ RefreshFails(a) PROVE TypeOK'
  BY <1>12 DEF RefreshAnswered, RefreshFails
<1>13. CASE AtRest \/ UNCHANGED vars
  BY <1>13 DEF AtRest, vars
<1>. QED
  BY <1>0, <1>1, <1>2, <1>3, <1>4, <1>5, <1>6, <1>7, <1>8, <1>9, <1>10, <1>11, <1>12, <1>13 DEF Next

-----------------------------------------------------------------------------
(* A click starts a call of a page in which, if the user waits, no other   *)
(* call runs and no socket is closing.                                     *)
LEMMA ClickKeepsIInv ==
  ASSUME IInv, TypeOK', NEW k \in Calls, ClickCreate(k) \/ ClickJoin(k)
  PROVE  IInv'
<1> USE DEF IInv, TypeOK
<1>1. /\ UNCHANGED <<net, socket, roomOf, controls, shown, asked, late, strayed>>
      /\ hasty' = (hasty \/ InFlight # {} \/ \E s \in Sockets : net[s] = "closing")
  BY DEF ClickCreate, ClickJoin, Hurry, netVars, refreshVars
<1>2. /\ \A l \in Calls \ {k} : call'[l] = call[l]
      /\ call'[k] \in {"asking", "media"} => socket = NoSocket
  BY DEF ClickCreate, ClickJoin, EnterJoin, Advance
<1>3. SocketIsLive' /\ CanLeave' /\ NoOrphanUnlessHasty' /\ AskedInv' /\ ShownIsCurrent'
  BY <1>1 DEF SocketIsLive, CanLeave, NoOrphanUnlessHasty, AskedInv, ShownIsCurrent, RoomId, Live
<1>4. PatientInv'
  <2> SUFFICES ASSUME ~hasty'
               PROVE  /\ \A m, l \in InFlight' : m = l
                      /\ \A l \in Calls : call'[l] \in {"asking", "media"} => socket = NoSocket
                      /\ Closing' = {}
    BY <1>1 DEF PatientInv
  <2>1. InFlight = {} /\ \A s \in Sockets : net[s] # "closing"
    BY <1>1
  <2>2. InFlight' \subseteq {k}
    BY <1>2, <2>1 DEF InFlight
  <2>3. Closing' = {}
    BY <1>1, <2>1 DEF Closing
  <2>4. \A l \in Calls : call'[l] \in {"asking", "media"} => socket = NoSocket
    BY <1>2, <2>1 DEF InFlight
  <2>. QED
    BY <2>2, <2>3, <2>4
<1>. QED
  BY <1>3, <1>4

(* A call that goes on without a socket, or ends, starts no other.         *)
LEMMA CallKeepsIInv ==
  ASSUME IInv, TypeOK', NEW k \in Calls,
         \/ RoomCreated(k)
         \/ RequestFails(k)
         \/ RoomFound(k) /\ ~media
  PROVE  IInv'
<1> USE DEF IInv, TypeOK
<1>1. UNCHANGED <<net, socket, roomOf, controls, shown, asked, late, strayed, hasty>>
  BY DEF RoomCreated, RequestFails, RoomFound, netVars, refreshVars
<1>2. /\ k \in InFlight
      /\ \A l \in Calls \ {k} : call'[l] = call[l]
      /\ \/ call'[k] = "asking" /\ socket = NoSocket
         \/ call'[k] = "media" /\ call[k] = "asking"
         \/ call'[k] = "done"
  BY DEF RoomCreated, RequestFails, RoomFound, EnterJoin, Advance, InFlight
<1>3. SocketIsLive' /\ CanLeave' /\ NoOrphanUnlessHasty' /\ AskedInv' /\ ShownIsCurrent'
  BY <1>1 DEF SocketIsLive, CanLeave, NoOrphanUnlessHasty, AskedInv, ShownIsCurrent, RoomId, Live
<1>4. InFlight' \subseteq InFlight
  BY <1>2 DEF InFlight
<1>5. Closing' = Closing
  BY <1>1 DEF Closing
<1>6. PatientInv'
  BY <1>1, <1>2, <1>4, <1>5 DEF PatientInv
<1>. QED
  BY <1>3, <1>6

(* openSocket: a user who waits had no socket before, live or closing.     *)
LEMMA OpenKeepsIInv ==
  ASSUME IInv, TypeOK', NEW k \in Calls, NEW s \in Sockets, OpenSocket(s, target[k]),
         Advance(k, "asking", "done", NoRoom) \/ Advance(k, "media", "done", NoRoom),
         UNCHANGED <<controls, shown, refreshVars, hasty>>
  PROVE  IInv'
<1> USE ClientAssumption DEF IInv, TypeOK, refreshVars
<1>1. /\ net[s] = "unused" /\ net'[s] = "connecting" /\ socket' = s
      /\ \A t \in Sockets \ {s} : net'[t] = net[t]
  BY DEF OpenSocket
<1>2. /\ k \in InFlight /\ call[k] \in {"asking", "media"} /\ call'[k] = "done"
      /\ \A l \in Calls \ {k} : call'[l] = call[l]
  BY DEF Advance, InFlight
<1>3. SocketIsLive' /\ CanLeave'
  BY <1>1 DEF SocketIsLive, CanLeave, Live
<1>4. ~hasty' => socket = NoSocket /\ Closing = {} /\ InFlight = {k}
  BY <1>2 DEF PatientInv
<1>5. Live' = Live \cup {s} /\ Closing' = Closing /\ InFlight' = InFlight \ {k}
  BY <1>1, <1>2 DEF Live, Closing, InFlight
<1>6. NoOrphanUnlessHasty'
  <2> SUFFICES ASSUME ~hasty' PROVE Live' \subseteq {socket'} /\ socket' # NoSocket
    BY DEF NoOrphanUnlessHasty
  <2>1. Live = {}
    BY <1>4, ClientAssumption DEF NoOrphanUnlessHasty, Live
  <2>. QED
    BY <1>1, <1>5, <2>1
<1>7. PatientInv'
  <2> SUFFICES ASSUME ~hasty' PROVE InFlight' = {} /\ Closing' = {}
    BY DEF PatientInv, InFlight
  <2>. QED
    BY <1>4, <1>5
<1>8. ShownIsCurrent'
  BY <1>4 DEF ShownIsCurrent, RoomId
<1>9. AskedInv'
  BY <1>1 DEF AskedInv
<1>. QED
  BY <1>3, <1>6, <1>7, <1>8, <1>9

(* The end of a socket clears the page's, which for a user who waits is    *)
(* the same socket or none.                                                *)
LEMMA CloseKeepsIInv ==
  ASSUME IInv, TypeOK', NEW s \in Sockets, CloseEvent(s)
  PROVE  IInv'
<1> USE ClientAssumption DEF IInv, TypeOK
<1>1. /\ net[s] \in {"connecting", "open", "closing"} /\ net'[s] = "closed"
      /\ \A t \in Sockets \ {s} : net'[t] = net[t]
      /\ socket' = NoSocket /\ ~controls' /\ shown' = NoRoom
      /\ UNCHANGED <<call, asked, strayed, hasty>>
  BY DEF CloseEvent, cleanupSocketState, callVars, refreshVars
<1>2. SocketIsLive' /\ CanLeave' /\ AskedInv' /\ ShownIsCurrent'
  BY <1>1 DEF SocketIsLive, CanLeave, AskedInv, ShownIsCurrent
<1>3. Live' = Live \ {s} /\ Closing' = Closing \ {s} /\ InFlight' = InFlight
  BY <1>1 DEF Live, Closing, InFlight
<1>4. PatientInv'
  BY <1>1, <1>3 DEF PatientInv
<1>5. NoOrphanUnlessHasty'
  <2> SUFFICES ASSUME ~hasty PROVE Live' = {}
    BY <1>1 DEF NoOrphanUnlessHasty
  <2>1. CASE s \in Live
    BY <1>3, <2>1 DEF NoOrphanUnlessHasty
  <2>2. CASE s \notin Live
    <3>1. s \in Closing
      BY <1>1, <2>2 DEF Live, Closing
    <3>2. socket = NoSocket
      BY <3>1 DEF PatientInv
    <3>. QED
      BY <1>3, <3>2 DEF NoOrphanUnlessHasty, Live
  <2>. QED
    BY <2>1, <2>2
<1>. QED
  BY <1>2, <1>4, <1>5

(* Leaving asks for the close of the page's socket and forgets it.         *)
LEMMA LeaveKeepsIInv ==
  ASSUME IInv, TypeOK', Leave
  PROVE  IInv'
<1> USE ClientAssumption DEF IInv, TypeOK
<1>1. /\ socket' = NoSocket /\ ~controls' /\ shown' = NoRoom
      /\ UNCHANGED <<call, asked, strayed>>
      /\ hasty' = (hasty \/ InFlight # {})
      /\ controls
      /\ net' = IF socket = NoSocket THEN net ELSE [net EXCEPT ![socket] = "closing"]
  BY DEF Leave, cleanupSocketState, callVars, refreshVars
<1>2. SocketIsLive' /\ CanLeave' /\ AskedInv' /\ ShownIsCurrent'
  BY <1>1 DEF SocketIsLive, CanLeave, AskedInv, ShownIsCurrent
<1>3. InFlight' = InFlight
  BY <1>1 DEF InFlight
<1>4. PatientInv'
  BY <1>1, <1>3 DEF PatientInv, InFlight
<1>5. NoOrphanUnlessHasty'
  <2> SUFFICES ASSUME ~hasty PROVE Live' = {}
    BY <1>1 DEF NoOrphanUnlessHasty
  <2>1. socket \in Sockets /\ Live \subseteq {socket}
    BY <1>1 DEF NoOrphanUnlessHasty
  <2>2. Live' = Live \ {socket}
    BY <1>1, <2>1 DEF Live
  <2>. QED
    BY <2>1, <2>2
<1>. QED
  BY <1>2, <1>4, <1>5

(* What a socket delivers, what a refresh brings and what the user types.  *)
LEMMA NewsKeepsIInv ==
  ASSUME IInv, TypeOK',
         \/ \E s \in Sockets : Opens(s) \/ Lists(s)
         \/ ClickRefresh
         \/ \E a \in asked : RefreshAnswered(a) \/ RefreshFails(a)
         \/ \E r \in Rooms \cup {NoRoom} : EditRoom(r)
  PROVE  IInv'
<1> USE ClientAssumption DEF IInv, TypeOK, callVars, netVars, refreshVars
<1>1. UNCHANGED <<call, socket, roomOf, hasty>>
  BY DEF Opens, Lists, ClickRefresh, RefreshAnswered, RefreshFails, EditRoom
<1>2. /\ InFlight' = InFlight
      /\ \/ UNCHANGED <<net, controls>>
         \/ \E s \in Sockets : Opens(s)
  BY <1>1 DEF InFlight, Lists, ClickRefresh, RefreshAnswered, RefreshFails, EditRoom
<1>3. Live' = Live /\ Closing' = Closing
  BY <1>2 DEF Live, Closing, Opens
<1>4. SocketIsLive' /\ PatientInv'
  BY <1>1, <1>2, <1>3 DEF SocketIsLive, PatientInv
<1>5. CanLeave'
  BY <1>1, <1>2 DEF CanLeave, Opens
<1>6. NoOrphanUnlessHasty'
  <2>1. CASE UNCHANGED <<net, controls>>
    BY <2>1, <1>1, <1>3 DEF NoOrphanUnlessHasty
  <2>2. ASSUME NEW s \in Sockets, Opens(s) PROVE NoOrphanUnlessHasty'
    BY <2>2, <1>1, <1>3 DEF NoOrphanUnlessHasty, Opens, Live
  <2>. QED
    BY <1>2, <2>1, <2>2
<1>7. RoomId' = RoomId
  BY <1>1 DEF RoomId
<1>8. ShownIsCurrent'
  <2>1. ASSUME NEW s \in Sockets, Lists(s) PROVE ShownIsCurrent'
    BY <2>1, <1>1 DEF ShownIsCurrent, NoOrphanUnlessHasty, RoomId, Lists, Live
  <2>2. ASSUME NEW a \in asked, RefreshAnswered(a) PROVE ShownIsCurrent'
    BY <2>2, <1>1 DEF ShownIsCurrent, AskedInv, RoomId, RefreshAnswered
  <2>3. CASE UNCHANGED <<shown, late>> /\ (strayed => strayed')
    BY <2>3, <1>1, <1>7 DEF ShownIsCurrent
  <2>. QED
    BY <2>1, <2>2, <2>3 DEF Opens, ClickRefresh, RefreshFails, EditRoom
<1>9. AskedInv'
  <2>1. \A s \in Sockets : net[s] # "unused" => net'[s] # "unused"
    BY <1>2 DEF Opens
  <2>2. CASE ClickRefresh
    <3>1. CASE ~strayed'
      <4>1. field \in Rooms /\ field = RoomId /\ ~strayed
        BY <2>2, <3>1 DEF ClickRefresh
      <4>2. socket # NoSocket /\ field = roomOf[socket]
        BY <4>1 DEF RoomId
      <4>3. net[socket] # "unused"
        BY <4>2 DEF SocketIsLive, Live
      <4>. QED
        BY <1>1, <2>2, <4>1, <4>2, <4>3 DEF AskedInv, ClickRefresh
    <3>2. CASE strayed'
      BY <3>2 DEF AskedInv
    <3>. QED
      BY <3>1, <3>2
  <2>3. CASE asked' \subseteq asked /\ strayed' = strayed
    BY <1>1, <2>1, <2>3 DEF AskedInv
  <2>. QED
    BY <2>2, <2>3 DEF Opens, Lists, RefreshAnswered, RefreshFails, EditRoom
<1>. QED
  BY <1>4, <1>5, <1>6, <1>8, <1>9

LEMMA NextIInv == IInv /\ [Next]_vars => IInv'
<1> SUFFICES ASSUME IInv, [Next]_vars PROVE IInv'
  OBVIOUS
<1>1. TypeOK'
  BY NextTypeOK DEF IInv
<1>2. ASSUME NEW k \in Calls, ClickCreate(k) \/ ClickJoin(k) PROVE IInv'
  BY <1>1, <1>2, ClickKeepsIInv
<1>3. ASSUME NEW k \in Calls, RoomCreated(k) \/ RequestFails(k) PROVE IInv'
  BY <1>1, <1>3, CallKeepsIInv
<1>4. ASSUME NEW k \in Calls, RoomFound(k) PROVE IInv'
  <2>1. CASE media
    <3>1. PICK s \in Sockets : OpenSocket(s, target[k])
      BY <1>4, <2>1 DEF RoomFound
    <3>. QED
      BY <1>1, <1>4, <2>1, <3>1, OpenKeepsIInv DEF RoomFound
  <2>2. CASE ~media
    BY <1>1, <1>4, <2>2, CallKeepsIInv
  <2>. QED
    BY <2>1, <2>2
<1>5. ASSUME NEW k \in Calls, MediaReady(k) PROVE IInv'
  <2>1. PICK s \in Sockets : OpenSocket(s, target[k])
    BY <1>5 DEF MediaReady
  <2>. QED
    BY <1>1, <1>5, <2>1, OpenKeepsIInv DEF MediaReady
<1>6. ASSUME NEW s \in Sockets, CloseEvent(s) PROVE IInv'
  BY <1>1, <1>6, CloseKeepsIInv
<1>7. CASE Leave
  BY <1>1, <1>7, LeaveKeepsIInv
<1>8. ASSUME \/ \E s \in Sockets : Opens(s) \/ Lists(s)
             \/ ClickRefresh
             \/ \E a \in asked : RefreshAnswered(a) \/ RefreshFails(a)
             \/ \E r \in Rooms \cup {NoRoom} : EditRoom(r)
      PROVE  IInv'
  BY <1>1, <1>8, NewsKeepsIInv
<1>9. CASE AtRest \/ UNCHANGED vars
  BY <1>9 DEF AtRest, vars, callVars, netVars, refreshVars, IInv, TypeOK, SocketIsLive, CanLeave,
              PatientInv, NoOrphanUnlessHasty, AskedInv, ShownIsCurrent, RoomId, Live, InFlight,
              Closing
<1>. QED
  BY <1>2, <1>3, <1>4, <1>5, <1>6, <1>7, <1>8, <1>9 DEF Next

LEMMA Invariance == Spec => []IInv
<1>1. Init => IInv
  BY InitIInv
<1>2. IInv /\ [Next]_vars => IInv'
  BY NextIInv
<1>. QED
  BY <1>1, <1>2, PTL DEF Spec

-----------------------------------------------------------------------------
(* The types of what the page keeps. *)
THEOREM TypeCorrect == Spec => []TypeOK
<1>1. IInv => TypeOK
  BY DEF IInv
<1>. QED
  BY Invariance, <1>1, PTL

(* state.socket never stays on a socket that has ended. *)
THEOREM SocketIsLiveHolds == Spec => []SocketIsLive
<1>1. IInv => SocketIsLive
  BY DEF IInv
<1>. QED
  BY Invariance, <1>1, PTL

(* Whoever is in a meeting can leave it, whatever else the page's older    *)
(* sockets report.                                                         *)
THEOREM CanLeaveHolds == Spec => []CanLeave
<1>1. IInv => CanLeave
  BY DEF IInv
<1>. QED
  BY Invariance, <1>1, PTL

(* A user who waits for each action to end is never left with a connection *)
(* the page has forgotten.                                                 *)
THEOREM NoOrphanHolds == Spec => []NoOrphanUnlessHasty
<1>1. IInv => NoOrphanUnlessHasty
  BY DEF IInv
<1>. QED
  BY Invariance, <1>1, PTL

(* Such a user never sees the participants of another room than that of    *)
(* the meeting, unless a refresh is answered late or asks for another one. *)
THEOREM ShownIsCurrentHolds == Spec => []ShownIsCurrent
<1>1. IInv => ShownIsCurrent
  BY DEF IInv
<1>. QED
  BY Invariance, <1>1, PTL
=============================================================================

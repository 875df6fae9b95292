-------------------------- MODULE ScreenShareProofs --------------------------
(***************************************************************************)
(* What a page sends and shows, for every number of other members, of      *)
(* captures, sessions and clicks.                                          *)
(***************************************************************************)
EXTENDS ScreenShare, SequenceTheorems, TLAPS

(* TypeOK in three parts: what the server has, what the page shows of it,  *)
(* and the rest.                                                           *)
ServerOK ==
  /\ record \in Lists /\ job \in [Users -> Jobs]
  /\ inbox \in Seq(Messages) /\ sent \in Seq(StatusMessages)
  /\ ~Session => inbox = <<>> /\ sent = <<>> /\ job[Me] = Idle

ShownOK ==
  /\ participants \in Lists /\ self \in SUBSET Flags
  /\ activeSharerId \in Users \cup {None}
  /\ handRaised \in BOOLEAN
  /\ Session /\ Me \in DOMAIN participants => participants[Me] = self

Histories ==
  [hasty : BOOLEAN, torn : BOOLEAN, forsaken : BOOLEAN, cut : BOOLEAN,
   missed : BOOLEAN, dark : BOOLEAN, kept : BOOLEAN]

MediaOK ==
  /\ refresh \in [stage : {"none", "asked", "answered"}, list : Lists]
  /\ handButton \in BOOLEAN /\ isScreenSharing \in BOOLEAN
  /\ localStream \in Streams \cup {None} /\ screenStream \in Captures \cup {None}
  /\ off \in SUBSET Streams /\ live \in SUBSET Captures
  /\ call \in [Captures -> {"idle", "prompt", "tuning", "done"}]
  /\ switches \in Seq({"start", "stop"})
  /\ count \in [joins : Nat, news : Nat, clicks : Nat]
  /\ history \in Histories

LEMMA TypesSplit == TypeOK <=> ServerOK /\ ShownOK /\ MediaOK
BY DEF TypeOK, ServerOK, ShownOK, MediaOK, Histories

LEMMA TypesSplitNext == TypeOK' <=> ServerOK' /\ ShownOK' /\ MediaOK'
BY DEF TypeOK, ServerOK, ShownOK, MediaOK, Histories, Session

(* The page waits for a list as long as messages wait for it.              *)
EndsWithList ==
  inbox # <<>> => \/ inbox[Len(inbox)].type = "participants"
                  \/ \E u \in Users : job[u] # Idle

(* Reading the status messages of q leaves a flag up or down.              *)
Sets(m, flag) == StatusFlag(m.type) = flag

Leaves(q, flags, flag, up) ==
  \/ \E i \in 1 .. Len(q) :
       /\ Sets(q[i], flag) /\ q[i].body = up
       /\ \A j \in 1 .. Len(q) : j > i => ~Sets(q[j], flag)
  \/ /\ \A i \in 1 .. Len(q) : ~Sets(q[i], flag)
     /\ up <=> flag \in flags

-----------------------------------------------------------------------------
(* The helpers on participant lists. *)

LEMMA WithFacts ==
  ASSUME NEW list \in Lists, NEW u \in Users, NEW flags \in SUBSET Flags
  PROVE  /\ With(list, u, flags) \in Lists
         /\ \A v : v \in DOMAIN With(list, u, flags) <=> v \in DOMAIN list \/ v = u
         /\ With(list, u, flags)[u] = flags
         /\ \A v \in DOMAIN list \ {u} : With(list, u, flags)[v] = list[v]
<1>1. PICK M \in SUBSET Users : list \in [M -> SUBSET Flags]
  BY DEF Lists
<1>2. DOMAIN list = M
  BY <1>1
<1>3. With(list, u, flags) \in [M \cup {u} -> SUBSET Flags]
  BY <1>1, <1>2 DEF With
<1>4. With(list, u, flags) \in Lists
  BY <1>3 DEF Lists
<1> QED
  BY <1>2, <1>4 DEF With

LEMMA WithoutFacts ==
  ASSUME NEW list \in Lists, NEW u \in Users
  PROVE  /\ Without(list, u) \in Lists
         /\ \A v : v \in DOMAIN Without(list, u) <=> v \in DOMAIN list /\ v # u
         /\ \A v \in DOMAIN list \ {u} : Without(list, u)[v] = list[v]
<1>1. PICK M \in SUBSET Users : list \in [M -> SUBSET Flags]
  BY DEF Lists
<1>2. DOMAIN list = M
  BY <1>1
<1>3. Without(list, u) \in [M \ {u} -> SUBSET Flags]
  BY <1>1, <1>2 DEF Without
<1>4. Without(list, u) \in Lists
  BY <1>3 DEF Lists
<1> QED
  BY <1>2, <1>4 DEF Without

LEMMA PutFacts ==
  ASSUME NEW flags \in SUBSET Flags, NEW flag \in Flags, NEW up \in BOOLEAN
  PROVE  /\ Put(flags, flag, up) \in SUBSET Flags
         /\ flag \in Put(flags, flag, up) <=> up
         /\ \A other : other # flag => (other \in Put(flags, flag, up) <=> other \in flags)
<1>1. CASE up
  BY <1>1 DEF Put
<1>2. CASE ~up
  BY <1>2 DEF Put
<1> QED
  BY <1>1, <1>2

LEMMA FlaggedFacts ==
  ASSUME NEW list \in Lists, NEW u \in Users, NEW flag \in Flags, NEW up \in BOOLEAN
  PROVE  /\ Flagged(list, u, flag, up) \in Lists
         /\ \A v : v \in DOMAIN Flagged(list, u, flag, up) <=> v \in DOMAIN list
         /\ u \in DOMAIN list => Flagged(list, u, flag, up)[u] = Put(list[u], flag, up)
         /\ \A v \in DOMAIN list \ {u} : Flagged(list, u, flag, up)[v] = list[v]
<1>1. PICK M \in SUBSET Users : list \in [M -> SUBSET Flags]
  BY DEF Lists
<1>2. DOMAIN list = M
  BY <1>1
<1>3. u \in M => Put(list[u], flag, up) \in SUBSET Flags
  BY <1>1, PutFacts
<1>4. Flagged(list, u, flag, up) \in [M -> SUBSET Flags]
  BY <1>1, <1>2, <1>3 DEF Flagged
<1>5. Flagged(list, u, flag, up) \in Lists
  BY <1>4 DEF Lists
<1> QED
  BY <1>1, <1>2, <1>4, <1>5 DEF Flagged

(* What is noted of another member says nothing of the page. *)
LEMMA OtherFlag ==
  ASSUME NEW list \in Lists, NEW u \in Users, u # Me, NEW flag \in Flags, NEW up \in BOOLEAN
  PROVE  /\ Flagged(list, u, flag, up) \in Lists
         /\ Me \in DOMAIN Flagged(list, u, flag, up) <=> Me \in DOMAIN list
         /\ Me \in DOMAIN list => Flagged(list, u, flag, up)[Me] = list[Me]
BY FlaggedFacts

LEMMA ListFacts ==
  /\ NoOne \in Lists /\ DOMAIN NoOne = {}
  /\ \A list \in Lists : DOMAIN list \subseteq Users /\ \A u \in DOMAIN list : list[u] \subseteq Flags
<1>1. NoOne \in [{} -> SUBSET Flags] /\ DOMAIN NoOne = {}
  BY DEF NoOne
<1>2. NoOne \in Lists
  BY <1>1 DEF Lists
<1>3. ASSUME NEW list \in Lists
      PROVE  DOMAIN list \subseteq Users /\ \A u \in DOMAIN list : list[u] \subseteq Flags
  BY DEF Lists
<1> QED
  BY <1>1, <1>2, <1>3

LEMMA StatusFlagType ==
  ASSUME NEW type
  PROVE  StatusFlag(type) \in Flags
BY DEF StatusFlag, Flags

LEMMA MeIsAUser == Me \in Users /\ Others \subseteq Users /\ Me \notin Others /\ None \notin Users
BY ScreenShareAssumption DEF Users

LEMMA MessageTypes ==
  /\ StatusMessages \subseteq Messages
  /\ \A list \in Lists : ListMessage(list) \in Messages /\ ListMessage(list).type = "participants"
  /\ \A type \in StatusTypes, up \in BOOLEAN : Status(type, up) \in StatusMessages
  /\ \A type \in StatusTypes \cup {"peer-joined", "peer-left"}, u \in Users :
       Message(type, u, FALSE) \in Messages /\ Message(type, u, TRUE) \in Messages
BY MeIsAUser DEF StatusMessages, Messages, ListMessage, Message, Status

LEMMA JobTypes ==
  /\ Idle \in Jobs /\ Listing \in Jobs /\ Listing # Idle
  /\ \A m \in Messages : Broadcasting(m) \in Jobs /\ Broadcasting(m) # Idle
  /\ \A j \in Jobs : j.stage = "broadcast" => j # Idle /\ j.what \in Messages
BY DEF Idle, Listing, Broadcasting, Jobs

-----------------------------------------------------------------------------
(* What is sent and not read yet. *)

(* The last message of a kind decides. *)
LEMMA AppendLeaves ==
  ASSUME NEW q \in Seq(StatusMessages), NEW m \in StatusMessages, NEW flags, NEW flag,
         NEW up \in BOOLEAN
  PROVE  /\ Sets(m, flag) /\ m.body = up => Leaves(Append(q, m), flags, flag, up)
         /\ ~Sets(m, flag) /\ Leaves(q, flags, flag, up) => Leaves(Append(q, m), flags, flag, up)
<1> DEFINE r == Append(q, m)
<1>1. /\ Len(q) \in Nat /\ Len(r) = Len(q) + 1 /\ r[Len(q) + 1] = m
      /\ \A i \in 1 .. Len(q) : r[i] = q[i]
  BY AppendProperties, LenProperties
<1> HIDE DEF r
<1>2. ASSUME Sets(m, flag), m.body = up PROVE Leaves(r, flags, flag, up)
  BY <1>1, <1>2 DEF Leaves
<1>3. ASSUME ~Sets(m, flag), Leaves(q, flags, flag, up) PROVE Leaves(r, flags, flag, up)
  <2>1. CASE \E i \in 1 .. Len(q) : /\ Sets(q[i], flag) /\ q[i].body = up
                                   /\ \A j \in 1 .. Len(q) : j > i => ~Sets(q[j], flag)
    <3>1. PICK i \in 1 .. Len(q) : /\ Sets(q[i], flag) /\ q[i].body = up
                                   /\ \A j \in 1 .. Len(q) : j > i => ~Sets(q[j], flag)
      BY <2>1
    <3>2. ASSUME NEW j \in 1 .. Len(r), j > i PROVE ~Sets(r[j], flag)
      <4>1. j \in 1 .. Len(q) \/ j = Len(q) + 1
        BY <1>1
      <4> QED
        BY <1>1, <1>3, <3>1, <3>2, <4>1
    <3>3. i \in 1 .. Len(r) /\ r[i] = q[i]
      BY <1>1
    <3> QED
      BY <3>1, <3>2, <3>3 DEF Leaves
  <2>2. CASE (\A i \in 1 .. Len(q) : ~Sets(q[i], flag)) /\ (up <=> flag \in flags)
    <3>1. ASSUME NEW j \in 1 .. Len(r) PROVE ~Sets(r[j], flag)
      <4>1. j \in 1 .. Len(q) \/ j = Len(q) + 1
        BY <1>1
      <4> QED
        BY <1>1, <1>3, <2>2, <4>1
    <3> QED
      BY <2>2, <3>1 DEF Leaves
  <2> QED
    BY <1>3, <2>1, <2>2 DEF Leaves
<1> QED
  BY <1>2, <1>3 DEF r

(* The first is read, and what it says is noted. *)
LEMMA TailLeaves ==
  ASSUME NEW q \in Seq(StatusMessages), q # <<>>, NEW flags \in SUBSET Flags, NEW flag \in Flags,
         NEW up \in BOOLEAN, Leaves(q, flags, flag, up)
  PROVE  Leaves(Tail(q), Put(flags, StatusFlag(Head(q).type), Head(q).body), flag, up)
<1> DEFINE m == Head(q)
           r == Tail(q)
           noted == Put(flags, StatusFlag(m.type), m.body)
<1>1. /\ m \in StatusMessages /\ m = q[1] /\ Len(q) \in Nat /\ Len(r) = Len(q) - 1 /\ Len(q) > 0
      /\ \A i \in 1 .. Len(r) : r[i] = q[i + 1]
  BY HeadTailProperties, EmptySeq, LenProperties
<1>2. m.body \in BOOLEAN /\ StatusFlag(m.type) \in Flags
  BY <1>1, StatusFlagType DEF StatusMessages
<1>3. /\ Sets(m, flag) => (flag \in noted <=> m.body)
      /\ ~Sets(m, flag) => (flag \in noted <=> flag \in flags)
  BY <1>2, PutFacts DEF Sets
<1> HIDE DEF m, r, noted
<1>4. ASSUME NEW i \in 1 .. Len(q), Sets(q[i], flag), q[i].body = up,
             \A j \in 1 .. Len(q) : j > i => ~Sets(q[j], flag)
      PROVE  Leaves(r, noted, flag, up)
  <2>1. ASSUME NEW j \in 1 .. Len(r), j + 1 > i PROVE ~Sets(r[j], flag)
    BY <1>1, <1>4, <2>1
  <2>2. CASE i = 1
    <3>1. flag \in noted <=> up
      BY <1>1, <1>2, <1>3, <1>4, <2>2
    <3>2. \A j \in 1 .. Len(r) : ~Sets(r[j], flag)
      BY <1>1, <2>1, <2>2
    <3> QED
      BY <3>1, <3>2 DEF Leaves
  <2>3. CASE i # 1
    <3>1. i - 1 \in 1 .. Len(r) /\ r[i - 1] = q[i]
      BY <1>1, <2>3
    <3>2. \A j \in 1 .. Len(r) : j > i - 1 => ~Sets(r[j], flag)
      BY <1>1, <2>1
    <3> QED
      BY <1>4, <3>1, <3>2 DEF Leaves
  <2> QED
    BY <2>2, <2>3
<1>5. ASSUME \A i \in 1 .. Len(q) : ~Sets(q[i], flag), up <=> flag \in flags
      PROVE  Leaves(r, noted, flag, up)
  <2>1. ~Sets(m, flag)
    BY <1>1, <1>5
  <2>2. \A j \in 1 .. Len(r) : ~Sets(r[j], flag)
    BY <1>1, <1>5
  <2> QED
    BY <1>3, <1>5, <2>1, <2>2 DEF Leaves
<1> QED
  BY <1>4, <1>5 DEF Leaves, m, r, noted

(* Nothing is sent. *)
LEMMA EmptyLeaves ==
  ASSUME NEW flags, NEW flag, NEW up \in BOOLEAN
  PROVE  Leaves(<<>>, flags, flag, up) <=> (up <=> flag \in flags)
BY DEF Leaves

-----------------------------------------------------------------------------
(* The server's steps. *)

LEMMA ReadFacts ==
  ASSUME ServerOK, handleSignalMessage
  PROVE  /\ ServerOK' /\ Session /\ Session'
         /\ record'[Me] = Put(record[Me], StatusFlag(Head(sent).type), Head(sent).body)
         /\ sent # <<>> /\ sent' = Tail(sent) /\ inbox' = inbox
         /\ \E u \in Users : job'[u] # Idle
<1> DEFINE m == Head(sent)
           list == Flagged(record, Me, StatusFlag(m.type), m.body)
<1>1. sent # <<>> /\ sent' = Tail(sent) /\ inbox' = inbox /\ Says(Me, list, m)
  BY DEF handleSignalMessage
<1>2. Session /\ record \in Lists /\ Me \in Users
  BY <1>1, MeIsAUser DEF ServerOK
<1>3. m \in StatusMessages /\ Tail(sent) \in Seq(StatusMessages)
  BY <1>1, HeadTailProperties DEF ServerOK
<1>4. StatusFlag(m.type) \in Flags /\ m.body \in BOOLEAN /\ m \in Messages
  BY <1>3, StatusFlagType, MessageTypes DEF StatusMessages
<1> HIDE DEF m
<1>5. /\ list \in Lists /\ Me \in DOMAIN list
      /\ list[Me] = Put(record[Me], StatusFlag(m.type), m.body)
  BY <1>2, <1>4, FlaggedFacts DEF Session
<1> HIDE DEF list
<1>6. record' = list /\ job' = [job EXCEPT ![Me] = Broadcasting(m)]
  BY <1>1 DEF Says
<1>7. job' \in [Users -> Jobs] /\ job'[Me] # Idle
  BY <1>2, <1>4, <1>6, JobTypes DEF ServerOK
<1>8. Session'
  BY <1>5, <1>6 DEF Session
<1>9. ServerOK'
  BY <1>1, <1>3, <1>5, <1>6, <1>7, <1>8 DEF ServerOK
<1> QED
  BY <1>1, <1>2, <1>5, <1>6, <1>7, <1>8, <1>9 DEF m

(* Another member says nothing of the page. *)
LEMMA NewsFacts ==
  ASSUME ServerOK, NEW u \in Others, News(u)
  PROVE  /\ ServerOK' /\ (Session' <=> Session)
         /\ Session => record'[Me] = record[Me]
         /\ inbox' = inbox /\ sent' = sent
         /\ \E v \in Users : job'[v] # Idle
<1>1. u \in Users /\ u # Me /\ record \in Lists /\ {} \in SUBSET Flags /\ "screenSharing" \in Flags
  BY MeIsAUser DEF ServerOK, Flags
<1>2. PICK list \in Lists, m \in Messages :
        /\ Says(u, list, m)
        /\ Me \in DOMAIN list <=> Session
        /\ Session => list[Me] = record[Me]
  <2>1. \/ Says(u, With(record, u, {}), Message("peer-joined", u, FALSE))
        \/ Says(u, Without(record, u), Message("peer-left", u, FALSE))
        \/ \E type \in {"screen-share-started", "screen-share-stopped"} :
             Says(u, Flagged(record, u, "screenSharing", type = "screen-share-started"),
                  Message(type, u, type = "screen-share-started"))
    BY DEF News
  <2>2. CASE Says(u, With(record, u, {}), Message("peer-joined", u, FALSE))
    <3> DEFINE list == With(record, u, {})
    <3>1. list \in Lists /\ (Me \in DOMAIN list <=> Session) /\ (Session => list[Me] = record[Me])
      BY <1>1, WithFacts DEF Session
    <3> QED
      BY <1>1, <2>2, <3>1, MessageTypes
  <2>3. CASE Says(u, Without(record, u), Message("peer-left", u, FALSE))
    <3> DEFINE list == Without(record, u)
    <3>1. list \in Lists /\ (Me \in DOMAIN list <=> Session) /\ (Session => list[Me] = record[Me])
      BY <1>1, WithoutFacts DEF Session
    <3> QED
      BY <1>1, <2>3, <3>1, MessageTypes
  <2>4. ASSUME NEW type \in {"screen-share-started", "screen-share-stopped"},
               Says(u, Flagged(record, u, "screenSharing", type = "screen-share-started"),
                    Message(type, u, type = "screen-share-started"))
        PROVE  \E list \in Lists, m \in Messages :
                 /\ Says(u, list, m)
                 /\ Me \in DOMAIN list <=> Session
                 /\ Session => list[Me] = record[Me]
    <3> PICK up \in BOOLEAN : up = (type = "screen-share-started")
      OBVIOUS
    <3> DEFINE list == Flagged(record, u, "screenSharing", up)
    <3>1. list \in Lists /\ (Me \in DOMAIN list <=> Session) /\ (Session => list[Me] = record[Me])
      BY <1>1, OtherFlag DEF Session
    <3>2. type \in StatusTypes
      BY DEF StatusTypes
    <3>3. Message(type, u, up) \in Messages
      BY <1>1, <3>2 DEF Messages, Message
    <3> QED
      BY <2>4, <3>1, <3>3
  <2> QED
    BY <2>1, <2>2, <2>3, <2>4
<1>3. record' = list /\ job' = [job EXCEPT ![u] = Broadcasting(m)] /\ inbox' = inbox /\ sent' = sent
  BY <1>2 DEF News, Says
<1>4. job' \in [Users -> Jobs] /\ job'[u] # Idle /\ job'[Me] = job[Me]
  BY <1>1, <1>3, JobTypes, MeIsAUser DEF ServerOK
<1>5. Session' <=> Session
  BY <1>2, <1>3 DEF Session
<1> QED
  BY <1>1, <1>2, <1>3, <1>4, <1>5 DEF ServerOK

(* A message goes out, and if it was no list, the list is due. *)
LEMMA BroadcastFacts ==
  ASSUME ServerOK, NEW u \in Users, Broadcast(u)
  PROVE  /\ ServerOK' /\ record' = record /\ sent' = sent /\ (Session' <=> Session)
         /\ EndsWithList'
         /\ Session => inbox' # <<>>
<1>1. /\ job[u] \in Jobs /\ job[u] # Idle /\ job[u].what \in Messages
  BY JobTypes DEF ServerOK, Broadcast
<1>2. /\ record' = record /\ sent' = sent
      /\ inbox' = IF Session THEN Append(inbox, job[u].what) ELSE inbox
      /\ job' = [job EXCEPT ![u] = IF job[u].what.type = "participants" THEN Idle ELSE Listing]
  BY DEF Broadcast, ServerOK
<1>3. job' \in [Users -> Jobs] /\ (job[u].what.type # "participants" => job'[u] = Listing)
  BY <1>2, JobTypes DEF ServerOK
<1>4. ~Session => u # Me /\ job'[Me] = job[Me]
  BY <1>1, <1>2, MeIsAUser DEF ServerOK
<1>5. /\ Session' <=> Session
      /\ inbox' \in Seq(Messages)
      /\ Session => inbox' # <<>> /\ inbox'[Len(inbox')] = job[u].what
  BY <1>1, <1>2, AppendProperties DEF Session, ServerOK
<1>6. EndsWithList'
  <2>1. CASE Session
    BY <1>3, <1>5, <2>1, JobTypes DEF EndsWithList
  <2>2. CASE ~Session
    BY <1>2, <2>2 DEF ServerOK, EndsWithList
  <2> QED
    BY <2>1, <2>2
<1>7. ServerOK'
  BY <1>2, <1>3, <1>4, <1>5 DEF ServerOK
<1> QED
  BY <1>2, <1>5, <1>6, <1>7

LEMMA SnapshotFacts ==
  ASSUME ServerOK, NEW u \in Users, SnapshotParticipants(u)
  PROVE  /\ ServerOK' /\ record' = record /\ sent' = sent /\ inbox' = inbox /\ (Session' <=> Session)
         /\ \E v \in Users : job'[v] # Idle
<1>1. /\ record' = record /\ sent' = sent /\ inbox' = inbox
      /\ job[u] = Listing /\ job' = [job EXCEPT ![u] = Broadcasting(ListMessage(record))]
  BY DEF SnapshotParticipants
<1>2. ListMessage(record) \in Messages
  BY MessageTypes DEF ServerOK
<1>3. job' \in [Users -> Jobs] /\ job'[u] # Idle
  BY <1>1, <1>2, JobTypes DEF ServerOK
<1>4. ~Session => u # Me /\ job'[Me] = job[Me]
  BY <1>1, JobTypes, MeIsAUser DEF ServerOK
<1>5. Session' <=> Session
  BY <1>1 DEF Session
<1> QED
  BY <1>1, <1>3, <1>4, <1>5 DEF ServerOK

(* A message is taken from the inbox. *)
LEMMA TakenFacts ==
  ASSUME ServerOK, Receive
  PROVE  /\ ServerOK' /\ Session /\ Session' /\ record' = record /\ sent' = sent /\ job' = job
         /\ Head(inbox) \in Messages
         /\ EndsWithList => EndsWithList'
         /\ EndsWithList /\ inbox' = <<>> =>
              Head(inbox).type = "participants" \/ \E u \in Users : job'[u] # Idle
<1>1. /\ record' = record /\ sent' = sent /\ job' = job
      /\ inbox # <<>> /\ inbox' = Tail(inbox) /\ inbox \in Seq(Messages)
  BY DEF Receive, ServerOK
<1>2. Session /\ Session'
  BY <1>1 DEF ServerOK, Session
<1>3. /\ Head(inbox) \in Messages /\ Head(inbox) = inbox[1]
      /\ Tail(inbox) \in Seq(Messages)
      /\ Len(inbox) \in Nat /\ Len(Tail(inbox)) = Len(inbox) - 1
      /\ \A i \in 1 .. Len(Tail(inbox)) : Tail(inbox)[i] = inbox[i + 1]
  BY <1>1, HeadTailProperties, LenProperties
<1>4. EndsWithList => EndsWithList'
  <2> SUFFICES ASSUME EndsWithList, inbox' # <<>>, ~ \E u \in Users : job[u] # Idle
               PROVE  inbox'[Len(inbox')].type = "participants"
    BY <1>1 DEF EndsWithList
  <2>1. Len(inbox') \in 1 .. Len(inbox') /\ Len(inbox') + 1 = Len(inbox)
    BY <1>1, <1>3, EmptySeq
  <2>2. inbox'[Len(inbox')] = inbox[Len(inbox)]
    BY <1>1, <1>3, <2>1
  <2> QED
    BY <1>1, <2>2 DEF EndsWithList
<1>5. ASSUME EndsWithList, inbox' = <<>>
      PROVE  Head(inbox).type = "participants" \/ \E u \in Users : job'[u] # Idle
  <2>1. Len(Tail(inbox)) = 0
    <3>1. Tail(inbox) = <<>> /\ Tail(inbox) \in Seq(Messages)
      BY <1>1, <1>3, <1>5
    <3> QED
      BY <3>1, EmptySeq
  <2>2. Len(inbox) = 1
    <3>1. Len(inbox) \in Nat /\ Len(Tail(inbox)) = Len(inbox) - 1
      BY <1>3
    <3> QED
      BY <2>1, <3>1
  <2> QED
    BY <1>1, <1>3, <1>5, <2>2 DEF EndsWithList
<1>6. ServerOK'
  BY <1>1, <1>2, <1>3 DEF ServerOK
<1> QED
  BY <1>1, <1>2, <1>3, <1>4, <1>5, <1>6

(* sendSignal, and nothing else of the server. *)
LEMMA SendFacts ==
  ASSUME ServerOK, NEW messages \in Seq(StatusMessages), sendSignal(messages),
         UNCHANGED <<record, job, inbox>>
  PROVE  ServerOK' /\ (Session' <=> Session)
<1>1. sent' = (IF Session THEN sent \o messages ELSE sent) /\ (Session' <=> Session)
  BY DEF sendSignal, Session
<1>2. sent' \in Seq(StatusMessages) /\ (~Session => sent' = sent)
  BY <1>1, ConcatProperties DEF ServerOK
<1> QED
  BY <1>1, <1>2 DEF ServerOK

LEMMA JoinFacts ==
  ASSUME ServerOK, Join
  PROVE  /\ ServerOK' /\ ~Session /\ Session' /\ record'[Me] = {} /\ record' = With(record, Me, {})
         /\ inbox' = <<>> /\ sent' = <<>>
         /\ \E u \in Users : job'[u] # Idle
<1>1. /\ ~Session /\ record' = With(record, Me, {}) /\ job' = [job EXCEPT ![Me] = Listing]
      /\ inbox' = <<>> /\ sent' = <<>>
  BY DEF Join, ServerOK
<1>2. record' \in Lists /\ Me \in DOMAIN record' /\ record'[Me] = {}
  BY <1>1, WithFacts, MeIsAUser DEF ServerOK
<1>3. job' \in [Users -> Jobs] /\ job'[Me] # Idle
  BY <1>1, JobTypes, MeIsAUser DEF ServerOK
<1>4. Session'
  BY <1>2 DEF Session
<1> QED
  BY <1>1, <1>2, <1>3, <1>4, MeIsAUser DEF ServerOK

LEMMA EndFacts ==
  ASSUME ServerOK, SessionEnds
  PROVE  ServerOK' /\ Session /\ ~Session' /\ inbox' = <<>> /\ sent' = <<>>
<1>1. /\ Session /\ record' = Without(record, Me) /\ job' = [job EXCEPT ![Me] = Idle]
      /\ inbox' = <<>> /\ sent' = <<>>
  BY DEF SessionEnds
<1>2. record' \in Lists /\ Me \notin DOMAIN record'
  BY <1>1, WithoutFacts, MeIsAUser DEF ServerOK
<1>3. job' \in [Users -> Jobs] /\ job'[Me] = Idle
  BY <1>1, JobTypes, MeIsAUser DEF ServerOK
<1> QED
  BY <1>1, <1>2, <1>3 DEF ServerOK, Session

-----------------------------------------------------------------------------
(* What the page shows. *)

LEMMA DerivedType ==
  ASSUME NEW list \in Lists, NEW there
  PROVE  Derived(list, there) \subseteq Users \cup {None}
BY ListFacts, MeIsAUser DEF Derived, Sharers

(* syncParticipants. *)
LEMMA SyncedFacts ==
  ASSUME ShownOK, NEW list \in Lists, NEW there \in BOOLEAN, Synced(list, there),
         Session' => there
  PROVE  ShownOK'
<1> DEFINE mine == there /\ Me \in DOMAIN list
<1>1. /\ participants' = list
      /\ self' = IF mine THEN list[Me] ELSE self
      /\ handRaised' = IF mine THEN "handRaised" \in list[Me] ELSE handRaised
      /\ activeSharerId' \in Derived(list, there)
  BY DEF Synced
<1>2. activeSharerId' \in Users \cup {None} /\ self' \in SUBSET Flags
  BY <1>1, DerivedType, ListFacts DEF ShownOK
<1>3. handRaised' \in BOOLEAN
  <2>1. ("handRaised" \in list[Me]) \in BOOLEAN /\ handRaised \in BOOLEAN
    BY DEF ShownOK
  <2> QED
    BY <1>1, <2>1
<1>4. Session' /\ Me \in DOMAIN participants' => participants'[Me] = self'
  BY <1>1
<1> QED
  BY <1>1, <1>2, <1>3, <1>4 DEF ShownOK

(* What the page says of itself. *)
LEMMA ShowSelfFacts ==
  ASSUME ShownOK, NEW flags \in SUBSET Flags, ShowSelf(flags), Session' <=> Session,
         activeSharerId' \in Users \cup {None}, handRaised' \in BOOLEAN
  PROVE  ShownOK'
<1>1. CASE Session
  BY <1>1, WithFacts, MeIsAUser DEF ShowSelf, ShownOK
<1>2. CASE ~Session
  BY <1>2 DEF ShowSelf, ShownOK
<1> QED
  BY <1>1, <1>2

LEMMA ReceiveShown ==
  ASSUME ServerOK, ShownOK, Receive
  PROVE  ShownOK'
<1> DEFINE m == Head(inbox)
           list == CASE m.type = "peer-joined" -> With(participants, m.from, {})
                     [] m.type = "peer-left"   -> Without(participants, m.from)
                     [] OTHER -> Flagged(participants, m.from, StatusFlag(m.type), m.body)
<1>1. Session' /\ m \in Messages
  BY TakenFacts
<1>2. CASE m.type = "participants"
  <2>1. m.body \in Lists /\ Synced(m.body, TRUE)
    BY <1>1, <1>2 DEF Messages, Receive, StatusTypes
  <2> HIDE DEF m
  <2> QED
    BY <2>1, SyncedFacts
<1>3. CASE m.type # "participants"
  <2>1. m.from \in Users /\ m.body \in BOOLEAN
    BY <1>1, <1>3 DEF Messages
  <2>2. list \in Lists
    <3>1. {} \in SUBSET Flags /\ StatusFlag(m.type) \in Flags /\ participants \in Lists
      BY StatusFlagType DEF ShownOK
    <3>2. Flagged(participants, m.from, StatusFlag(m.type), m.body) \in Lists
      BY <2>1, <3>1, FlaggedFacts
    <3>3. With(participants, m.from, {}) \in Lists /\ Without(participants, m.from) \in Lists
      BY <2>1, <3>1, WithFacts, WithoutFacts
    <3> QED
      BY <3>2, <3>3
  <2>3. /\ participants' = list /\ handRaised' = handRaised
        /\ self' = IF Me \in DOMAIN list THEN list[Me] ELSE self
        /\ activeSharerId' \in {m.from, activeSharerId} \cup Derived(list, TRUE)
    BY <1>3 DEF Receive
  <2> HIDE DEF list, m
  <2>4. activeSharerId' \in Users \cup {None} /\ self' \in SUBSET Flags
    BY <2>1, <2>2, <2>3, DerivedType, ListFacts DEF ShownOK
  <2> QED
    BY <2>2, <2>3, <2>4 DEF ShownOK
<1> QED
  BY <1>2, <1>3

(* stopScreenShare up to its await. *)
LEMMA StopShown ==
  ASSUME ShownOK, NEW ended, stopScreenShare(ended)
  PROVE  ShownOK'
<1>1. Put(self, "screenSharing", FALSE) \in SUBSET Flags
  BY PutFacts DEF ShownOK, Flags
<1>2. /\ ShowSelf(Put(self, "screenSharing", FALSE)) /\ (Session' <=> Session)
      /\ activeSharerId' \in Users \cup {None} /\ handRaised' \in BOOLEAN
  BY DEF stopScreenShare, ShownOK, Session, server
<1> QED
  BY <1>1, <1>2, ShowSelfFacts

(* What is announced when a start or stop is through. *)
Announcement(start, muted) ==
  <<Status(IF start THEN "screen-share-started" ELSE "screen-share-stopped", start),
    Status("mute-changed", muted)>>

LEMMA AnnouncedFacts ==
  ASSUME ServerOK, ShownOK, NEW start \in BOOLEAN, Announced(start),
         UNCHANGED <<record, job, inbox, activeSharerId, handRaised>>
  PROVE  /\ ServerOK' /\ ShownOK' /\ (Session' <=> Session)
         /\ \E muted \in BOOLEAN :
              /\ muted <=> Muted
              /\ Announcement(start, muted) \in Seq(StatusMessages)
              /\ sent' = IF Session THEN sent \o Announcement(start, muted) ELSE sent
<1> PICK muted \in BOOLEAN : muted = Muted
  BY DEF Muted
<1> DEFINE flags == Put(IF start THEN Put(self, "screenSharing", TRUE) ELSE self, "videoMuted", muted)
<1>1. flags \in SUBSET Flags
  <2>1. "screenSharing" \in Flags /\ "videoMuted" \in Flags /\ self \in SUBSET Flags
    BY DEF Flags, ShownOK
  <2> DEFINE shares == IF start THEN Put(self, "screenSharing", TRUE) ELSE self
  <2>2. shares \in SUBSET Flags
    BY <2>1, PutFacts
  <2> HIDE DEF shares
  <2>3. Put(shares, "videoMuted", muted) \in SUBSET Flags
    BY <2>1, <2>2, PutFacts
  <2> QED
    BY <2>3 DEF shares
<1>2. Announcement(start, muted) \in Seq(StatusMessages)
  <2>1. {"screen-share-started", "screen-share-stopped", "mute-changed"} \subseteq StatusTypes
    BY DEF StatusTypes
  <2> QED
    BY <2>1, MessageTypes DEF Announcement
<1>3. ShowSelf(flags) /\ sendSignal(Announcement(start, muted))
  BY DEF Announced, Announcement
<1> HIDE DEF flags
<1>4. ServerOK' /\ (Session' <=> Session)
  BY <1>2, <1>3, SendFacts
<1>5. ShownOK'
  <2>1. activeSharerId' \in Users \cup {None} /\ handRaised' \in BOOLEAN
    BY DEF ShownOK
  <2> QED
    BY <1>1, <1>3, <1>4, <2>1, ShowSelfFacts
<1>6. sent' = IF Session THEN sent \o Announcement(start, muted) ELSE sent
  BY <1>3 DEF sendSignal
<1> QED
  BY <1>2, <1>4, <1>5, <1>6

LEMMA SwitchedFacts ==
  ASSUME ServerOK, ShownOK, MediaOK, Switched
  PROVE  /\ ServerOK' /\ ShownOK' /\ (Session' <=> Session)
         /\ switches' \in Seq({"start", "stop"})
         /\ \E muted \in BOOLEAN :
              /\ muted <=> Muted
              /\ Announcement(Head(switches) = "start", muted) \in Seq(StatusMessages)
              /\ sent' = IF Session THEN sent \o Announcement(Head(switches) = "start", muted) ELSE sent
<1>1. /\ (Head(switches) = "start") \in BOOLEAN
      /\ switches' \in Seq({"start", "stop"})
  BY HeadTailProperties DEF MediaOK, Switched
<1>2. /\ Announced(Head(switches) = "start")
      /\ UNCHANGED <<record, job, inbox, activeSharerId, handRaised>>
  BY DEF Switched
<1> QED
  BY <1>1, <1>2, AnnouncedFacts

(* toggleVideo and toggleHandRaise show and tell the new state. *)
LEMMA VideoFacts ==
  ASSUME ServerOK, ShownOK, toggleVideo
  PROVE  /\ ServerOK' /\ ShownOK' /\ Session /\ Session'
         /\ \E muted \in BOOLEAN : /\ muted <=> Muted
                                   /\ Status("mute-changed", muted) \in StatusMessages
                                   /\ sent' = Append(sent, Status("mute-changed", muted))
<1> PICK muted \in BOOLEAN : muted = Muted
  BY DEF Muted
<1>1. /\ Session /\ ShowSelf(Put(self, "videoMuted", muted))
      /\ sendSignal(<<Status("mute-changed", muted)>>)
      /\ UNCHANGED <<record, job, inbox, activeSharerId, handRaised>>
  BY DEF toggleVideo
<1>2. Status("mute-changed", muted) \in StatusMessages
  BY MessageTypes DEF StatusTypes
<1>3. <<Status("mute-changed", muted)>> \in Seq(StatusMessages)
  BY <1>2
<1>4. ServerOK' /\ Session'
  BY <1>1, <1>3, SendFacts
<1>5. ShownOK'
  <2>1. Put(self, "videoMuted", muted) \in SUBSET Flags
    BY PutFacts DEF ShownOK, Flags
  <2>2. activeSharerId' \in Users \cup {None} /\ handRaised' \in BOOLEAN
    BY <1>1 DEF ShownOK
  <2> QED
    BY <1>1, <1>4, <2>1, <2>2, ShowSelfFacts
<1>6. sent' = Append(sent, Status("mute-changed", muted))
  BY <1>1, <1>2 DEF sendSignal, ServerOK
<1> QED
  BY <1>1, <1>2, <1>4, <1>5, <1>6

LEMMA HandFacts ==
  ASSUME ServerOK, ShownOK, toggleHandRaise
  PROVE  /\ ServerOK' /\ ShownOK' /\ Session /\ Session'
         /\ handButton' = handRaised' /\ handRaised' \in BOOLEAN
         /\ Status("hand-raised", handRaised') \in StatusMessages
         /\ sent' = Append(sent, Status("hand-raised", handRaised'))
<1> PICK up \in BOOLEAN : up = ~handRaised
  BY DEF ShownOK
<1>1. /\ Session /\ handRaised' = up /\ handButton' = up /\ ShowSelf(Put(self, "handRaised", up))
      /\ sendSignal(<<Status("hand-raised", up)>>)
      /\ UNCHANGED <<record, job, inbox, activeSharerId>>
  BY DEF toggleHandRaise
<1>2. Status("hand-raised", up) \in StatusMessages
  BY MessageTypes DEF StatusTypes
<1>3. <<Status("hand-raised", up)>> \in Seq(StatusMessages)
  BY <1>2
<1>4. ServerOK' /\ Session'
  BY <1>1, <1>3, SendFacts
<1>5. ShownOK'
  <2>1. Put(self, "handRaised", up) \in SUBSET Flags
    BY PutFacts DEF ShownOK, Flags
  <2>2. activeSharerId' \in Users \cup {None} /\ handRaised' \in BOOLEAN
    BY <1>1 DEF ShownOK
  <2> QED
    BY <1>1, <1>4, <2>1, <2>2, ShowSelfFacts
<1>6. sent' = Append(sent, Status("hand-raised", up))
  BY <1>1, <1>2 DEF sendSignal, ServerOK
<1> QED
  BY <1>1, <1>2, <1>4, <1>5, <1>6

-----------------------------------------------------------------------------
(* Types. *)

(* There is a stream to switch off while the page shares. *)
SharedStream == isScreenSharing <=> screenStream # None

LEMMA InitTypeOK == Init => TypeOK
<1> SUFFICES ASSUME Init PROVE ServerOK /\ ShownOK /\ MediaOK
  BY TypesSplit
<1>1. ServerOK
  <2>1. ~Session
    BY ListFacts DEF Init, Session
  <2>2. record \in Lists /\ job \in [Users -> Jobs] /\ job[Me] = Idle
    BY ListFacts, JobTypes, MeIsAUser DEF Init
  <2>3. inbox = <<>> /\ sent = <<>>
    BY DEF Init
  <2> QED
    BY <2>1, <2>2, <2>3 DEF ServerOK
<1>2. ShownOK
  BY ListFacts DEF Init, ShownOK
<1>3. MediaOK
  <2>1. refresh \in [stage : {"none", "asked", "answered"}, list : Lists]
    BY ListFacts DEF Init, Request
  <2>2. history \in Histories
    BY DEF Init, Histories
  <2>3. call \in [Captures -> {"idle", "prompt", "tuning", "done"}] /\ switches \in Seq({"start", "stop"})
    BY DEF Init
  <2>4. count \in [joins : Nat, news : Nat, clicks : Nat]
    BY DEF Init
  <2>5. /\ handButton = FALSE /\ isScreenSharing = FALSE /\ localStream = None /\ screenStream = None
        /\ off = {} /\ live = {}
    BY DEF Init
  <2> QED
    BY <2>1, <2>2, <2>3, <2>4, <2>5 DEF MediaOK
<1> QED
  BY <1>1, <1>2, <1>3

(* A step that leaves server and stage alone. *)
LEMMA TypesFrame ==
  ASSUME ServerOK, ShownOK
  PROVE  /\ UNCHANGED server => ServerOK' /\ (Session' <=> Session)
         /\ UNCHANGED shown /\ (Session' <=> Session) => ShownOK'
BY DEF ServerOK, ShownOK, Session, server, shown

(* The steps of the server. *)
LEMMA ServerTypes ==
  ASSUME ServerOK, ShownOK, MediaOK,
         \/ handleSignalMessage
         \/ \E u \in Others : News(u)
         \/ \E u \in Users : Broadcast(u) \/ SnapshotParticipants(u)
  PROVE  ServerOK' /\ ShownOK' /\ MediaOK'
<1>1. ServerOK' /\ (Session' <=> Session)
  BY ReadFacts, NewsFacts, BroadcastFacts, SnapshotFacts
<1>2. /\ UNCHANGED <<shown, refresh, handButton, media, off, call, switches, history>>
      /\ count' \in [joins : Nat, news : Nat, clicks : Nat]
  <2>1. CASE handleSignalMessage
    BY <2>1 DEF handleSignalMessage, MediaOK
  <2>2. ASSUME NEW u \in Others, News(u)
        PROVE  /\ UNCHANGED <<shown, refresh, handButton, media, off, call, switches, history>>
               /\ count' = [count EXCEPT !["news"] = @ + 1]
    BY <2>2 DEF News, Counted
  <2>3. ASSUME NEW u \in Users, Broadcast(u) \/ SnapshotParticipants(u)
        PROVE  UNCHANGED <<shown, refresh, handButton, media, off, call, switches, count, history>>
    BY <2>3 DEF Broadcast, SnapshotParticipants
  <2>4. [count EXCEPT !["news"] = @ + 1] \in [joins : Nat, news : Nat, clicks : Nat]
    BY DEF MediaOK
  <2> QED
    BY <2>1, <2>2, <2>3, <2>4 DEF MediaOK
<1>3. ShownOK'
  BY <1>1, <1>2, TypesFrame
<1>4. MediaOK'
  BY <1>2 DEF MediaOK, media
<1> QED
  BY <1>1, <1>3, <1>4

(* refreshRoom. *)
LEMMA RefreshTypes ==
  ASSUME ServerOK, ShownOK, MediaOK, ClickRefresh \/ Answer \/ Refreshed
  PROVE  ServerOK' /\ ShownOK' /\ MediaOK'
<1>1. UNCHANGED <<server, handButton, media, off, call, switches, history>>
  BY DEF ClickRefresh, Answer, Refreshed
<1>2. ServerOK' /\ (Session' <=> Session)
  BY <1>1, TypesFrame
<1>3. refresh' \in [stage : {"none", "asked", "answered"}, list : Lists]
  BY ListFacts DEF MediaOK, ServerOK, ClickRefresh, Answer, Refreshed, Request
<1>4. count' \in [joins : Nat, news : Nat, clicks : Nat]
  BY DEF MediaOK, ClickRefresh, Answer, Refreshed, Counted
<1>5. ShownOK'
  <2>1. CASE Refreshed
    <3>1. Synced(refresh.list, Session) /\ refresh.list \in Lists /\ Session \in BOOLEAN
      BY <2>1 DEF Refreshed, MediaOK, Session
    <3> QED
      BY <1>2, <3>1, SyncedFacts
  <2>2. CASE ClickRefresh \/ Answer
    BY <1>2, <2>2, TypesFrame DEF ClickRefresh, Answer
  <2> QED
    BY <2>1, <2>2
<1> QED
  BY <1>1, <1>2, <1>3, <1>4, <1>5 DEF MediaOK, media

LEMMA SessionTypes ==
  ASSUME ServerOK, ShownOK, MediaOK, Join \/ Leave \/ CloseEvent
  PROVE  ServerOK' /\ ShownOK' /\ MediaOK'
<1>1. CASE Join
  <2>1. ServerOK' /\ Session' /\ record' \in Lists /\ Synced(record', TRUE)
    BY <1>1, JoinFacts DEF Join, ServerOK
  <2>2. ShownOK'
    <3> DEFINE list == record'
    <3>1. list \in Lists /\ Synced(list, TRUE)
      BY <2>1
    <3> HIDE DEF list
    <3> QED
      BY <2>1, <3>1, SyncedFacts
  <2>3. /\ UNCHANGED <<refresh, handButton, screenStream, isScreenSharing, live, off, call, switches>>
        /\ localStream' \in Streams \cup {None}
        /\ count' \in [joins : Nat, news : Nat, clicks : Nat]
    BY <1>1 DEF Join, MediaOK, Streams, Counted
  <2>4. history' \in Histories
    <3>1. (localStream' \in off) \in BOOLEAN /\ history \in Histories
      BY DEF MediaOK
    <3>2. history' = [history EXCEPT !.dark = (localStream' \in off)]
      BY <1>1 DEF Join
    <3> QED
      BY <3>1, <3>2 DEF Histories
  <2> QED
    BY <2>1, <2>2, <2>3, <2>4 DEF MediaOK
<1>2. CASE Leave \/ CloseEvent
  <2>1. SessionEnds /\ live' \in SUBSET Captures
    BY <1>2 DEF Leave, CloseEvent, MediaOK
  <2>2. ServerOK' /\ ~Session'
    BY <2>1, EndFacts
  <2>3. ShownOK'
    BY <2>1, <2>2, ListFacts DEF SessionEnds, cleanupSocketState, ShownOK
  <2>4. history' \in Histories
    BY <2>1 DEF SessionEnds, MediaOK, Histories
  <2>5. /\ UNCHANGED <<refresh, handButton, localStream, off, call, switches, count>>
        /\ screenStream' = None /\ isScreenSharing' = FALSE
    BY <2>1 DEF SessionEnds, cleanupSocketState
  <2> QED
    BY <2>1, <2>2, <2>3, <2>4, <2>5 DEF MediaOK
<1> QED
  BY <1>1, <1>2

(* stopScreenShare up to its await. *)
LEMMA StopTypes ==
  ASSUME ServerOK, ShownOK, MediaOK, NEW ended, stopScreenShare(ended)
  PROVE  ServerOK' /\ ShownOK' /\ MediaOK'
<1>1. UNCHANGED <<server, refresh, handButton, off, call, count, history>>
  BY DEF stopScreenShare
<1>2. ServerOK' /\ ShownOK'
  BY <1>1, TypesFrame, StopShown
<1>3. /\ switches' \in Seq({"start", "stop"}) /\ live' \in SUBSET Captures /\ screenStream' = None
      /\ localStream' \in Streams /\ isScreenSharing' = FALSE
  BY DEF stopScreenShare, stopScreenStreamOnly, Fallback, MediaOK, Streams
<1> QED
  BY <1>1, <1>2, <1>3 DEF MediaOK

LEMMA ShareTypes ==
  ASSUME ServerOK, ShownOK, MediaOK, NEW c \in Captures,
         ClickShare(c) \/ Refused(c) \/ Granted(c) \/ startScreenShare(c) \/ CaptureEnds(c)
  PROVE  ServerOK' /\ ShownOK' /\ MediaOK'
<1>1. CASE ClickShare(c) \/ Refused(c) \/ Granted(c)
  <2>1. /\ UNCHANGED <<server, refresh, shown, handButton, localStream, screenStream, isScreenSharing,
                        off, switches, count>>
        /\ call' \in [Captures -> {"idle", "prompt", "tuning", "done"}]
        /\ live' \in SUBSET Captures
    BY <1>1 DEF MediaOK, ClickShare, Refused, Granted, media
  <2>2. history' \in Histories
    BY <1>1 DEF MediaOK, Histories, ClickShare, Refused, Granted
  <2> QED
    BY <2>1, <2>2, TypesFrame DEF MediaOK
<1>2. CASE startScreenShare(c)
  <2>1. /\ UNCHANGED <<server, refresh, participants, self, handRaised, handButton, live, off, count,
                        history>>
        /\ call' \in [Captures -> {"idle", "prompt", "tuning", "done"}]
        /\ screenStream' = c /\ localStream' = c /\ isScreenSharing' = TRUE
        /\ switches' \in Seq({"start", "stop"})
        /\ activeSharerId' \in Users \cup {None}
    BY <1>2, MeIsAUser DEF MediaOK, startScreenShare
  <2>2. ServerOK' /\ (Session' <=> Session)
    BY <2>1, TypesFrame
  <2> QED
    BY <2>1, <2>2 DEF MediaOK, ShownOK, Streams
<1>3. CASE CaptureEnds(c)
  <2>1. CASE Heard(c) /\ isScreenSharing
    BY <1>3, <2>1, StopTypes DEF CaptureEnds
  <2>2. CASE ~(Heard(c) /\ isScreenSharing)
    <3>1. /\ UNCHANGED <<server, refresh, shown, handButton, localStream, screenStream,
                         isScreenSharing, off, call, switches, count>>
          /\ live' \in SUBSET Captures
      BY <1>3, <2>2 DEF MediaOK, CaptureEnds
    <3>2. history' \in Histories
      <4>1. history \in Histories /\ (history.missed \/ call[c] = "tuning") \in BOOLEAN
        BY DEF MediaOK
      <4> QED
        BY <1>3, <2>2, <4>1 DEF Histories, CaptureEnds
    <3> QED
      BY <3>1, <3>2, TypesFrame DEF MediaOK
  <2> QED
    BY <2>1, <2>2
<1> QED
  BY <1>1, <1>2, <1>3

(* A start or stop is through, or never will be; camera and hand. *)
LEMMA StatusTypesKept ==
  ASSUME ServerOK, ShownOK, MediaOK, SharedStream,
         Switched \/ SwitchFails \/ toggleVideo \/ toggleHandRaise
  PROVE  ServerOK' /\ ShownOK' /\ MediaOK'
<1>1. CASE Switched
  <2>1. ServerOK' /\ ShownOK' /\ switches' \in Seq({"start", "stop"})
    BY <1>1, SwitchedFacts
  <2>2. history' \in Histories /\ UNCHANGED <<refresh, handButton, media, off, call, count>>
    BY <1>1 DEF Switched, Announced, MediaOK, Histories
  <2> QED
    BY <2>1, <2>2 DEF MediaOK, media
<1>2. CASE SwitchFails
  <2>1. switches' \in Seq({"start", "stop"})
    BY <1>2, HeadTailProperties DEF SwitchFails, MediaOK
  <2>2. /\ history' \in Histories
        /\ UNCHANGED <<server, refresh, shown, handButton, media, off, call, count>>
    BY <1>2 DEF SwitchFails, MediaOK, Histories
  <2> QED
    BY <2>1, <2>2, TypesFrame DEF MediaOK, media
<1>3. CASE toggleVideo
  <2>1. ServerOK' /\ ShownOK'
    BY <1>3, VideoFacts
  <2>2. off' \in SUBSET Streams
    BY <1>3 DEF toggleVideo, MediaOK, Streams, SharedStream
  <2>3. history' \in Histories /\ count' \in [joins : Nat, news : Nat, clicks : Nat]
    <3>1. history' \in Histories
      BY <1>3 DEF toggleVideo, MediaOK, Histories
    <3>2. count' = [count EXCEPT !["clicks"] = @ + 1]
      BY <1>3 DEF toggleVideo, Counted
    <3> QED
      BY <3>1, <3>2 DEF MediaOK
  <2>4. UNCHANGED <<refresh, handButton, media, call, switches>>
    BY <1>3 DEF toggleVideo
  <2> QED
    BY <2>1, <2>2, <2>3, <2>4 DEF MediaOK, media
<1>4. CASE toggleHandRaise
  <2>1. ServerOK' /\ ShownOK' /\ handButton' \in BOOLEAN
    BY <1>4, HandFacts
  <2>2. history' \in Histories /\ count' \in [joins : Nat, news : Nat, clicks : Nat]
    <3>1. history' \in Histories
      BY <1>4 DEF toggleHandRaise, MediaOK, Histories
    <3>2. count' = [count EXCEPT !["clicks"] = @ + 1]
      BY <1>4 DEF toggleHandRaise, Counted
    <3> QED
      BY <3>1, <3>2 DEF MediaOK
  <2>3. UNCHANGED <<refresh, media, off, call, switches>>
    BY <1>4 DEF toggleHandRaise
  <2> QED
    BY <2>1, <2>2, <2>3 DEF MediaOK, media
<1> QED
  BY <1>1, <1>2, <1>3, <1>4

LEMMA NextTypeOK == TypeOK /\ SharedStream /\ [Next]_vars => TypeOK'
<1> SUFFICES ASSUME ServerOK, ShownOK, MediaOK, SharedStream, [Next]_vars
             PROVE  ServerOK' /\ ShownOK' /\ MediaOK'
  BY TypesSplit, TypesSplitNext
<1>1. CASE \/ handleSignalMessage
           \/ \E u \in Others : News(u)
           \/ \E u \in Users : Broadcast(u) \/ SnapshotParticipants(u)
  BY <1>1, ServerTypes
<1>2. CASE Receive
  <2>1. ServerOK' /\ ShownOK'
    BY <1>2, TakenFacts, ReceiveShown
  <2>2. UNCHANGED <<refresh, handButton, media, off, call, switches, count, history>>
    BY <1>2 DEF Receive
  <2> QED
    BY <2>1, <2>2 DEF MediaOK, media
<1>3. CASE ClickRefresh \/ Answer \/ Refreshed
  BY <1>3, RefreshTypes
<1>4. CASE Join \/ Leave \/ CloseEvent
  BY <1>4, SessionTypes
<1>5. CASE \E c \in Captures :
             ClickShare(c) \/ Refused(c) \/ Granted(c) \/ startScreenShare(c) \/ CaptureEnds(c)
  BY <1>5, ShareTypes
<1>6. CASE ClickStop
  BY <1>6, StopTypes DEF ClickStop
<1>7. CASE Switched \/ SwitchFails \/ toggleVideo \/ toggleHandRaise
  BY <1>7, StatusTypesKept
<1>8. CASE AtRest \/ UNCHANGED vars
  BY <1>8, TypesFrame DEF AtRest, vars, media, MediaOK
<1> QED
  BY <1>1, <1>2, <1>3, <1>4, <1>5, <1>6, <1>7, <1>8 DEF Next

-----------------------------------------------------------------------------
(* What the page sends. *)

(* How captures, calls and sessions go together: a page that shares sends  *)
(* a capture whose call is over; a user who waits has one call and shares  *)
(* nothing yet; a capture that waits for its constraints runs; and unless  *)
(* a session was torn, nothing is left of it when it has ended.            *)
SharingInv ==
  /\ SharedStream
  /\ isScreenSharing => localStream = screenStream /\ call[screenStream] = "done"
  /\ \A c \in live : call[c] \in {"tuning", "done"}
  /\ ~history.hasty => /\ \A c, d \in Pending : c = d
                       /\ Pending # {} => ~isScreenSharing
  /\ ~history.missed => \A c \in Captures : call[c] = "tuning" => c \in live
  /\ Session \/ isScreenSharing \/ Pending # {} => count.joins > 0
  /\ count.joins > 0 => localStream # None
  /\ ~history.torn /\ ~Session => switches = <<>> /\ Pending = {}
  /\ CaptureKnown
  /\ OnlyTheShareIsSent
  /\ ShareIsLive
  /\ ShareIsInSession

(* What is not told yet of the share and the camera is on its way: the     *)
(* last of the starts and stops that wait says how the page is now, and    *)
(* what is sent and not read says the rest.                                *)
WillBe(flag, up) == Leaves(sent, record[Me], flag, up)

FlagInv ==
  Session /\ ~history.torn /\ ~history.cut =>
    IF switches = <<>> THEN WillBe("screenSharing", isScreenSharing)
    ELSE switches[Len(switches)] = "start" <=> isScreenSharing

MuteInv ==
  Session /\ ~history.cut /\ ~history.dark /\ switches = <<>> =>
    WillBe("videoMuted", localStream \in off)

(* The server will have the hand as the button has it. *)
HandInv ==
  ~history.kept => IF Session THEN WillBe("handRaised", handButton) ELSE ~handButton

(* Who is on stage when all is done: a list has had the last word. *)
StageInv ==
  Quiet /\ Session /\ ~history.cut => activeSharerId \in Derived(participants, TRUE)

Shown ==
  /\ FlagInv
  /\ MuteInv
  /\ EndsWithList
  /\ HandInv
  /\ StageInv

(* The inductive invariant. *)
IInv == TypeOK /\ SharingInv /\ Shown

-----------------------------------------------------------------------------
(* SharingInv is kept. *)

LEMMA InitSharing == Init => SharingInv
<1> SUFFICES ASSUME Init PROVE SharingInv
  OBVIOUS
<1>1. Pending = {} /\ ~Session /\ live = {} /\ switches = <<>>
  BY ListFacts DEF Init, Pending, Session
<1> QED
  BY <1>1 DEF Init, SharingInv, SharedStream, CaptureKnown, OnlyTheShareIsSent,
              ShareIsLive, ShareIsInSession

(* A step that touches neither media nor calls. *)
LEMMA SharingFrame ==
  ASSUME SharingInv, UNCHANGED <<media, call>>, Session' <=> Session,
         count'.joins = count.joins,
         history'.hasty = history.hasty, history'.missed = history.missed,
         history'.torn = history.torn, history'.forsaken = history.forsaken,
         switches = <<>> => switches' = <<>>
  PROVE  SharingInv'
<1>1. /\ localStream' = localStream /\ screenStream' = screenStream /\ live' = live
      /\ isScreenSharing' = isScreenSharing /\ call' = call /\ Pending' = Pending
  BY DEF media, Pending
<1> QED
  BY <1>1 DEF SharingInv, SharedStream, CaptureKnown, OnlyTheShareIsSent,
              ShareIsLive, ShareIsInSession

(* toggleScreenShare begins, or is refused, or has its capture. *)
LEMMA CallKeepsSharing ==
  ASSUME TypeOK, SharingInv, NEW c \in Captures, ClickShare(c) \/ Refused(c) \/ Granted(c)
  PROVE  SharingInv'
<1>1. /\ UNCHANGED <<server, localStream, screenStream, isScreenSharing, switches, count>>
      /\ history'.torn = history.torn /\ history'.forsaken = history.forsaken
      /\ history'.missed = history.missed
      /\ history'.hasty = (history.hasty \/ (ClickShare(c) /\ Pending # {}))
      /\ Session' <=> Session
  BY DEF TypeOK, ClickShare, Refused, Granted, media, Session, server
<1>2. call' = [call EXCEPT ![c] = call'[c]] /\ call \in [Captures -> {"idle", "prompt", "tuning", "done"}]
      /\ live \subseteq Captures
  BY DEF TypeOK, ClickShare, Refused, Granted
<1> USE DEF SharingInv, SharedStream, CaptureKnown, OnlyTheShareIsSent, ShareIsLive, ShareIsInSession
<1>3. CASE ClickShare(c)
  <2>1. /\ Session /\ ~isScreenSharing /\ live' = live
        /\ call[c] = "idle" /\ call'[c] = "prompt" /\ Pending' = Pending \cup {c}
    BY <1>2, <1>3 DEF ClickShare, media, Pending
  <2> QED
    BY <1>1, <1>2, <1>3, <2>1
<1>4. CASE Refused(c)
  <2>1. /\ ~ClickShare(c) /\ live' = live /\ c \in Pending
        /\ call[c] = "prompt" /\ call'[c] = "done" /\ Pending' = Pending \ {c}
    BY <1>2, <1>4 DEF ClickShare, Refused, media, Pending
  <2>2. c \notin live /\ (isScreenSharing => c # screenStream)
    BY <2>1
  <2>3. \A d \in Captures : d # c => call'[d] = call[d]
    BY <1>2
  <2>4. /\ isScreenSharing => call'[screenStream] = "done"
        /\ \A d \in live' : call'[d] \in {"tuning", "done"}
        /\ ~history.missed => \A d \in Captures : call'[d] = "tuning" => d \in live'
    BY <1>2, <2>1, <2>2, <2>3 DEF TypeOK
  <2> QED
    BY <1>1, <2>1, <2>4
<1>5. CASE Granted(c)
  <2>1. /\ ~ClickShare(c) /\ live' = live \cup {c} /\ c \in Pending
        /\ call[c] = "prompt" /\ call'[c] = "tuning" /\ Pending' = Pending
    BY <1>2, <1>5 DEF ClickShare, Granted, Pending
  <2>2. c \notin live /\ (isScreenSharing => c # screenStream)
    BY <2>1
  <2>3. \A d \in Captures : d # c => call'[d] = call[d]
    BY <1>2
  <2>4. /\ isScreenSharing => call'[screenStream] = "done"
        /\ \A d \in live' : call'[d] \in {"tuning", "done"}
        /\ ~history.missed => \A d \in Captures : call'[d] = "tuning" => d \in live'
    BY <1>2, <2>1, <2>2, <2>3 DEF TypeOK
  <2> QED
    BY <1>1, <2>1, <2>4
<1> QED
  BY <1>3, <1>4, <1>5

(* startScreenShare. *)
LEMMA StartKeepsSharing ==
  ASSUME TypeOK, SharingInv, NEW c \in Captures, startScreenShare(c)
  PROVE  SharingInv'
<1>1. /\ UNCHANGED <<server, live, count, history>> /\ (Session' <=> Session)
      /\ screenStream' = c /\ localStream' = c /\ isScreenSharing' = TRUE
  BY DEF startScreenShare, Session, server
<1>2. /\ call[c] = "tuning" /\ call'[c] = "done" /\ c \in Pending
      /\ \A d \in Captures : d # c => call'[d] = call[d]
      /\ Pending' = Pending \ {c}
  BY DEF TypeOK, startScreenShare, Pending
<1>3. c # None /\ None \notin Captures
  BY ScreenShareAssumption DEF Streams
<1> QED
  BY <1>1, <1>2, <1>3 DEF TypeOK, SharingInv, SharedStream, CaptureKnown, OnlyTheShareIsSent,
                          ShareIsLive, ShareIsInSession

(* stopScreenShare, for captures whose call is over. *)
LEMMA StopKeepsSharing ==
  ASSUME TypeOK, SharingInv, isScreenSharing, NEW ended,
         \A c \in ended : c \in Captures /\ call[c] = "done",
         stopScreenShare(ended)
  PROVE  SharingInv'
<1>1. /\ UNCHANGED <<server, call, count, history>> /\ (Session' <=> Session) /\ Pending' = Pending
      /\ screenStream' = None /\ localStream' = Camera /\ isScreenSharing' = FALSE
      /\ live' = live \ ({screenStream} \cup ended)
  BY DEF stopScreenShare, stopScreenStreamOnly, Fallback, Session, Pending, server
<1>2. Camera # None
  BY ScreenShareAssumption DEF Streams
<1>3. \A c \in Captures : call[c] = "tuning" /\ c \in live => c \in live'
  BY <1>1 DEF SharingInv
<1>4. ~history.torn => Session
  BY DEF SharingInv, ShareIsInSession
<1>5. count.joins > 0
  BY DEF SharingInv
<1> QED
  BY <1>1, <1>2, <1>3, <1>4, <1>5 DEF TypeOK, SharingInv, SharedStream, CaptureKnown,
       OnlyTheShareIsSent, ShareIsLive, ShareIsInSession

(* A capture that ends unheard was not shared. *)
LEMMA UnheardEndKeepsSharing ==
  ASSUME TypeOK, SharingInv, NEW c \in Captures, CaptureEnds(c), ~(Heard(c) /\ isScreenSharing)
  PROVE  SharingInv'
<1>1. /\ UNCHANGED <<server, localStream, screenStream, isScreenSharing, call, switches, count>>
      /\ live' = live \ {c} /\ (Session' <=> Session) /\ Pending' = Pending
      /\ history'.torn = history.torn /\ history'.forsaken = history.forsaken
      /\ history'.hasty = history.hasty
      /\ history'.missed = (history.missed \/ call[c] = "tuning")
  BY DEF TypeOK, CaptureEnds, Session, Pending, server
<1>2. isScreenSharing => screenStream # c
  BY DEF SharingInv, Heard
<1> QED
  BY <1>1, <1>2 DEF SharingInv, SharedStream, CaptureKnown, OnlyTheShareIsSent,
                    ShareIsLive, ShareIsInSession

(* The end of a session, which may tear a share or forsake a capture. *)
LEMMA EndKeepsSharing ==
  ASSUME TypeOK, SharingInv, Leave \/ CloseEvent
  PROVE  SharingInv'
<1>1. /\ UNCHANGED <<localStream, call, switches, count>> /\ Session /\ ~Session' /\ Pending' = Pending
      /\ screenStream' = None /\ isScreenSharing' = FALSE
      /\ history'.torn = (history.torn \/ Pending # {} \/ switches # <<>>)
      /\ history'.forsaken = (history.forsaken \/ isScreenSharing)
      /\ history'.hasty = history.hasty /\ history'.missed = history.missed
  <2>1. SessionEnds
    BY DEF Leave, CloseEvent
  <2> QED
    BY <2>1, TypesSplit, EndFacts DEF TypeOK, SessionEnds, cleanupSocketState, Pending
<1>2. live' \subseteq live /\ live \ {screenStream} \subseteq live'
  BY DEF Leave, CloseEvent
<1>3. \A c \in Captures : call[c] = "tuning" /\ c \in live => c \in live'
  <2>1. None \notin Captures
    BY ScreenShareAssumption DEF Streams
  <2> QED
    BY <1>2, <2>1 DEF SharingInv, SharedStream
<1> QED
  BY <1>1, <1>2, <1>3 DEF TypeOK, SharingInv, SharedStream, CaptureKnown, OnlyTheShareIsSent,
                          ShareIsLive, ShareIsInSession

(* handleWelcome, with the stream that ensureLocalMedia found or made. *)
LEMMA JoinKeepsSharing ==
  ASSUME TypeOK, SharingInv, Join
  PROVE  SharingInv'
<1>1. /\ UNCHANGED <<screenStream, isScreenSharing, live, call, switches>> /\ Session' /\ ~Session
      /\ Pending' = Pending
      /\ localStream' = IF localStream = None THEN Camera ELSE localStream
      /\ history'.torn = history.torn /\ history'.forsaken = history.forsaken
      /\ history'.hasty = history.hasty /\ history'.missed = history.missed
      /\ count'.joins = count.joins + 1 /\ count.joins \in Nat
  BY TypesSplit, JoinFacts DEF TypeOK, Join, Counted, Pending
<1>2. Camera # None
  BY ScreenShareAssumption DEF Streams
<1> QED
  BY <1>1, <1>2 DEF SharingInv, SharedStream, CaptureKnown, OnlyTheShareIsSent,
                    ShareIsLive, ShareIsInSession

LEMMA NextSharing == TypeOK /\ SharingInv /\ [Next]_vars => SharingInv'
<1> SUFFICES ASSUME TypeOK, SharingInv, [Next]_vars PROVE SharingInv'
  OBVIOUS
<1> USE TypesSplit
<1>1. ASSUME UNCHANGED <<media, call, history>>, Session' <=> Session,
             count'.joins = count.joins, switches = <<>> => switches' = <<>>
      PROVE  SharingInv'
  BY <1>1, SharingFrame
<1>2. CASE handleSignalMessage
  <2>1. Session' <=> Session
    BY <1>2, ReadFacts
  <2> QED
    BY <1>1, <1>2, <2>1 DEF handleSignalMessage
<1>3. ASSUME NEW u \in Others, News(u) PROVE SharingInv'
  <2>1. (Session' <=> Session) /\ count'.joins = count.joins
    BY <1>3, NewsFacts DEF News, Counted, TypeOK
  <2> QED
    BY <1>1, <1>3, <2>1 DEF News
<1>4. ASSUME NEW u \in Users, Broadcast(u) \/ SnapshotParticipants(u) PROVE SharingInv'
  <2>1. Session' <=> Session
    BY <1>4, BroadcastFacts, SnapshotFacts
  <2>2. UNCHANGED <<media, call, history, count, switches>>
    BY <1>4 DEF Broadcast, SnapshotParticipants
  <2> QED
    BY <1>1, <2>1, <2>2
<1>5. CASE Receive
  <2>1. Session' <=> Session
    BY <1>5, TakenFacts
  <2> QED
    BY <1>1, <1>5, <2>1 DEF Receive
<1>6. CASE ClickRefresh \/ Answer \/ Refreshed
  <2>1. UNCHANGED <<server, media, call, history, switches>>
    BY <1>6 DEF ClickRefresh, Answer, Refreshed
  <2>2. count'.joins = count.joins
    BY <1>6 DEF ClickRefresh, Answer, Refreshed, Counted, TypeOK
  <2> QED
    BY <1>1, <2>1, <2>2 DEF server, Session
<1>7. CASE Switched \/ SwitchFails
  <2>1. Session' <=> Session
    <3>1. CASE Switched
      BY <3>1, SwitchedFacts
    <3>2. CASE SwitchFails
      BY <3>2 DEF SwitchFails, server, Session
    <3> QED
      BY <1>7, <3>1, <3>2
  <2>2. /\ history'.hasty = history.hasty /\ history'.missed = history.missed
        /\ history'.torn = history.torn /\ history'.forsaken = history.forsaken
    BY <1>7 DEF TypeOK, Switched, SwitchFails, Announced
  <2>3. UNCHANGED <<media, call, count>> /\ switches # <<>>
    BY <1>7 DEF Switched, SwitchFails
  <2> QED
    BY <2>1, <2>2, <2>3, SharingFrame
<1>8. CASE toggleVideo
  <2>1. /\ history'.hasty = history.hasty /\ history'.missed = history.missed
        /\ history'.torn = history.torn /\ history'.forsaken = history.forsaken
    BY <1>8 DEF TypeOK, toggleVideo
  <2>2. (Session' <=> Session) /\ count'.joins = count.joins
    BY <1>8, VideoFacts DEF toggleVideo, Counted, TypeOK
  <2> QED
    BY <1>8, <2>1, <2>2, SharingFrame DEF toggleVideo
<1>9. CASE toggleHandRaise
  <2>1. /\ history'.hasty = history.hasty /\ history'.missed = history.missed
        /\ history'.torn = history.torn /\ history'.forsaken = history.forsaken
    BY <1>9 DEF TypeOK, toggleHandRaise
  <2>2. (Session' <=> Session) /\ count'.joins = count.joins
    BY <1>9, HandFacts DEF toggleHandRaise, Counted, TypeOK
  <2> QED
    BY <1>9, <2>1, <2>2, SharingFrame DEF toggleHandRaise
<1>10. CASE AtRest \/ UNCHANGED vars
  BY <1>1, <1>10 DEF AtRest, vars, server, Session
<1>11. CASE \E c \in Captures : ClickShare(c) \/ Refused(c) \/ Granted(c)
  BY <1>11, CallKeepsSharing
<1>12. CASE \E c \in Captures : startScreenShare(c)
  BY <1>12, StartKeepsSharing
<1>13. ASSUME NEW c \in Captures, CaptureEnds(c) PROVE SharingInv'
  <2>1. CASE Heard(c) /\ isScreenSharing
    BY <1>13, <2>1, StopKeepsSharing DEF CaptureEnds, Heard
  <2> QED
    BY <1>13, <2>1, UnheardEndKeepsSharing
<1>14. CASE ClickStop
  BY <1>14, StopKeepsSharing DEF ClickStop
<1>15. CASE Leave \/ CloseEvent
  BY <1>15, EndKeepsSharing
<1>16. CASE Join
  BY <1>16, JoinKeepsSharing
<1> QED
  BY <1>2, <1>3, <1>4, <1>5, <1>6, <1>7, <1>8, <1>9, <1>10, <1>11, <1>12, <1>13, <1>14, <1>15,
     <1>16 DEF Next

-----------------------------------------------------------------------------
(* What the page and the others show, when all is done. *)

LEMMA InitShown == Init => Shown
<1> SUFFICES ASSUME Init PROVE Shown
  OBVIOUS
<1>1. ~Session /\ inbox = <<>> /\ handButton = FALSE
  BY ListFacts DEF Init, Session
<1> QED
  BY <1>1 DEF Shown, FlagInv, MuteInv, EndsWithList, HandInv, StageInv

(* A step that no flag depends on. *)
LEMMA FlagsFrame ==
  ASSUME FlagInv, MuteInv, HandInv, UNCHANGED <<sent, handButton, localStream, isScreenSharing, off, switches>>,
         Session' <=> Session, Session => record'[Me] = record[Me],
         history'.torn = history.torn, history'.cut = history.cut,
         history'.dark = history.dark, history'.kept = history.kept
  PROVE  FlagInv' /\ MuteInv' /\ HandInv'
BY DEF FlagInv, MuteInv, HandInv, WillBe

(* While a handler has something to do, all is not done. *)
LEMMA Busy ==
  ASSUME \E u \in Users : job'[u] # Idle
  PROVE  StageInv' /\ EndsWithList'
BY DEF StageInv, EndsWithList, Quiet

LEMMA ReadKeepsShown ==
  ASSUME TypeOK, Shown, handleSignalMessage
  PROVE  Shown'
<1> USE TypesSplit
<1>1. /\ UNCHANGED <<handButton, localStream, isScreenSharing, off, switches, history>>
      /\ Session /\ Session'
      /\ record'[Me] = Put(record[Me], StatusFlag(Head(sent).type), Head(sent).body)
      /\ sent # <<>> /\ sent' = Tail(sent)
      /\ \E u \in Users : job'[u] # Idle
  BY ReadFacts DEF handleSignalMessage, media
<1>2. record[Me] \in SUBSET Flags /\ sent \in Seq(StatusMessages)
  BY <1>1, ListFacts DEF TypeOK, Session
<1>3. ASSUME NEW flag \in Flags, NEW up \in BOOLEAN, WillBe(flag, up)
      PROVE  Leaves(sent', record'[Me], flag, up)
  BY <1>1, <1>2, <1>3, TailLeaves DEF WillBe
<1>4. "screenSharing" \in Flags /\ "videoMuted" \in Flags /\ "handRaised" \in Flags
  BY DEF Flags
<1>5. FlagInv'
  BY <1>1, <1>3, <1>4 DEF Shown, FlagInv, WillBe, TypeOK
<1>6. MuteInv'
  <2> PICK up \in BOOLEAN : up = (localStream \in off)
    <3>1. (localStream \in off) \in BOOLEAN
      OBVIOUS
    <3> QED
      BY <3>1
  <2> QED
    BY <1>1, <1>3, <1>4 DEF Shown, MuteInv, WillBe
<1>7. HandInv'
  BY <1>1, <1>3, <1>4 DEF Shown, HandInv, WillBe, TypeOK
<1> QED
  BY <1>1, <1>5, <1>6, <1>7, Busy DEF Shown

(* The other steps of the server touch no flag of the page. *)
LEMMA ServerKeepsShown ==
  ASSUME TypeOK, Shown,
         \/ \E u \in Others : News(u)
         \/ \E u \in Users : Broadcast(u) \/ SnapshotParticipants(u)
  PROVE  Shown'
<1> USE TypesSplit
<1>1. UNCHANGED <<sent, handButton, localStream, isScreenSharing, off, switches, history>>
  BY DEF News, Broadcast, SnapshotParticipants, media
<1>2. (Session' <=> Session) /\ (Session => record'[Me] = record[Me])
  BY NewsFacts, BroadcastFacts, SnapshotFacts
<1>3. FlagInv' /\ MuteInv' /\ HandInv'
  BY <1>1, <1>2, FlagsFrame DEF Shown
<1>4. StageInv' /\ EndsWithList'
  <2>1. CASE \/ \E u \in Others : News(u)
             \/ \E u \in Users : SnapshotParticipants(u)
    BY <2>1, NewsFacts, SnapshotFacts, Busy
  <2>2. ASSUME NEW u \in Users, Broadcast(u)
        PROVE  StageInv' /\ EndsWithList'
    <3>1. EndsWithList' /\ (Session' => inbox' # <<>>)
      BY <2>2, BroadcastFacts
    <3> QED
      BY <3>1 DEF StageInv, Quiet
  <2> QED
    BY <2>1, <2>2
<1> QED
  BY <1>3, <1>4 DEF Shown

(* The last message that the page hears is a list. *)
LEMMA ReceiveKeepsShown ==
  ASSUME TypeOK, Shown, Receive
  PROVE  Shown'
<1> USE TypesSplit
<1>1. /\ UNCHANGED <<sent, handButton, localStream, isScreenSharing, off, switches, history>>
      /\ Session /\ Session' /\ record' = record
      /\ EndsWithList'
      /\ inbox' = <<>> => Head(inbox).type = "participants" \/ \E u \in Users : job'[u] # Idle
  BY TakenFacts DEF Receive, Shown, media
<1>2. FlagInv' /\ MuteInv' /\ HandInv'
  BY <1>1, FlagsFrame DEF Shown
<1>3. StageInv'
  <2> SUFFICES ASSUME Quiet' PROVE activeSharerId' \in Derived(participants, TRUE)'
    BY DEF StageInv
  <2>1. Head(inbox).type = "participants"
    BY <1>1 DEF Quiet
  <2>2. Synced(Head(inbox).body, TRUE)
    BY <2>1 DEF Receive
  <2> QED
    BY <1>1, <2>2 DEF Synced, Derived
<1> QED
  BY <1>1, <1>2, <1>3 DEF Shown

(* The answer to a refresh, however old, brings its own stage. *)
LEMMA RefreshKeepsShown ==
  ASSUME TypeOK, Shown, ClickRefresh \/ Answer \/ Refreshed
  PROVE  Shown'
<1>1. UNCHANGED <<server, handButton, media, off, switches, history>>
  BY DEF ClickRefresh, Answer, Refreshed
<1>2. FlagInv' /\ MuteInv' /\ HandInv' /\ EndsWithList'
  BY <1>1, FlagsFrame DEF Shown, server, media, Session, EndsWithList
<1>3. StageInv'
  <2>1. CASE Refreshed
    <3>1. Synced(refresh.list, Session)
      BY <2>1 DEF Refreshed
    <3> QED
      BY <1>1, <3>1 DEF Synced, Derived, StageInv, Session, server, media
  <2>2. CASE ClickRefresh \/ Answer
    <3>1. UNCHANGED shown
      BY <2>2 DEF ClickRefresh, Answer
    <3> QED
      BY <1>1, <3>1 DEF Shown, StageInv, Quiet, Derived, Session, server, media, shown
  <2> QED
    BY <2>1, <2>2
<1> QED
  BY <1>2, <1>3 DEF Shown

(* A page that joins has no flag up: nothing is left of an earlier share,  *)
(* camera or hand, unless history says so.                                 *)
LEMMA JoinKeepsShown ==
  ASSUME TypeOK, SharingInv, Shown, Join
  PROVE  Shown'
<1> USE TypesSplit
<1>1. /\ UNCHANGED <<handButton, isScreenSharing, off, switches>>
      /\ ~Session /\ Session' /\ record'[Me] = {} /\ sent' = <<>>
      /\ \E u \in Users : job'[u] # Idle
  BY JoinFacts DEF Join
<1>2. /\ history'.torn = history.torn /\ history'.kept = history.kept
      /\ history'.dark = (localStream' \in off)
  BY DEF Join, TypeOK
<1>3. \A flag : Leaves(sent', record'[Me], flag, FALSE)
  BY <1>1, EmptyLeaves
<1>4. FlagInv'
  <2> SUFFICES ASSUME ~history.torn PROVE switches = <<>> /\ isScreenSharing = FALSE
    BY <1>1, <1>2, <1>3 DEF FlagInv, WillBe
  <2> QED
    BY <1>1 DEF SharingInv, ShareIsInSession, TypeOK
<1>5. MuteInv'
  <2> SUFFICES ASSUME ~(localStream' \in off) PROVE Leaves(sent', record'[Me], "videoMuted", (localStream \in off)')
    BY <1>2 DEF MuteInv, WillBe
  <2>1. (localStream \in off)' = FALSE
    BY <1>1
  <2> QED
    BY <1>3, <2>1
<1>6. HandInv'
  <2> SUFFICES ASSUME ~history.kept PROVE handButton = FALSE
    BY <1>1, <1>2, <1>3 DEF HandInv, WillBe
  <2> QED
    BY <1>1 DEF Shown, HandInv, TypeOK
<1> QED
  BY <1>1, <1>4, <1>5, <1>6, Busy DEF Shown

(* Without a session only the hand's button is left. *)
LEMMA EndKeepsShown ==
  ASSUME TypeOK, Leave \/ CloseEvent
  PROVE  Shown'
<1>1. SessionEnds
  BY DEF Leave, CloseEvent
<1>2. ~Session' /\ inbox' = <<>> /\ handButton' = handButton /\ history'.kept = handButton
  BY <1>1, TypesSplit, EndFacts DEF SessionEnds, TypeOK
<1> QED
  BY <1>2 DEF Shown, FlagInv, MuteInv, EndsWithList, HandInv, StageInv

(* A start or stop waits, and says how the page is now. *)
LEMMA PendingSwitch ==
  ASSUME TypeOK, Shown, NEW kind \in {"start", "stop"}, switches' = Append(switches, kind),
         UNCHANGED <<server, handButton, history>>,
         isScreenSharing' = (kind = "start")
  PROVE  Shown'
<1>1. switches' # <<>> /\ switches'[Len(switches')] = kind
  BY AppendProperties DEF TypeOK
<1>2. FlagInv'
  BY <1>1 DEF FlagInv
<1>3. MuteInv' /\ StageInv'
  BY <1>1 DEF MuteInv, StageInv, Quiet
<1>4. HandInv' /\ EndsWithList'
  BY DEF Shown, HandInv, EndsWithList, Session, WillBe, server
<1> QED
  BY <1>2, <1>3, <1>4 DEF Shown

(* The announcement of a start or stop: of the share, then of the camera. *)
LEMMA AnnouncementLeaves ==
  ASSUME NEW q \in Seq(StatusMessages), NEW flags, NEW start \in BOOLEAN, NEW muted \in BOOLEAN
  PROVE  /\ q \o Announcement(start, muted) # <<>>
         /\ Leaves(q \o Announcement(start, muted), flags, "screenSharing", start)
         /\ Leaves(q \o Announcement(start, muted), flags, "videoMuted", muted)
         /\ \A up \in BOOLEAN : Leaves(q, flags, "handRaised", up) =>
              Leaves(q \o Announcement(start, muted), flags, "handRaised", up)
<1> DEFINE share == Status(IF start THEN "screen-share-started" ELSE "screen-share-stopped", start)
           camera == Status("mute-changed", muted)
<1>1. share \in StatusMessages /\ camera \in StatusMessages
  BY MessageTypes DEF StatusTypes
<1>2. /\ Sets(share, "screenSharing") /\ share.body = start
      /\ ~Sets(share, "handRaised") /\ ~Sets(camera, "handRaised") /\ ~Sets(camera, "screenSharing")
      /\ Sets(camera, "videoMuted") /\ camera.body = muted
  BY DEF Sets, StatusFlag, Status, Message
<1>3. Announcement(start, muted) = <<share, camera>>
  BY DEF Announcement
<1> HIDE DEF share, camera
<1>4. /\ Append(q, share) \in Seq(StatusMessages)
      /\ q \o <<share, camera>> = Append(Append(q, share), camera)
      /\ Append(Append(q, share), camera) # <<>>
  <2>1. Append(q, share) \in Seq(StatusMessages) /\ Append(Append(q, share), camera) # <<>>
    BY <1>1, AppendProperties
  <2>2. q \o <<share, camera>> = Append(Append(q, share), camera)
    BY <1>1
  <2> QED
    BY <2>1, <2>2
<1>5. Leaves(Append(q, share), flags, "screenSharing", start)
  BY <1>1, <1>2, AppendLeaves
<1>6. Leaves(Append(Append(q, share), camera), flags, "screenSharing", start)
  BY <1>1, <1>2, <1>4, <1>5, AppendLeaves
<1>7. Leaves(Append(Append(q, share), camera), flags, "videoMuted", muted)
  BY <1>1, <1>2, <1>4, AppendLeaves
<1>8. ASSUME NEW up \in BOOLEAN, Leaves(q, flags, "handRaised", up)
      PROVE  Leaves(Append(Append(q, share), camera), flags, "handRaised", up)
  <2>1. Leaves(Append(q, share), flags, "handRaised", up)
    BY <1>1, <1>2, <1>8, AppendLeaves
  <2> QED
    BY <1>1, <1>2, <1>4, <2>1, AppendLeaves
<1> QED
  BY <1>3, <1>4, <1>6, <1>7, <1>8

(* The first of them is told, the others wait. *)
LEMMA SwitchedKeepsShown ==
  ASSUME TypeOK, SharingInv, Shown, Switched
  PROVE  Shown'
<1>1. /\ Tail(switches) \in Seq({"start", "stop"})
      /\ (Head(switches) = "start") \in BOOLEAN /\ Head(switches) = switches[1]
      /\ Len(switches) \in Nat \ {0} /\ Len(Tail(switches)) = Len(switches) - 1
      /\ \A i \in 1 .. Len(Tail(switches)) : Tail(switches)[i] = switches[i + 1]
      /\ switches # <<>> /\ switches' = Tail(switches)
  BY HeadTailProperties, EmptySeq, LenProperties DEF TypeOK, Switched
<1>2. /\ UNCHANGED <<record, job, inbox, activeSharerId, handButton, localStream, isScreenSharing, off>>
      /\ isScreenSharing \in BOOLEAN /\ handButton \in BOOLEAN /\ sent \in Seq(StatusMessages)
      /\ history'.torn = history.torn /\ history'.cut = history.cut /\ history'.kept = history.kept
      /\ Session' <=> Session
  BY TypesSplit, SwitchedFacts DEF Switched, Announced, media, TypeOK
<1>3. PICK start \in BOOLEAN, muted \in BOOLEAN :
        /\ start <=> Head(switches) = "start"
        /\ muted <=> Muted
        /\ sent' = IF Session THEN sent \o Announcement(start, muted) ELSE sent
  <2> PICK start \in BOOLEAN : start = (Head(switches) = "start")
    OBVIOUS
  <2>1. PICK muted \in BOOLEAN :
          /\ muted <=> Muted
          /\ sent' = IF Session THEN sent \o Announcement(start, muted) ELSE sent
    BY TypesSplit, SwitchedFacts
  <2> QED
    BY <2>1
<1>4. Session => /\ sent' # <<>>
                 /\ Leaves(sent', record[Me], "screenSharing", start)
                 /\ Leaves(sent', record[Me], "videoMuted", muted)
                 /\ Leaves(sent, record[Me], "handRaised", handButton) =>
                      Leaves(sent', record[Me], "handRaised", handButton)
  BY <1>2, <1>3, AnnouncementLeaves
<1>5. FlagInv'
  <2> SUFFICES ASSUME Session', ~history'.torn, ~history'.cut
               PROVE  IF switches' = <<>> THEN Leaves(sent', record'[Me], "screenSharing", isScreenSharing')
                      ELSE switches'[Len(switches')] = "start" <=> isScreenSharing'
    BY DEF FlagInv, WillBe
  <2>1. switches[Len(switches)] = "start" <=> isScreenSharing
    BY <1>1, <1>2 DEF Shown, FlagInv
  <2>2. CASE Len(switches) = 1
    <3>1. Len(Tail(switches)) = 0
      BY <1>1, <2>2
    <3>2. switches' = <<>>
      BY <1>1, <3>1, EmptySeq
    <3>3. start = isScreenSharing
      BY <1>1, <1>2, <1>3, <2>1, <2>2
    <3> QED
      BY <1>2, <1>4, <3>2, <3>3
  <2>3. CASE Len(switches) # 1
    <3> DEFINE n == Len(Tail(switches))
    <3>1. n \in 1 .. n /\ n + 1 = Len(switches)
      BY <1>1, <2>3
    <3>2. Tail(switches)[n] = switches[n + 1]
      BY <1>1, <3>1
    <3>3. switches' # <<>> /\ switches'[Len(switches')] = switches[Len(switches)]
      <4>1. Len(switches') = n /\ switches'[n] = switches[Len(switches)]
        <5>1. switches' = Tail(switches)
          BY <1>1
        <5>2. Tail(switches)[n] = switches[Len(switches)]
          BY <3>1, <3>2
        <5> HIDE DEF n
        <5> QED
          BY <5>1, <5>2 DEF n
      <4>2. switches' # <<>>
        <5>1. Len(Tail(switches)) # 0
          BY <1>1, <2>3
        <5> QED
          BY <1>1, <5>1, EmptySeq
      <4> QED
        BY <4>1, <4>2
    <3> QED
      BY <1>2, <2>1, <3>3
  <2> QED
    BY <2>2, <2>3
<1>6. MuteInv'
  <2> SUFFICES ASSUME Session PROVE Leaves(sent', record'[Me], "videoMuted", (localStream \in off)')
    BY <1>2 DEF MuteInv, WillBe
  <2>1. (localStream \in off)' = muted
    <3>1. localStream # None
      BY DEF SharingInv
    <3> QED
      BY <1>2, <1>3, <3>1 DEF Muted
  <2> QED
    BY <1>2, <1>4, <2>1
<1>7. HandInv' /\ StageInv' /\ EndsWithList'
  BY <1>2, <1>4 DEF Shown, HandInv, WillBe, StageInv, Quiet, EndsWithList
<1> QED
  BY <1>5, <1>6, <1>7 DEF Shown

(* A start or stop is lost, which history says. *)
LEMMA SwitchFailsKeepsShown ==
  ASSUME TypeOK, Shown, SwitchFails
  PROVE  Shown'
<1>1. history'.cut = TRUE /\ history'.kept = history.kept
  BY DEF SwitchFails, TypeOK
<1> QED
  BY <1>1 DEF SwitchFails, Shown, FlagInv, MuteInv, EndsWithList, HandInv, StageInv, Session, WillBe, server

(* The camera goes on or off. *)
LEMMA VideoKeepsShown ==
  ASSUME TypeOK, SharingInv, Shown, toggleVideo
  PROVE  Shown'
<1> USE TypesSplit
<1>1. PICK muted \in BOOLEAN : /\ muted <=> Muted
                               /\ Status("mute-changed", muted) \in StatusMessages
                               /\ sent' = Append(sent, Status("mute-changed", muted))
  BY VideoFacts
<1>2. /\ UNCHANGED <<record, job, inbox, handButton, localStream, isScreenSharing, switches>>
      /\ Session /\ Session'
      /\ history'.torn = history.torn /\ history'.cut = history.cut /\ history'.kept = history.kept
      /\ isScreenSharing \in BOOLEAN /\ handButton \in BOOLEAN /\ sent \in Seq(StatusMessages)
  BY VideoFacts DEF toggleVideo, media, TypeOK
<1> DEFINE m == Status("mute-changed", muted)
<1>3. Sets(m, "videoMuted") /\ m.body = muted /\ ~Sets(m, "screenSharing") /\ ~Sets(m, "handRaised")
  BY DEF Sets, StatusFlag, Status, Message
<1> HIDE DEF m
<1>4. /\ sent' # <<>>
      /\ Leaves(sent', record[Me], "videoMuted", muted)
      /\ Leaves(sent, record[Me], "screenSharing", isScreenSharing) =>
           Leaves(sent', record[Me], "screenSharing", isScreenSharing)
      /\ Leaves(sent, record[Me], "handRaised", handButton) =>
           Leaves(sent', record[Me], "handRaised", handButton)
  BY <1>1, <1>2, <1>3, AppendLeaves, AppendProperties DEF m
<1>5. FlagInv' /\ HandInv'
  BY <1>2, <1>4 DEF Shown, FlagInv, HandInv, WillBe
<1>6. MuteInv'
  <2>1. (localStream \in off)' = muted
    <3>1. localStream # None
      BY <1>2 DEF SharingInv
    <3> QED
      BY <1>1, <1>2, <3>1 DEF Muted
  <2> QED
    BY <1>2, <1>4, <2>1 DEF MuteInv, WillBe
<1>7. StageInv' /\ EndsWithList'
  BY <1>2, <1>4 DEF Shown, StageInv, Quiet, EndsWithList
<1> QED
  BY <1>5, <1>6, <1>7 DEF Shown

(* The hand goes up or down. *)
LEMMA HandKeepsShown ==
  ASSUME TypeOK, Shown, toggleHandRaise
  PROVE  Shown'
<1> DEFINE m == Status("hand-raised", handRaised')
<1>1. /\ m \in StatusMessages /\ sent' = Append(sent, m)
      /\ handButton' = handRaised' /\ handRaised' \in BOOLEAN
  BY TypesSplit, HandFacts
<1>2. /\ UNCHANGED <<record, job, inbox, localStream, isScreenSharing, off, switches>>
      /\ Session /\ Session'
      /\ history'.torn = history.torn /\ history'.cut = history.cut /\ history'.dark = history.dark
      /\ isScreenSharing \in BOOLEAN /\ sent \in Seq(StatusMessages)
  BY TypesSplit, HandFacts DEF toggleHandRaise, media, TypeOK
<1>3. Sets(m, "handRaised") /\ m.body = handRaised' /\ ~Sets(m, "screenSharing") /\ ~Sets(m, "videoMuted")
  BY DEF Sets, StatusFlag, Status, Message
<1> HIDE DEF m
<1> PICK dim \in BOOLEAN : dim = (localStream \in off)
  <2>1. (localStream \in off) \in BOOLEAN
    OBVIOUS
  <2> QED
    BY <2>1
<1>4. /\ sent' # <<>>
      /\ Leaves(sent', record[Me], "handRaised", handRaised')
      /\ Leaves(sent, record[Me], "screenSharing", isScreenSharing) =>
           Leaves(sent', record[Me], "screenSharing", isScreenSharing)
      /\ Leaves(sent, record[Me], "videoMuted", dim) => Leaves(sent', record[Me], "videoMuted", dim)
  <2> PICK up \in BOOLEAN : up = handRaised'
    BY <1>1
  <2> DEFINE q == Append(sent, m)
  <2>1. q # <<>>
    BY <1>1, <1>2, AppendProperties
  <2>2. m.body = up /\ m \in StatusMessages /\ sent' = q
    BY <1>1, <1>3
  <2>3. Leaves(q, record[Me], "handRaised", up)
    BY <1>2, <1>3, <2>2, AppendLeaves
  <2>4. Leaves(sent, record[Me], "screenSharing", isScreenSharing) =>
          Leaves(q, record[Me], "screenSharing", isScreenSharing)
    BY <1>2, <1>3, <2>2, AppendLeaves
  <2>5. Leaves(sent, record[Me], "videoMuted", dim) => Leaves(q, record[Me], "videoMuted", dim)
    BY <1>2, <1>3, <2>2, AppendLeaves
  <2> HIDE DEF q
  <2> QED
    BY <2>1, <2>2, <2>3, <2>4, <2>5
<1>5. FlagInv' /\ HandInv'
  BY <1>1, <1>2, <1>4 DEF Shown, FlagInv, HandInv, WillBe
<1>6. MuteInv'
  BY <1>2, <1>4 DEF Shown, MuteInv, WillBe
<1>7. StageInv' /\ EndsWithList'
  BY <1>2, <1>4 DEF Shown, StageInv, Quiet, EndsWithList
<1> QED
  BY <1>5, <1>6, <1>7 DEF Shown

(* A step that nothing of this depends on. *)
LEMMA ShownFrame ==
  ASSUME Shown, UNCHANGED <<server, shown, handButton, localStream, isScreenSharing, off, switches>>,
         history'.torn = history.torn, history'.cut = history.cut,
         history'.dark = history.dark, history'.kept = history.kept
  PROVE  Shown'
<1>1. FlagInv' /\ MuteInv' /\ HandInv'
  BY FlagsFrame DEF Shown, server, Session
<1> QED
  BY <1>1 DEF Shown, EndsWithList, StageInv, Session, Quiet, Derived, shown, server

LEMMA NextShown == TypeOK /\ SharingInv /\ Shown /\ [Next]_vars => Shown'
<1> SUFFICES ASSUME TypeOK, SharingInv, Shown, [Next]_vars PROVE Shown'
  OBVIOUS
<1>1. CASE handleSignalMessage
  BY <1>1, ReadKeepsShown
<1>2. CASE \/ \E u \in Others : News(u)
           \/ \E u \in Users : Broadcast(u) \/ SnapshotParticipants(u)
  BY <1>2, ServerKeepsShown
<1>3. CASE Receive
  BY <1>3, ReceiveKeepsShown
<1>4. CASE ClickRefresh \/ Answer \/ Refreshed
  BY <1>4, RefreshKeepsShown
<1>5. CASE Join
  BY <1>5, JoinKeepsShown
<1>6. CASE Leave \/ CloseEvent
  BY <1>6, EndKeepsShown
<1>7. ASSUME NEW c \in Captures, ClickShare(c) \/ Refused(c) \/ Granted(c)
      PROVE  Shown'
  <2>1. UNCHANGED <<server, shown, handButton, localStream, isScreenSharing, off, switches>>
    BY <1>7 DEF ClickShare, Refused, Granted, media
  <2>2. /\ history'.torn = history.torn /\ history'.cut = history.cut
        /\ history'.dark = history.dark /\ history'.kept = history.kept
    BY <1>7 DEF ClickShare, Refused, Granted, TypeOK
  <2> QED
    BY <2>1, <2>2, ShownFrame
<1>8. ASSUME NEW c \in Captures, startScreenShare(c)
      PROVE  Shown'
  BY <1>8, PendingSwitch DEF startScreenShare
<1>9. ASSUME NEW ended, stopScreenShare(ended)
      PROVE  Shown'
  BY <1>9, PendingSwitch DEF stopScreenShare
<1>10. ASSUME NEW c \in Captures, CaptureEnds(c)
       PROVE  Shown'
  <2>1. CASE Heard(c) /\ isScreenSharing
    BY <1>9, <1>10, <2>1 DEF CaptureEnds
  <2>2. CASE ~(Heard(c) /\ isScreenSharing)
    <3>1. UNCHANGED <<server, shown, handButton, localStream, isScreenSharing, off, switches>>
      BY <1>10, <2>2 DEF CaptureEnds
    <3>2. /\ history'.torn = history.torn /\ history'.cut = history.cut
          /\ history'.dark = history.dark /\ history'.kept = history.kept
      BY <1>10, <2>2 DEF CaptureEnds, TypeOK
    <3> QED
      BY <3>1, <3>2, ShownFrame
  <2> QED
    BY <2>1, <2>2
<1>11. CASE ClickStop
  BY <1>9, <1>11 DEF ClickStop
<1>12. CASE Switched
  BY <1>12, SwitchedKeepsShown
<1>13. CASE SwitchFails
  BY <1>13, SwitchFailsKeepsShown
<1>14. CASE toggleVideo
  BY <1>14, VideoKeepsShown
<1>15. CASE toggleHandRaise
  BY <1>15, HandKeepsShown
<1>16. CASE AtRest \/ UNCHANGED vars
  BY <1>16, ShownFrame DEF AtRest, vars, media
<1> QED
  BY <1>1, <1>2, <1>3, <1>4, <1>5, <1>6, <1>7, <1>8, <1>10, <1>11, <1>12, <1>13, <1>14, <1>15,
     <1>16 DEF Next

-----------------------------------------------------------------------------
(* IInv holds in every state, and with it what it implies. *)

LEMMA InductiveInvariant == Spec => []IInv
<1>1. Init => IInv
  BY InitTypeOK, InitSharing, InitShown DEF IInv
<1>2. IInv /\ [Next]_vars => IInv'
  BY NextTypeOK, NextSharing, NextShown DEF IInv, SharingInv
<1> QED
  BY <1>1, <1>2, PTL DEF Spec

(* Every variable of web/app.js keeps its type; without a session nothing  *)
(* waits for the page or from it; and state.participants has no other      *)
(* entry of the page than state.localParticipant.                          *)
THEOREM TypeCorrect == Spec => []TypeOK
BY InductiveInvariant, PTL DEF IInv

(* startScreenShare and stopScreenShare forget no capture with its tracks  *)
(* running, but for two shares asked for at once and sessions that end     *)
(* while the page shares or is about to.                                   *)
THEOREM CapturesAreKnown == Spec => []CaptureKnown
BY InductiveInvariant, PTL DEF IInv, SharingInv

(* In whatever order starts, stops and refusals overlap, localStream is    *)
(* the capture while the page shares and the camera while it does not, as  *)
(* long as no session has ended while the page shared.                     *)
THEOREM TheShareIsSent == Spec => []OnlyTheShareIsSent
BY InductiveInvariant, PTL DEF IInv, SharingInv

(* isScreenSharing and a running capture go together once the listener for *)
(* the end of the capture is attached.                                     *)
THEOREM SharesAreLive == Spec => []ShareIsLive
BY InductiveInvariant, PTL DEF IInv, SharingInv

(* cleanupSocketState leaves no share behind, unless startScreenShare goes *)
(* on after it.                                                            *)
THEOREM SharesAreInSessions == Spec => []ShareIsInSession
BY InductiveInvariant, PTL DEF IInv, SharingInv

(* What startScreenShare and stopScreenShare announce leaves the server's  *)
(* flag true when all is done, however many starts and stops waited for    *)
(* the peer connections or for the page's handler at once.                 *)
THEOREM FlagsAreTrue == Spec => []FlagIsTrue
<1>1. IInv => FlagIsTrue
  <2> SUFFICES ASSUME IInv, Quiet, Session, ~history.torn, ~history.cut
               PROVE  Me \in Sharers(record) <=> isScreenSharing
    BY DEF FlagIsTrue
  <2>1. Leaves(<<>>, record[Me], "screenSharing", isScreenSharing) /\ isScreenSharing \in BOOLEAN
    BY DEF IInv, TypeOK, Shown, FlagInv, WillBe, Quiet
  <2> QED
    BY <2>1, EmptyLeaves DEF Sharers, Session
<1> QED
  BY <1>1, InductiveInvariant, PTL

(* pickStageSource shows the page's own capture if it shares, else one who *)
(* shares by the list beside the stage: deriveActiveSharerId has the last  *)
(* word, and takes it from the list that is shown.                         *)
THEOREM StagesFitLists == Spec => []StageFitsList
<1>1. IInv => StageFitsList
  <2> SUFFICES ASSUME IInv, Quiet, Session, ~history.cut
               PROVE  IF isScreenSharing THEN Stage = [of |-> Me, own |-> screenStream]
                      ELSE IF Sharers(participants) = {} THEN Stage.of = None
                      ELSE Stage.of \in Sharers(participants)
    BY DEF StageFitsList
  <2>1. activeSharerId \in Derived(participants, TRUE)
    BY DEF IInv, Shown, StageInv
  <2>2. isScreenSharing => localStream = screenStream
    BY DEF IInv, SharingInv
  <2> QED
    BY <2>1, <2>2 DEF Derived, Stage
<1> QED
  BY <1>1, InductiveInvariant, PTL

(* The others see the camera of the page off exactly when sendMuteChanged  *)
(* last said so truly: every start, stop and click brings it up to date.   *)
THEOREM MutesAreTrue == Spec => []MuteIsTrue
<1>1. IInv => MuteIsTrue
  <2> SUFFICES ASSUME IInv, Quiet, Session, ~history.cut, ~history.dark
               PROVE  "videoMuted" \in record[Me] <=> localStream \in off
    BY DEF MuteIsTrue
  <2> PICK dim \in BOOLEAN : dim = (localStream \in off)
    <3>1. (localStream \in off) \in BOOLEAN
      OBVIOUS
    <3> QED
      BY <3>1
  <2>1. Leaves(<<>>, record[Me], "videoMuted", dim)
    BY DEF IInv, Shown, MuteInv, WillBe, Quiet
  <2> QED
    BY <2>1, EmptyLeaves
<1> QED
  BY <1>1, InductiveInvariant, PTL

(* toggleHandRaise sends what the button then says, whatever the lists and *)
(* refreshes before the click have made of handRaised.                     *)
THEOREM HandsAreTrue == Spec => []HandIsTrue
<1>1. IInv => HandIsTrue
  <2> SUFFICES ASSUME IInv, Quiet, Session, ~history.kept
               PROVE  handButton <=> "handRaised" \in record[Me]
    BY DEF HandIsTrue
  <2>1. Leaves(<<>>, record[Me], "handRaised", handButton) /\ handButton \in BOOLEAN
    BY DEF IInv, TypeOK, Shown, HandInv, WillBe, Quiet
  <2> QED
    BY <2>1, EmptyLeaves
<1> QED
  BY <1>1, InductiveInvariant, PTL
=============================================================================

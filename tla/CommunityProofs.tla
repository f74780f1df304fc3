---------------------------- MODULE CommunityProofs ----------------------------
(***************************************************************************)
(* Proofs about Community, for any number of accounts, requests and rooms. *)
(***************************************************************************)
EXTENDS Community, TLAPS

\* A statement belongs to a handler, and finds the fields of its requests.
Fits(step, a) ==
    /\ step \in FriendSteps => a \in FriendCalls
    /\ step \in DmSteps => a \in FriendCalls \cup ResolveCalls
    /\ step \in CreateSteps => a \in CreateCalls
    /\ step \in RoomSteps => a \in RoomCalls
    /\ step \in OwnerSteps => a \in OwnerCalls
    /\ step \in MessageSteps => a \in MessageCalls
    /\ step \in SocketSteps => a \in SocketCalls

Staged ==
    /\ \A r \in Requests : Fits(pc[r], req[r])
    /\ \A r \in Requests : pc[r] \in MessageSteps => req[r].msg \in DOMAIN messages

\* A handler moves on: r's step and request change, and no other's, and no message
\* goes away.
LEMMA Moves ==
    ASSUME NEW r \in Requests, NEW to,
           TypeOK, Staged,
           pc' = [pc EXCEPT ![r] = to],
           to \in Steps,
           req' \in [Requests -> FriendCalls \cup ChatCalls \cup {NoRequest}],
           \A q \in Requests \ {r} : req'[q] = req[q],
           DOMAIN messages \subseteq DOMAIN messages',
           Fits(to, req'[r]),
           to \in MessageSteps => req'[r].msg \in DOMAIN messages
    PROVE  Staged' /\ pc' \in [Requests -> Steps]
<1>1. pc' \in [Requests -> Steps] /\ pc'[r] = to
      /\ \A q \in Requests \ {r} : pc'[q] = pc[q]
  BY DEF TypeOK
<1>2. \A q \in Requests : Fits(pc'[q], req'[q])
  BY <1>1 DEF Staged
<1>3. \A q \in Requests : pc'[q] \in MessageSteps => req'[q].msg \in DOMAIN messages'
  BY <1>1 DEF Staged
<1>. QED  BY <1>1, <1>2, <1>3 DEF Staged, Fits

\* One field of a table of pairs of accounts, or of rooms and accounts, is set.
LEMMA SetField ==
    ASSUME NEW D, NEW R, NEW S, NEW f \in [D -> [R -> S]],
           NEW x \in D, NEW y \in R, NEW v \in S
    PROVE  [f EXCEPT ![x][y] = v] \in [D -> [R -> S]]
  OBVIOUS

\* The statements of the friend handlers keep the types and the stages.
LEMMA FriendTypes ==
    ASSUME NEW r \in Requests, TypeOK, Staged, OfFriends(r)
    PROVE  TypeOK' /\ Staged'
<1>. USE DEF OfFriends
<1>0. chatVars' = chatVars /\ DOMAIN messages \subseteq DOMAIN messages' /\ ChatTypeOK'
  BY DEF ChatTypeOK, chatVars, TypeOK
<1>1. CASE FriendRequest(r)
  <2>1. PICK u \in Users, v \in Users, kind \in {"ask", "by name", "accept",
                "reject", "block", "remove", "contact"} :
            /\ Arrive(r, [kind |-> kind, from |-> u, to |-> v], kind)
            /\ asked' = asked \/ asked' = asked \cup {<<u, v>>}
            /\ UNCHANGED <<friend, contacts, seen>>
    BY <1>1 DEF FriendRequest, RecvAsk, RecvByName, RecvAccept, RecvReject,
                RecvBlock, RecvRemove, RecvContact, About
  <2>. DEFINE a == [kind |-> kind, from |-> u, to |-> v]
  <2>2. a \in FriendCalls
    BY DEF FriendCalls
  <2>3. req' = [req EXCEPT ![r] = a] /\ pc' = [pc EXCEPT ![r] = kind]
    BY <2>1 DEF Arrive, Goto
  <2>4. /\ req' \in [Requests -> FriendCalls \cup ChatCalls \cup {NoRequest}]
        /\ req'[r] = a /\ \A q \in Requests \ {r} : req'[q] = req[q]
    BY <2>2, <2>3 DEF TypeOK
  <2>5. Fits(kind, a) /\ kind \notin MessageSteps /\ kind \in Steps
    BY <2>2 DEF Fits, FriendSteps, DmSteps, CreateSteps, RoomSteps, OwnerSteps,
                MessageSteps, SocketSteps, Steps, ChatSteps
  <2>6. Staged' /\ pc' \in [Requests -> Steps]
    BY <1>0, <2>3, <2>4, <2>5, Moves
  <2>7. FriendsTypeOK'
    <3>1. asked \subseteq Users \X Users /\ <<u, v>> \in Users \X Users
      BY DEF FriendsTypeOK, TypeOK
    <3>. QED  BY <2>1, <3>1 DEF FriendsTypeOK, TypeOK
  <2>. QED  BY <1>0, <2>4, <2>6, <2>7 DEF TypeOK
<1>2. CASE FriendStatement(r)
  <2>1. /\ req' = req
        /\ \E to \in FriendSteps \cup {"dm lookup", "done"} :
              /\ pc' = [pc EXCEPT ![r] = to]
              /\ pc[r] \in FriendSteps
    BY <1>2 DEF FriendStatement, AskLookup, AskAgain, ByNameLookup, InsertPending,
         AcceptPending, ReverseLookup, WriteReverse, Reject, BlockLookup, WriteBlock,
         RemoveOwn, RemoveTheirs, UpsertContact, Match, MatchOwn, MatchTheirs,
         Goto, FriendSteps
  <2>2. PICK to \in FriendSteps \cup {"dm lookup", "done"} :
              pc' = [pc EXCEPT ![r] = to] /\ pc[r] \in FriendSteps
    BY <2>1
  <2>3. req[r] \in FriendCalls /\ From(r) \in Users /\ To(r) \in Users
    BY <2>2 DEF Staged, Fits, FriendCalls, From, To
  <2>4. Fits(to, req'[r]) /\ to \notin MessageSteps /\ to \in Steps
    BY <2>1, <2>3 DEF Fits, FriendSteps, DmSteps, CreateSteps, RoomSteps, OwnerSteps,
                MessageSteps, SocketSteps, Steps, ChatSteps
  <2>5. req' \in [Requests -> FriendCalls \cup ChatCalls \cup {NoRequest}]
    BY <2>1 DEF TypeOK
  <2>6. Staged' /\ pc' \in [Requests -> Steps]
    BY <1>0, <2>1, <2>2, <2>4, <2>5, Moves
  <2>7. friend' \in [Users -> [Users -> Statuses]]
    <3>1. ASSUME NEW s \in Statuses, SetOwn(r, s) \/ SetTheirs(r, s)
          PROVE  friend' \in [Users -> [Users -> Statuses]]
      <4>1. /\ [friend EXCEPT ![From(r)][To(r)] = s] \in [Users -> [Users -> Statuses]]
            /\ [friend EXCEPT ![To(r)][From(r)] = s] \in [Users -> [Users -> Statuses]]
        BY <2>3, SetField DEF TypeOK, FriendsTypeOK
      <4>. QED  BY <3>1, <4>1 DEF SetOwn, SetTheirs
    <3>2. {"pending", "accepted", "blocked", "removed"} \subseteq Statuses
      BY DEF Statuses
    <3>. QED  BY <1>2, <3>1, <3>2 DEF TypeOK, FriendsTypeOK, FriendStatement,
           AskLookup, AskAgain, ByNameLookup, InsertPending,
           AcceptPending, ReverseLookup, WriteReverse, Reject, BlockLookup, WriteBlock,
           RemoveOwn, RemoveTheirs, UpsertContact, Match, MatchOwn, MatchTheirs
  <2>8. /\ contacts' \subseteq Users \X Users
        /\ seen' \in [Requests -> Statuses]
        /\ asked' \subseteq Users \X Users
    <3>1. Own(r) \in Statuses /\ <<From(r), To(r)>> \in Users \X Users
      BY <2>3 DEF Own, TypeOK, FriendsTypeOK
    <3>. QED  BY <1>2, <3>1 DEF TypeOK, FriendsTypeOK, FriendStatement, AskLookup, AskAgain,
         ByNameLookup, InsertPending, AcceptPending, ReverseLookup, WriteReverse,
         Reject, BlockLookup, WriteBlock, RemoveOwn, RemoveTheirs, UpsertContact,
         Match, MatchOwn, MatchTheirs
  <2>. QED  BY <1>0, <2>5, <2>6, <2>7, <2>8 DEF TypeOK, FriendsTypeOK
<1>. QED  BY <1>1, <1>2

\* Ids of messages are the numbers from 1 on.
LEMMA Numbered ==
    ASSUME TypeOK
    PROVE  /\ messages \in Seq(Messages) /\ Len(messages) \in Nat
           /\ DOMAIN messages = 1 .. Len(messages)
           /\ \A i \in DOMAIN messages : i \in Nat /\ messages[i] \in Messages
<1>1. messages \in Seq(Messages)
  BY DEF TypeOK, ChatTypeOK
<1>. QED  BY <1>1

\* The rooms of two accounts, and of one, are rooms.
LEMMA PairIsRoom == \A u, v \in Users : {u, v} \in Pairs /\ {u, v} \in Rooms
  BY DEF Pairs, Rooms

\* The one whose room it becomes is one of the two.
LEMMA SmallerIsOne ==
    ASSUME NEW u \in Users, NEW v \in Users
    PROVE  Smaller({u, v}) \in Users
<1>. DEFINE two == {u, v}
<1>1. two \subseteq Users /\ \E x \in two : \A y \in two : x <= y
  BY UsersAssumption
<1>. HIDE DEF two
<1>2. (CHOOSE x \in two : \A y \in two : x <= y) \in two
  BY <1>1
<1>. QED  BY <1>1, <1>2 DEF Smaller, two

\* So do the chat requests that arrive.
LEMMA ChatRequestTypes ==
    ASSUME NEW r \in Requests, TypeOK, Staged, ChatRequest(r), UNCHANGED friendVars
    PROVE  TypeOK' /\ Staged'
<1>. DEFINE Comes(a, first) ==
       /\ a \in ChatCalls /\ first \in Steps /\ Fits(first, a)
       /\ first \in MessageSteps => a.msg \in DOMAIN messages
       /\ Arrive(r, a, first)
       /\ UNCHANGED <<owner, member, messages, cursor, filed>>
       /\ entered' \in [Requests -> SUBSET Rooms]
<1>. SUFFICES \E a, first : Comes(a, first)
  <2>1. PICK a, first : Comes(a, first)
    OBVIOUS
  <2>2. req' = [req EXCEPT ![r] = a] /\ pc' = [pc EXCEPT ![r] = first]
    BY <2>1 DEF Arrive, Goto
  <2>3. /\ req' \in [Requests -> FriendCalls \cup ChatCalls \cup {NoRequest}]
        /\ req'[r] = a /\ \A q \in Requests \ {r} : req'[q] = req[q]
    BY <2>1, <2>2 DEF TypeOK
  <2>4. Staged' /\ pc' \in [Requests -> Steps]
    BY <2>1, <2>2, <2>3, Moves
  <2>5. ChatTypeOK' /\ FriendsTypeOK'
    BY <2>1 DEF TypeOK, ChatTypeOK, FriendsTypeOK, friendVars
  <2>. QED  BY <2>3, <2>4, <2>5 DEF TypeOK
<1>. USE DEF Fits, FriendSteps, DmSteps, CreateSteps, RoomSteps, OwnerSteps,
             MessageSteps, SocketSteps, Steps, ChatSteps, ArriveChat, chatVars
<1>0. entered \in [Requests -> SUBSET Rooms]
  BY DEF TypeOK, ChatTypeOK
<1>1. CASE RecvCreate(r)
  <2>1. PICK u \in Users : ArriveChat(r, [kind |-> "create", from |-> u], "create room")
    BY <1>1 DEF RecvCreate
  <2>2. [kind |-> "create", from |-> u] \in CreateCalls
    BY DEF CreateCalls
  <2>. QED  BY <1>0, <2>1, <2>2 DEF ChatCalls
<1>2. CASE RecvJoinRoom(r) \/ RecvLeaveRoom(r) \/ RecvPost(r)
  <2>1. PICK u \in Users, c \in Rooms, kind \in {"join", "leave", "post"} :
            ArriveChat(r, [kind |-> kind, from |-> u, room |-> c], kind)
    BY <1>2 DEF RecvJoinRoom, RecvLeaveRoom, RecvPost, Asked
  <2>2. [kind |-> kind, from |-> u, room |-> c] \in RoomCalls
    BY DEF RoomCalls
  <2>. QED  BY <1>0, <2>1, <2>2 DEF ChatCalls
<1>3. CASE RecvInvite(r) \/ RecvKick(r)
  <2>1. PICK u \in Users, v \in Users, c \in Rooms, kind \in {"invite", "kick"} :
            ArriveChat(r, [kind |-> kind, from |-> u, to |-> v, room |-> c], kind)
    BY <1>3 DEF RecvInvite, RecvKick, OfOwner
  <2>2. [kind |-> kind, from |-> u, to |-> v, room |-> c] \in OwnerCalls
    BY DEF OwnerCalls
  <2>. QED  BY <1>0, <2>1, <2>2 DEF ChatCalls
<1>4. CASE RecvResolve(r)
  <2>1. PICK u \in Users, v \in Users :
            ArriveChat(r, [kind |-> "resolve", from |-> u, to |-> v], "dm lookup")
    BY <1>4 DEF RecvResolve
  <2>2. [kind |-> "resolve", from |-> u, to |-> v] \in ResolveCalls
    BY DEF ResolveCalls
  <2>. QED  BY <1>0, <2>1, <2>2 DEF ChatCalls
<1>5. CASE RecvDeleteMessage(r) \/ RecvMarkRead(r)
  <2>1. PICK u \in Users, i \in DOMAIN messages, kind \in {"delete", "read"} :
            ArriveChat(r, [kind |-> kind, from |-> u, msg |-> i], kind)
    BY <1>5 DEF RecvDeleteMessage, RecvMarkRead, OfMessage
  <2>2. [kind |-> kind, from |-> u, msg |-> i] \in MessageCalls
    <3>2. i \in Nat
      BY Numbered
    <3>. QED  BY <3>2 DEF MessageCalls
  <2>. QED  BY <1>0, <2>1, <2>2 DEF ChatCalls
<1>6. CASE RecvWsJoin(r)
  <2>1. PICK u \in Users, c \in Requests \cup Typed, s \in Requests :
            /\ Arrive(r, [kind |-> "ws join", from |-> u, room |-> c, sock |-> s],
                      "ws resolve")
            /\ entered' = [entered EXCEPT ![s] = {c}]
            /\ UNCHANGED <<owner, member, messages, cursor, filed>>
    BY <1>6 DEF RecvWsJoin
  <2>2. c \in Rooms
    BY DEF Rooms
  <2>3. [kind |-> "ws join", from |-> u, room |-> c, sock |-> s] \in SocketCalls
    BY <2>2 DEF SocketCalls
  <2>4. entered' \in [Requests -> SUBSET Rooms]
    BY <1>0, <2>1, <2>2
  <2>. QED  BY <2>1, <2>3, <2>4 DEF ChatCalls
<1>7. CASE RecvWsLeave(r)
  <2>0. PICK s \in Requests : \E c \in entered[s] :
            /\ Open(s)
            /\ Arrive(r, [kind |-> "ws leave", from |-> Sender(s), room |-> c,
                          sock |-> s], "ws left")
            /\ entered' = [entered EXCEPT ![s] = {}]
            /\ UNCHANGED <<owner, member, messages, cursor, filed>>
    BY <1>7 DEF RecvWsLeave
  <2>1. PICK c \in entered[s] :
            /\ Open(s)
            /\ Arrive(r, [kind |-> "ws leave", from |-> Sender(s), room |-> c,
                          sock |-> s], "ws left")
            /\ entered' = [entered EXCEPT ![s] = {}]
            /\ UNCHANGED <<owner, member, messages, cursor, filed>>
    BY <2>0
  <2>2. c \in Rooms
    BY <1>0
  <2>3. Sender(s) \in Users
    <3>1. req[s] \in FriendCalls \cup ChatCalls
      BY <2>1 DEF Open, TypeOK
    <3>. QED  BY <3>1 DEF Sender, ChatCalls, FriendCalls, CreateCalls, RoomCalls,
                          OwnerCalls, ResolveCalls, MessageCalls, SocketCalls
  <2>4. [kind |-> "ws leave", from |-> Sender(s), room |-> c, sock |-> s]
            \in SocketCalls
    BY <2>2, <2>3 DEF SocketCalls
  <2>5. entered' \in [Requests -> SUBSET Rooms]
    BY <1>0, <2>1
  <2>. QED  BY <2>1, <2>4, <2>5 DEF ChatCalls
<1>. QED  BY <1>1, <1>2, <1>3, <1>4, <1>5, <1>6, <1>7 DEF ChatRequest

\* A room keeps its owner.
LEMMA OwnerStays ==
    ASSUME TypeOK, NEW c, NEW u \in Users, Insert(c, u) \/ UNCHANGED owner
    PROVE  /\ owner' \in [Rooms -> Users \cup {0}]
           /\ \A d \in Rooms : owner[d] # 0 => owner'[d] = owner[d]
<1>1. owner \in [Rooms -> Users \cup {0}]
  BY DEF TypeOK, ChatTypeOK
<1>2. CASE UNCHANGED owner
  BY <1>1, <1>2
<1>3. CASE owner' = [owner EXCEPT ![c] = u] /\ ~Exists(c)
  BY <1>1, <1>3 DEF Exists
<1>. QED  BY <1>2, <1>3 DEF Insert

\* Who has been a peer of a room has a row there for good.
LEMMA PeerStays ==
    ASSUME TypeOK, NEW c, NEW u,
           InsertPeer(c, u) \/ PeerLeft(c, u) \/ UNCHANGED member
    PROVE  /\ member' \in [Rooms -> [Users -> {"none", "active", "left"}]]
           /\ \A d \in Rooms, v \in Users :
                 member[d][v] # "none" => member'[d][v] # "none"
<1>. DEFINE Marks == {"none", "active", "left"}
<1>1. member \in [Rooms -> [Users -> Marks]]
  BY DEF TypeOK, ChatTypeOK
<1>2. CASE UNCHANGED member
  BY <1>1, <1>2
<1>3. ASSUME NEW mark \in {"active", "left"},
             member' = [member EXCEPT ![c][u] = mark]
      PROVE  /\ member' \in [Rooms -> [Users -> Marks]]
             /\ \A d \in Rooms, v \in Users :
                   member[d][v] # "none" => member'[d][v] # "none"
  <2>1. CASE c \in Rooms /\ u \in Users
    <3>1. member' \in [Rooms -> [Users -> Marks]]
      BY <1>1, <1>3, <2>1, SetField
    <3>2. \A d \in Rooms, v \in Users :
             member'[d][v] = IF d = c /\ v = u THEN mark ELSE member[d][v]
      BY <1>1, <1>3, <2>1
    <3>. QED  BY <3>1, <3>2
  <2>2. CASE c \in Rooms /\ u \notin Users
    BY <1>1, <1>3, <2>2
  <2>3. CASE c \notin Rooms
    BY <1>1, <1>3, <2>3
  <2>. QED  BY <2>1, <2>2, <2>3
<1>. QED  BY <1>2, <1>3 DEF InsertPeer, PeerLeft

\* A message keeps its id, its room and its sender.
Kept ==
    /\ messages' \in Seq(Messages)
    /\ DOMAIN messages \subseteq DOMAIN messages'
    /\ \A i \in DOMAIN messages : /\ messages'[i].room = messages[i].room
                                  /\ messages'[i].by = messages[i].by

\* So it is when a message is added, which comes last.
LEMMA SaidIsLast ==
    ASSUME TypeOK, NEW c \in Rooms, NEW u \in Users, messages' = Said(c, u)
    PROVE  /\ Kept
           /\ \A i \in DOMAIN messages' \ DOMAIN messages :
                 messages'[i].room = c /\ messages'[i].by = u
<1>. DEFINE m == [room |-> c, by |-> u, deleted |-> FALSE]
<1>1. m \in Messages
  BY DEF Messages
<1>2. messages' = Append(messages, m)
  BY DEF Said
<1>3. /\ messages' \in Seq(Messages) /\ Len(messages') = Len(messages) + 1
      /\ \A i \in 1 .. Len(messages) : messages'[i] = messages[i]
      /\ messages'[Len(messages) + 1] = m
  BY <1>1, <1>2, Numbered
<1>4. DOMAIN messages' = 1 .. Len(messages) + 1
  BY <1>3
<1>. QED  BY <1>3, <1>4, Numbered DEF Kept

\* And when one is deleted.
LEMMA DeletedIsKept ==
    ASSUME TypeOK, NEW i \in DOMAIN messages,
           messages' = [messages EXCEPT ![i].deleted = TRUE]
    PROVE  Kept /\ DOMAIN messages' = DOMAIN messages
<1>. DEFINE m == [messages[i] EXCEPT !.deleted = TRUE]
<1>1. m \in Messages /\ m.room = messages[i].room /\ m.by = messages[i].by
  BY Numbered DEF Messages
<1>2. messages' = [messages EXCEPT ![i] = m]
  OBVIOUS
<1>3. messages' \in Seq(Messages) /\ DOMAIN messages' = DOMAIN messages
  BY <1>1, <1>2, Numbered
<1>. QED  BY <1>1, <1>2, <1>3, Numbered DEF Kept

\* Nobody who belongs to a room stops doing so.
Stay ==
    /\ \A d \in Rooms : owner[d] # 0 => owner'[d] = owner[d]
    /\ \A d \in Rooms, v \in Users : member[d][v] # "none" => member'[d][v] # "none"

\* So do the statements of the chat handlers.
LEMMA ChatStatementTypes ==
    ASSUME NEW r \in Requests, TypeOK, Staged, ChatStatement(r), UNCHANGED friendVars
    PROVE  TypeOK' /\ Staged' /\ Kept /\ Stay
<1>. DEFINE Goes(to) ==
       /\ to \in Steps /\ pc' = [pc EXCEPT ![r] = to] /\ req' = req
       /\ Fits(to, req[r]) /\ to \notin MessageSteps
<1>0. /\ owner \in [Rooms -> Users \cup {0}]
      /\ member \in [Rooms -> [Users -> {"none", "active", "left"}]]
      /\ cursor \in [Users -> [Rooms -> Nat]]
      /\ entered \in [Requests -> SUBSET Rooms]
      /\ filed \in [Requests -> SUBSET Rooms]
      /\ UNCHANGED messages => Kept
  BY Numbered DEF TypeOK, ChatTypeOK, Kept
<1>. SUFFICES (\E to : Goes(to)) /\ ChatTypeOK' /\ Kept /\ Stay
  <2>1. PICK to : Goes(to)
    OBVIOUS
  <2>2. req' \in [Requests -> FriendCalls \cup ChatCalls \cup {NoRequest}]
    BY <2>1 DEF TypeOK
  <2>3. Staged' /\ pc' \in [Requests -> Steps]
    BY <2>1, <2>2, Moves DEF Kept
  <2>4. FriendsTypeOK'
    BY DEF TypeOK, FriendsTypeOK, friendVars
  <2>. QED  BY <2>2, <2>3, <2>4 DEF TypeOK
<1>. USE DEF FriendSteps, DmSteps, CreateSteps, RoomSteps, OwnerSteps,
             MessageSteps, SocketSteps, Steps, ChatSteps
<1>a. \A to : to \in Steps /\ Goto(r, pc[r], to) /\ req' = req /\ Fits(to, req[r])
                 /\ to \notin MessageSteps => Goes(to)
  BY DEF Goto
<1>b. Fits("done", req[r])
  BY DEF Fits
<1>1. CASE CreateRoom(r) \/ CreatePeer(r)
  <2>1. pc[r] \in CreateSteps /\ req[r] \in CreateCalls /\ Sender(r) \in Users
    BY <1>1 DEF CreateRoom, CreatePeer, Goto, Staged, Fits, CreateCalls, Sender
  <2>2. Fits("create peer", req[r])
    BY <2>1 DEF Fits
  <2>3. \E to : Goes(to)
    BY <1>1, <1>a, <1>b, <2>2 DEF CreateRoom, CreatePeer, Goto
  <2>4. /\ Insert(r, Sender(r)) \/ UNCHANGED owner
        /\ InsertPeer(r, Sender(r)) \/ UNCHANGED member
        /\ UNCHANGED <<messages, cursor, entered, filed>>
    BY <1>1 DEF CreateRoom, CreatePeer
  <2>. QED  BY <1>0, <2>1, <2>3, <2>4, OwnerStays, PeerStays DEF ChatTypeOK, Kept, Stay
<1>2. CASE JoinLookup(r) \/ JoinInsert(r) \/ LeaveRoom(r) \/ PostLookup(r)
  <2>1. pc[r] \in RoomSteps /\ req[r] \in RoomCalls
    BY <1>2 DEF JoinLookup, JoinInsert, LeaveRoom, PostLookup, Goto, Staged, Fits
  <2>2. Fits("join insert", req[r]) /\ Fits("insert message", req[r])
    BY <2>1 DEF Fits
  <2>3. \E to : Goes(to)
    BY <1>2, <1>a, <1>b, <2>2 DEF JoinLookup, JoinInsert, LeaveRoom, PostLookup, Goto, chatVars
  <2>4. /\ \/ InsertPeer(Room(r), Sender(r)) \/ PeerLeft(Room(r), Sender(r))
           \/ UNCHANGED member
        /\ UNCHANGED <<owner, messages, cursor, entered, filed>>
    BY <1>2 DEF JoinLookup, JoinInsert, LeaveRoom, PostLookup, chatVars
  <2>. QED  BY <1>0, <2>3, <2>4, PeerStays DEF ChatTypeOK, Kept, Stay
<1>3. CASE InsertMessage(r)
  <2>1. pc[r] \in RoomSteps /\ req[r] \in RoomCalls
    BY <1>3 DEF InsertMessage, Goto, Staged, Fits
  <2>2. Room(r) \in Rooms /\ Sender(r) \in Users
    BY <2>1 DEF RoomCalls, Room, Sender
  <2>3. \E to : Goes(to)
    BY <1>3, <1>a, <1>b DEF InsertMessage, Goto
  <2>4. /\ messages' = Said(Room(r), Sender(r))
        /\ UNCHANGED <<owner, member, cursor, entered, filed>>
    BY <1>3 DEF InsertMessage
  <2>. QED  BY <1>0, <2>2, <2>3, <2>4, SaidIsLast DEF ChatTypeOK, Kept, Stay
<1>4. CASE InviteLookup(r) \/ InviteInsert(r) \/ Kick(r)
  <2>1. pc[r] \in OwnerSteps /\ req[r] \in OwnerCalls
    BY <1>4 DEF InviteLookup, InviteInsert, Kick, Goto, Staged, Fits
  <2>2. Fits("invite insert", req[r])
    BY <2>1 DEF Fits
  <2>3. \E to : Goes(to)
    BY <1>4, <1>a, <1>b, <2>2 DEF InviteLookup, InviteInsert, Kick, Goto, chatVars
  <2>4. /\ \/ InsertPeer(Room(r), req[r].to) \/ PeerLeft(Room(r), req[r].to)
           \/ UNCHANGED member
        /\ UNCHANGED <<owner, messages, cursor, entered, filed>>
    BY <1>4 DEF InviteLookup, InviteInsert, Kick, chatVars
  <2>. QED  BY <1>0, <2>3, <2>4, PeerStays DEF ChatTypeOK, Kept, Stay
<1>5. CASE DmLookup(r) \/ DmCreate(r) \/ Welcome(r)
  <2>1. pc[r] \in DmSteps /\ req[r] \in FriendCalls \cup ResolveCalls
    BY <1>5 DEF DmLookup, DmCreate, Welcome, Goto, Staged, Fits
  <2>2. req[r].from \in Users /\ req[r].to \in Users
    BY <2>1 DEF FriendCalls, ResolveCalls
  <2>3. Fits("dm create", req[r]) /\ Fits("welcome", req[r])
    BY <2>1 DEF Fits
  <2>4. \E to : Goes(to)
    BY <1>5, <1>a, <1>b, <2>3 DEF DmLookup, DmCreate, Welcome, AfterDm, Goto, chatVars
  <2>5. Dm(r) \in Rooms /\ Smaller(Dm(r)) \in Users
    BY <2>2, PairIsRoom, SmallerIsOne DEF Dm
  <2>6. /\ Insert(Dm(r), Smaller(Dm(r))) \/ UNCHANGED owner
        /\ UNCHANGED <<member, cursor, entered, filed>>
        /\ UNCHANGED messages \/ \E u \in Users : messages' = Said(Dm(r), u)
    BY <1>5, <2>2 DEF DmLookup, DmCreate, Welcome, chatVars
  <2>7. Kept
    BY <1>0, <2>5, <2>6, SaidIsLast
  <2>. QED  BY <1>0, <2>4, <2>5, <2>6, <2>7, OwnerStays DEF ChatTypeOK, Kept, Stay
<1>6. CASE SoftDelete(r) \/ MarkRead(r)
  <2>1. /\ pc[r] \in MessageSteps /\ req[r] \in MessageCalls
        /\ req[r].msg \in DOMAIN messages
    BY <1>6 DEF SoftDelete, MarkRead, Goto, Staged, Fits
  <2>2. /\ req[r].msg \in Nat /\ messages[req[r].msg].room \in Rooms
        /\ Sender(r) \in Users
    BY <2>1, Numbered DEF Messages, MessageCalls, Sender
  <2>3. \E to : Goes(to)
    BY <1>6, <1>a, <1>b DEF SoftDelete, MarkRead, Goto
  <2>4. Kept
    BY <1>0, <1>6, <2>1, DeletedIsKept DEF SoftDelete, MarkRead
  <2>5. cursor' \in [Users -> [Rooms -> Nat]]
    <3>1. CASE SoftDelete(r)
      BY <1>0, <3>1 DEF SoftDelete
    <3>2. CASE MarkRead(r)
      <4>. DEFINE c == messages[req[r].msg].room
                  n == Greater(cursor[Sender(r)][c], req[r].msg)
      <4>1. n \in Nat
        BY <1>0, <2>2 DEF Greater
      <4>2. cursor' = [cursor EXCEPT ![Sender(r)][c] = n]
        BY <3>2 DEF MarkRead
      <4>. QED  BY <1>0, <2>2, <4>1, <4>2, SetField
    <3>. QED  BY <1>6, <3>1, <3>2
  <2>6. UNCHANGED <<owner, member, entered, filed>>
    BY <1>6 DEF SoftDelete, MarkRead
  <2>. QED  BY <1>0, <2>3, <2>4, <2>5, <2>6 DEF ChatTypeOK, Kept, Stay
<1>7. CASE \/ WsResolve(r) \/ WsCreate(r) \/ WsPeer(r) \/ WsFile(r)
           \/ WsLeft(r) \/ WsMark(r)
  <2>1. pc[r] \in SocketSteps /\ req[r] \in SocketCalls
    BY <1>7 DEF WsResolve, WsCreate, WsPeer, WsFile, WsLeft, WsMark, Goto, Staged, Fits
  <2>2. Sender(r) \in Users /\ Room(r) \in Rooms /\ Sock(r) \in Requests
    BY <2>1 DEF SocketCalls, Sender, Room, Sock
  <2>3. \A to \in SocketSteps : Fits(to, req[r])
    BY <2>1 DEF Fits
  <2>4. \E to : Goes(to)
    BY <1>7, <1>a, <1>b, <2>3
       DEF WsResolve, WsCreate, WsPeer, WsFile, WsLeft, WsMark, Goto, chatVars
  <2>5. /\ Insert(Room(r), Sender(r)) \/ UNCHANGED owner
        /\ \/ InsertPeer(Filed(r), Sender(r)) \/ PeerLeft(Filed(r), Sender(r))
           \/ UNCHANGED member
        /\ UNCHANGED <<messages, cursor, entered>>
    BY <1>7 DEF WsResolve, WsCreate, WsPeer, WsFile, WsLeft, WsMark, chatVars
  <2>6. filed' \in [Requests -> SUBSET Rooms]
    <3>1. PICK found \in SUBSET Rooms :
             filed' = filed \/ filed' = [filed EXCEPT ![Sock(r)] = found]
      <4>1. filed[Sock(r)] \in SUBSET Rooms /\ {Room(r)} \in SUBSET Rooms
        BY <1>0, <2>2
      <4>. QED  BY <1>7, <4>1
             DEF WsResolve, WsCreate, WsPeer, WsFile, WsLeft, WsMark, chatVars
    <3>. QED  BY <1>0, <2>2, <3>1
  <2>. QED  BY <1>0, <2>2, <2>4, <2>5, <2>6, OwnerStays, PeerStays DEF ChatTypeOK, Kept, Stay
<1>. QED  BY <1>1, <1>2, <1>3, <1>4, <1>5, <1>6, <1>7 DEF ChatStatement

\* What there is at the start says accepted or pending of those who asked only.
LEMMA PastsAsked ==
    ASSUME NEW past \in Pasts
    PROVE  /\ past.asked \subseteq Users \X Users
           /\ \A u, v \in Users :
                 /\ <<u, v, "pending">> \in past.rows => <<u, v>> \in past.asked
                 /\ <<u, v, "accepted">> \in past.rows
                       => {<<u, v>>, <<v, u>>} \subseteq past.asked
<1>1. CASE past = Strangers
  BY <1>1 DEF Strangers
<1>2. ASSUME NEW a \in Users, NEW b \in Users, past \in PastsOf(a, b), past # Strangers
      PROVE  past \in {Waiting(a, b), Friendly(a, b), Blocking(a, b)}
  BY <1>2 DEF PastsOf
<1>3. ASSUME NEW a \in Users, NEW b \in Users,
             past \in {Waiting(a, b), Friendly(a, b), Blocking(a, b)}
      PROVE  /\ past.asked \subseteq Users \X Users
             /\ \A u, v \in Users :
                   /\ <<u, v, "pending">> \in past.rows => <<u, v>> \in past.asked
                   /\ <<u, v, "accepted">> \in past.rows
                         => {<<u, v>>, <<v, u>>} \subseteq past.asked
  <2>1. CASE past = Waiting(a, b)
    BY <2>1 DEF Waiting
  <2>2. CASE past = Friendly(a, b)
    BY <2>2 DEF Friendly
  <2>3. CASE past = Blocking(a, b)
    BY <2>3 DEF Blocking
  <2>. QED  BY <1>3, <2>1, <2>2, <2>3
<1>4. past = Strangers \/ \E a, b \in Users : past \in PastsOf(a, b)
  BY DEF Pasts
<1>. QED  BY <1>1, <1>2, <1>3, <1>4

\* No request has come.
LEMMA InitTypes == Init => TypeOK /\ Staged
<1>. SUFFICES ASSUME Init PROVE TypeOK /\ Staged
  OBVIOUS
<1>1. FriendsTypeOK
  <2>1. PICK past \in Pasts :
          /\ friend = [u \in Users |-> [v \in Users |->
                IF \E s \in Statuses : <<u, v, s>> \in past.rows
                THEN CHOOSE s \in Statuses : <<u, v, s>> \in past.rows
                ELSE "none"]]
          /\ asked = past.asked
    BY DEF Init
  <2>2. friend \in [Users -> [Users -> Statuses]]
    <3>1. ASSUME NEW u \in Users, NEW v \in Users
          PROVE  (IF \E s \in Statuses : <<u, v, s>> \in past.rows
                  THEN CHOOSE s \in Statuses : <<u, v, s>> \in past.rows
                  ELSE "none") \in Statuses
      BY DEF Statuses
    <3>. QED  BY <2>1, <3>1
  <2>. QED  BY <2>1, <2>2, PastsAsked DEF Init, FriendsTypeOK, Statuses
<1>2. ChatTypeOK
  <2>1. PICK c \in Typed :
          /\ owner = [d \in Rooms |-> IF d = c THEN 1 ELSE 0]
          /\ member = [d \in Rooms |-> [v \in Users |->
                         IF d = c /\ v = 1 THEN "active" ELSE "none"]]
          /\ messages = <<[room |-> c, by |-> 1, deleted |-> FALSE]>>
    BY DEF Init
  <2>2. messages \in Seq(Messages)
    <3>1. [room |-> c, by |-> 1, deleted |-> FALSE] \in Messages
      BY FounderAssumption DEF Messages, Rooms
    <3>. QED  BY <2>1, <3>1
  <2>. QED  BY <2>1, <2>2, FounderAssumption DEF Init, ChatTypeOK
<1>3. Staged /\ pc \in [Requests -> Steps]
  BY DEF Init, Staged, Fits, Steps, FriendSteps, DmSteps, CreateSteps, RoomSteps,
         OwnerSteps, MessageSteps, SocketSteps
<1>. QED  BY <1>1, <1>2, <1>3 DEF Init, TypeOK

\* Every step keeps the types and the stages.
LEMMA NextTypes == TypeOK /\ Staged /\ [Next]_vars => TypeOK' /\ Staged'
<1>. SUFFICES ASSUME TypeOK, Staged, [Next]_vars PROVE TypeOK' /\ Staged'
  OBVIOUS
<1>1. CASE Next
  <2>1. PICK r \in Requests : OfFriends(r) \/ OfChat(r)
    BY <1>1 DEF Next
  <2>2. CASE OfFriends(r)
    BY <2>2, FriendTypes
  <2>3. CASE OfChat(r)
    BY <2>3, ChatRequestTypes, ChatStatementTypes DEF OfChat
  <2>. QED  BY <2>1, <2>2, <2>3
<1>2. CASE UNCHANGED vars
  BY <1>2 DEF vars, friendVars, chatVars, TypeOK, FriendsTypeOK, ChatTypeOK, Staged, Fits
<1>. QED  BY <1>1, <1>2

\* Type correctness; and what a statement finds in its request is what the handler
\* put there.
THEOREM TypeCorrect == Spec => []TypeOK
<1>1. Spec => [](TypeOK /\ Staged)
  BY InitTypes, NextTypes, PTL DEF Spec
<1>. QED  BY <1>1, PTL

-----------------------------------------------------------------------------
\* Friendships

\* r's sender has asked for the friendship of the other; both have.
Wants(r) == <<From(r), To(r)>> \in asked
Mutual(r) == Wants(r) /\ <<To(r), From(r)>> \in asked

\* What the tables and the requests under way rest on: a pending row and a
\* stored number were asked for by the one whose row it is, and a request that
\* is about to accept has found the other's.
Wanted ==
    /\ \A u, v \in Users : friend[u][v] = "pending" => <<u, v>> \in asked
    /\ AcceptedWasWanted
    /\ contacts \subseteq asked
    /\ \A r \in Requests :
          /\ pc[r] \in {"ask", "ask again", "by name", "insert pending", "accept",
                        "contact", "match"} => Wants(r)
          /\ pc[r] \in {"reverse", "write reverse", "match own", "match theirs"}
                => Mutual(r)

\* Friendships of the start were asked for and accepted.
LEMMA InitWanted == Init => Wanted
<1>. SUFFICES ASSUME Init PROVE Wanted
  OBVIOUS
<1>1. PICK past \in Pasts :
          /\ friend = [u \in Users |-> [v \in Users |->
                IF \E s \in Statuses : <<u, v, s>> \in past.rows
                THEN CHOOSE s \in Statuses : <<u, v, s>> \in past.rows
                ELSE "none"]]
          /\ asked = past.asked
  BY DEF Init
<1>2. ASSUME NEW u \in Users, NEW v \in Users
      PROVE  friend[u][v] = "none" \/ <<u, v, friend[u][v]>> \in past.rows
  <2>. DEFINE Row(s) == <<u, v, s>> \in past.rows
  <2>1. (\E s \in Statuses : Row(s)) => Row(CHOOSE s \in Statuses : Row(s))
    OBVIOUS
  <2>. QED  BY <1>1, <2>1
<1>3. \A u, v \in Users : friend[u][v] = "pending" => <<u, v>> \in asked
  BY <1>1, <1>2, PastsAsked
<1>4. ASSUME NEW u \in Users, NEW v \in Users, friend[u][v] = "accepted"
      PROVE  {<<u, v>>, <<v, u>>} \subseteq asked
  <2>1. <<u, v, "accepted">> \in past.rows
    BY <1>2, <1>4
  <2>. QED  BY <1>1, <2>1, PastsAsked
<1>. QED  BY <1>3, <1>4 DEF Wanted, AcceptedWasWanted, Init

\* A handler of rooms leaves the others' requests and steps alone, and comes to no
\* statement about friends.
LEMMA ChatMoves ==
    ASSUME NEW r \in Requests, TypeOK, OfChat(r)
    PROVE  /\ pc' \in [Requests -> Steps] => pc'[r] \notin FriendSteps
           /\ \A q \in Requests \ {r} : req'[q] = req[q] /\ pc'[q] = pc[q]
           /\ UNCHANGED friendVars
<1>1. CASE ChatRequest(r)
  <2>1. \E a : \E first \in {"create room", "join", "leave", "post", "invite", "kick",
                   "dm lookup", "delete", "read", "ws resolve", "ws left"} :
           Arrive(r, a, first)
    BY <1>1 DEF ChatRequest, RecvCreate, RecvJoinRoom, RecvLeaveRoom, RecvPost, Asked,
         RecvInvite, RecvKick, OfOwner, RecvResolve, RecvDeleteMessage, RecvMarkRead,
         OfMessage, RecvWsJoin, RecvWsLeave, ArriveChat
  <2>. QED  BY <2>1 DEF Arrive, Goto, TypeOK, FriendSteps, OfChat
<1>2. CASE ChatStatement(r)
  <2>1. req' = req /\ \E to \in ChatSteps \cup {"done"} : pc' = [pc EXCEPT ![r] = to]
    BY <1>2 DEF ChatStatement, CreateRoom, CreatePeer, JoinLookup, JoinInsert, LeaveRoom,
         InviteLookup, InviteInsert, Kick, DmLookup, DmCreate, Welcome, AfterDm,
         PostLookup, InsertMessage, SoftDelete, MarkRead, WsResolve, WsCreate, WsPeer,
         WsFile, WsLeft, WsMark, Goto, ChatSteps, CreateSteps, RoomSteps, OwnerSteps,
         DmSteps, MessageSteps, SocketSteps
  <2>. QED  BY <2>1 DEF TypeOK, FriendSteps, OfChat, ChatSteps, CreateSteps, RoomSteps,
                OwnerSteps, DmSteps, MessageSteps, SocketSteps
<1>. QED  BY <1>1, <1>2 DEF OfChat

\* A handler of friends leaves the others' requests and steps alone.
LEMMA FriendMoves ==
    ASSUME NEW r \in Requests, TypeOK, OfFriends(r)
    PROVE  /\ pc'[r] \in FriendSteps \cup {"dm lookup", "done"}
           /\ \A q \in Requests \ {r} : req'[q] = req[q] /\ pc'[q] = pc[q]
<1>1. CASE FriendRequest(r)
  <2>1. \E a : \E first \in {"ask", "by name", "accept", "reject", "block", "remove",
                   "contact"} : Arrive(r, a, first)
    BY <1>1 DEF FriendRequest, RecvAsk, RecvByName, RecvAccept, RecvReject,
                RecvBlock, RecvRemove, RecvContact, About
  <2>. QED  BY <2>1 DEF Arrive, Goto, TypeOK, FriendSteps
<1>2. CASE FriendStatement(r)
  <2>1. /\ req' = req
        /\ \E to \in FriendSteps \cup {"dm lookup", "done"} : pc' = [pc EXCEPT ![r] = to]
    BY <1>2 DEF FriendStatement, AskLookup, AskAgain, ByNameLookup, InsertPending,
         AcceptPending, ReverseLookup, WriteReverse, Reject, BlockLookup, WriteBlock,
         RemoveOwn, RemoveTheirs, UpsertContact, Match, MatchOwn, MatchTheirs,
         Goto, FriendSteps
  <2>. QED  BY <2>1 DEF TypeOK
<1>. QED  BY <1>1, <1>2 DEF OfFriends

\* A statement of the friend handlers accepts only what was asked for.
LEMMA FriendsWanted ==
    ASSUME NEW r \in Requests, TypeOK, Staged, Wanted, OfFriends(r)
    PROVE  Wanted'
<1>. DEFINE Asking == {"ask", "ask again", "by name", "insert pending", "accept",
                       "contact", "match"}
            Taking == {"reverse", "write reverse", "match own", "match theirs"}
<1>0. friend \in [Users -> [Users -> Statuses]] /\ pc \in [Requests -> Steps]
  BY DEF TypeOK, FriendsTypeOK
<1>1. CASE FriendRequest(r)
  <2>1. PICK u \in Users, v \in Users, kind \in {"ask", "by name", "accept",
                "reject", "block", "remove", "contact"} :
            /\ Arrive(r, [kind |-> kind, from |-> u, to |-> v], kind)
            /\ asked \subseteq asked'
            /\ kind \in {"ask", "by name", "accept", "contact"} => <<u, v>> \in asked'
            /\ UNCHANGED <<friend, contacts, seen>>
    BY <1>1 DEF FriendRequest, RecvAsk, RecvByName, RecvAccept, RecvReject,
                RecvBlock, RecvRemove, RecvContact, About
  <2>2. /\ req'[r] = [kind |-> kind, from |-> u, to |-> v] /\ pc'[r] = kind
        /\ \A q \in Requests \ {r} : req'[q] = req[q] /\ pc'[q] = pc[q]
    BY <2>1 DEF Arrive, Goto, TypeOK
  <2>3. \A q \in Requests : /\ pc'[q] \in Asking => Wants(q)'
                            /\ pc'[q] \in Taking => Mutual(q)'
    <3>1. pc'[r] \in Asking => Wants(r)'
      <4>1. Wants(r)' <=> <<u, v>> \in asked'
        <5>1. req'[r].from = u /\ req'[r].to = v
          <6>. DEFINE a == [kind |-> kind, from |-> u, to |-> v]
          <6>1. a.from = u /\ a.to = v
            OBVIOUS
          <6>2. req'[r] = a
            BY <2>2
          <6>. HIDE DEF a
          <6>. QED  BY <6>1, <6>2
        <5>. QED  BY <5>1 DEF Wants, From, To
      <4>. QED  BY <2>1, <2>2, <4>1
    <3>2. ASSUME NEW q \in Requests \ {r}
          PROVE  /\ Wants(q)' <=> <<From(q), To(q)>> \in asked'
                 /\ Mutual(q)' <=> Wants(q)' /\ <<To(q), From(q)>> \in asked'
      BY <2>2 DEF Wants, Mutual, From, To
    <3>3. \A q \in Requests \ {r} : /\ pc'[q] \in Asking => Wants(q)'
                                    /\ pc'[q] \in Taking => Mutual(q)'
      BY <2>1, <2>2, <3>2 DEF Wanted, Wants, Mutual
    <3>. QED  BY <2>2, <3>1, <3>3
  <2>. QED  BY <2>1, <2>3 DEF Wanted, AcceptedWasWanted
<1>2. CASE FriendStatement(r)
  <2>1. req' = req /\ asked' = asked /\ \A q \in Requests \ {r} : pc'[q] = pc[q]
    BY <1>0, <1>2 DEF FriendStatement, AskLookup, AskAgain, ByNameLookup, InsertPending,
         AcceptPending, ReverseLookup, WriteReverse, Reject, BlockLookup, WriteBlock,
         RemoveOwn, RemoveTheirs, UpsertContact, Match, MatchOwn, MatchTheirs, Goto
  <2>2. From(r) \in Users /\ To(r) \in Users /\ pc[r] \in FriendSteps
    BY <1>2 DEF FriendStatement, AskLookup, AskAgain, ByNameLookup, InsertPending,
         AcceptPending, ReverseLookup, WriteReverse, Reject, BlockLookup, WriteBlock,
         RemoveOwn, RemoveTheirs, UpsertContact, Match, MatchOwn, MatchTheirs,
         Goto, FriendSteps, Staged, Fits, FriendCalls, From, To
  <2>3. \A u, v \in Users, s \in Statuses :
           /\ SetOwn(r, s) => friend'[u][v] = IF u = From(r) /\ v = To(r) THEN s
                                                                 ELSE friend[u][v]
           /\ SetTheirs(r, s) => friend'[u][v] = IF u = To(r) /\ v = From(r) THEN s
                                                                 ELSE friend[u][v]
    BY <1>0, <2>2 DEF SetOwn, SetTheirs
  <2>4. /\ pc'[r] \in Asking => Wants(r)
        /\ pc'[r] \in Taking => Mutual(r)
    <3>1. CASE AcceptPending(r)
      BY <1>0, <2>2, <3>1 DEF AcceptPending, Goto, Wanted, Wants, Mutual, Theirs
    <3>2. CASE Match(r)
      BY <1>0, <2>2, <3>2 DEF Match, Goto, Wanted, Wants, Mutual
    <3>3. CASE AskLookup(r) \/ ByNameLookup(r) \/ UpsertContact(r)
      BY <1>0, <2>2, <3>3 DEF AskLookup, ByNameLookup, UpsertContact, Goto, Wanted
    <3>4. CASE ReverseLookup(r) \/ MatchOwn(r)
      BY <1>0, <2>2, <3>4 DEF ReverseLookup, MatchOwn, Goto, Wanted
    <3>5. CASE \/ AskAgain(r) \/ InsertPending(r) \/ WriteReverse(r) \/ Reject(r)
               \/ BlockLookup(r) \/ WriteBlock(r) \/ RemoveOwn(r) \/ RemoveTheirs(r)
               \/ MatchTheirs(r)
      BY <1>0, <3>5 DEF AskAgain, InsertPending, WriteReverse, Reject, BlockLookup,
           WriteBlock, RemoveOwn, RemoveTheirs, MatchTheirs, Goto
    <3>. QED  BY <1>2, <3>1, <3>2, <3>3, <3>4, <3>5 DEF FriendStatement
  <2>5. \A q \in Requests : /\ pc'[q] \in Asking => Wants(q)'
                            /\ pc'[q] \in Taking => Mutual(q)'
    BY <2>1, <2>4 DEF Wanted, Wants, Mutual, From, To
  <2>6. contacts' \subseteq asked'
    <3>1. CASE UpsertContact(r)
      BY <2>1, <3>1 DEF UpsertContact, Goto, Wanted, Wants
    <3>2. contacts' = contacts \/ UpsertContact(r)
      BY <1>2 DEF FriendStatement, AskLookup, AskAgain, ByNameLookup, InsertPending,
           AcceptPending, ReverseLookup, WriteReverse, Reject, BlockLookup, WriteBlock,
           RemoveOwn, RemoveTheirs, Match, MatchOwn, MatchTheirs
    <3>. QED  BY <2>1, <3>1, <3>2 DEF Wanted
  <2>7. \/ friend' = friend
        \/ SetOwn(r, "pending") /\ Wants(r)
        \/ (SetOwn(r, "accepted") \/ SetTheirs(r, "accepted")) /\ Mutual(r)
        \/ SetOwn(r, "blocked") \/ SetOwn(r, "removed") \/ SetTheirs(r, "removed")
    <3>1. CASE AcceptPending(r)
      BY <2>2, <3>1 DEF AcceptPending, Goto, Wanted, Wants, Mutual, Theirs
    <3>2. CASE AskAgain(r) \/ InsertPending(r)
      BY <3>2 DEF AskAgain, InsertPending, Goto, Wanted
    <3>3. CASE WriteReverse(r) \/ MatchOwn(r) \/ MatchTheirs(r)
      BY <3>3 DEF WriteReverse, MatchOwn, MatchTheirs, Goto, Wanted
    <3>4. CASE \/ AskLookup(r) \/ ByNameLookup(r) \/ ReverseLookup(r) \/ Reject(r)
               \/ BlockLookup(r) \/ WriteBlock(r) \/ RemoveOwn(r) \/ RemoveTheirs(r)
               \/ UpsertContact(r) \/ Match(r)
      BY <3>4 DEF AskLookup, ByNameLookup, ReverseLookup, Reject, BlockLookup,
           WriteBlock, RemoveOwn, RemoveTheirs, UpsertContact, Match
    <3>. QED  BY <1>2, <3>1, <3>2, <3>3, <3>4 DEF FriendStatement
  <2>8. /\ \A u, v \in Users : friend'[u][v] = "pending" => <<u, v>> \in asked'
        /\ AcceptedWasWanted'
    <3>1. {"pending", "accepted", "blocked", "removed"} \subseteq Statuses
      BY DEF Statuses
    <3>2. CASE friend' = friend
      BY <2>1, <3>2 DEF Wanted, AcceptedWasWanted
    <3>3. CASE SetOwn(r, "pending") /\ Wants(r)
      <4>1. \A u, v \in Users :
               friend'[u][v] = IF u = From(r) /\ v = To(r) THEN "pending"
                                                          ELSE friend[u][v]
        BY <2>3, <3>1, <3>3
      <4>2. <<From(r), To(r)>> \in asked'
        BY <2>1, <3>3 DEF Wants
      <4>3. \A u, v \in Users : friend'[u][v] = "pending" => <<u, v>> \in asked'
        BY <2>1, <4>1, <4>2 DEF Wanted
      <4>4. \A u, v \in Users : friend'[u][v] = "accepted" => friend[u][v] = "accepted"
        BY <4>1
      <4>5. AcceptedWasWanted'
        BY <2>1, <4>4 DEF Wanted, AcceptedWasWanted
      <4>. QED  BY <4>3, <4>5
    <3>4. CASE (SetOwn(r, "accepted") \/ SetTheirs(r, "accepted")) /\ Mutual(r)
      <4>1. \A u, v \in Users :
               \/ friend'[u][v] = friend[u][v]
               \/ /\ friend'[u][v] = "accepted"
                  /\ {<<u, v>>, <<v, u>>} = {<<From(r), To(r)>>, <<To(r), From(r)>>}
        BY <2>3, <3>1, <3>4
      <4>2. {<<From(r), To(r)>>, <<To(r), From(r)>>} \subseteq asked
        BY <3>4 DEF Wants, Mutual
      <4>3. \A u, v \in Users :
               \/ friend'[u][v] = friend[u][v]
               \/ friend'[u][v] = "accepted" /\ {<<u, v>>, <<v, u>>} \subseteq asked
        <5>1. ASSUME NEW u \in Users, NEW v \in Users
              PROVE  \/ friend'[u][v] = friend[u][v]
                     \/ friend'[u][v] = "accepted" /\ {<<u, v>>, <<v, u>>} \subseteq asked
          <6>. DEFINE both == {<<From(r), To(r)>>, <<To(r), From(r)>>}
                      pair == {<<u, v>>, <<v, u>>}
          <6>1. \/ friend'[u][v] = friend[u][v]
                \/ friend'[u][v] = "accepted" /\ pair = both
            BY <4>1
          <6>2. both \subseteq asked
            BY <4>2
          <6>. HIDE DEF both, pair
          <6>3. \/ friend'[u][v] = friend[u][v]
                \/ friend'[u][v] = "accepted" /\ pair \subseteq asked
            BY ONLY <6>1, <6>2
          <6>. QED  BY <6>3 DEF pair
        <5>. QED  BY <5>1
      <4>4. \A u, v \in Users : friend'[u][v] = "pending" => <<u, v>> \in asked'
        BY <2>1, <4>3 DEF Wanted
      <4>5. AcceptedWasWanted'
        BY <2>1, <4>3 DEF Wanted, AcceptedWasWanted
      <4>. QED  BY <4>4, <4>5
    <3>5. CASE SetOwn(r, "blocked") \/ SetOwn(r, "removed") \/ SetTheirs(r, "removed")
      <4>1. \A u, v \in Users : friend'[u][v] = friend[u][v]
                                  \/ friend'[u][v] \in {"blocked", "removed"}
        BY <2>3, <3>1, <3>5
      <4>2. \A u, v \in Users : friend'[u][v] = "pending" => <<u, v>> \in asked'
        BY <2>1, <4>1 DEF Wanted
      <4>3. \A u, v \in Users : friend'[u][v] = "accepted" => friend[u][v] = "accepted"
        BY <4>1
      <4>4. AcceptedWasWanted'
        BY <2>1, <4>3 DEF Wanted, AcceptedWasWanted
      <4>. QED  BY <4>2, <4>4
    <3>. QED  BY <2>7, <3>2, <3>3, <3>4, <3>5
  <2>. QED  BY <2>5, <2>6, <2>8 DEF Wanted
<1>. QED  BY <1>1, <1>2 DEF OfFriends

\* Every step keeps that what was accepted was asked for.
LEMMA NextWanted == TypeOK /\ Staged /\ Wanted /\ [Next]_vars => Wanted'
<1>. SUFFICES ASSUME TypeOK, Staged, Wanted, [Next]_vars PROVE Wanted'
  OBVIOUS
<1>1. ASSUME NEW r \in Requests, OfChat(r) PROVE Wanted'
  <2>1. pc' \in [Requests -> Steps]
    BY <1>1, NextTypes DEF Next, TypeOK
  <2>. QED  BY <1>1, <2>1, ChatMoves
         DEF Wanted, AcceptedWasWanted, friendVars, Wants, Mutual, From, To, FriendSteps
<1>2. CASE UNCHANGED vars
  BY <1>2 DEF vars, friendVars, Wanted, AcceptedWasWanted, Wants, Mutual, From, To
<1>. QED  BY <1>1, <1>2, FriendsWanted DEF Next

\* However requests, acceptances, rejections, blocks and matches of two accounts
\* run into one another, a row says accepted only if both have asked, accepted or
\* stored the other: between the look at a row and the write that follows it,
\* nobody takes back what was asked, and that is all an acceptance rests on.
THEOREM NobodyIsBefriended == Spec => []AcceptedWasWanted
<1>1. Spec => [](TypeOK /\ Staged /\ Wanted)
  BY InitTypes, NextTypes, InitWanted, NextWanted, PTL DEF Spec
<1>2. Wanted => AcceptedWasWanted
  BY DEF Wanted
<1>. QED  BY <1>1, <1>2, PTL

-----------------------------------------------------------------------------
\* Messages

\* u has made room c, or has been let in.
Belongs(u, c) == owner[c] = u \/ member[c][u] # "none"

\* A message that is about to be stored is of one who belongs to the room.
Members ==
    /\ StrangersNeverPost
    /\ \A r \in Requests : pc[r] = "insert message" => Belongs(Sender(r), Room(r))

\* The requests of a chat that arrive leave the rooms as they are.
LEMMA ChatRequestKeeps ==
    ASSUME NEW r \in Requests, ChatRequest(r)
    PROVE  UNCHANGED <<owner, member, messages, cursor>>
  BY DEF ChatRequest, RecvCreate, RecvJoinRoom, RecvLeaveRoom, RecvPost, Asked,
     RecvInvite, RecvKick, OfOwner, RecvResolve, RecvDeleteMessage, RecvMarkRead,
     OfMessage, RecvWsJoin, RecvWsLeave, ArriveChat, chatVars

\* A request that has just come is not about to store a message.
LEMMA ChatRequestMoves ==
    ASSUME NEW r \in Requests, TypeOK, ChatRequest(r)
    PROVE  pc'[r] # "insert message"
<1>1. \E a : \E first \in {"create room", "join", "leave", "post", "invite", "kick",
                 "dm lookup", "delete", "read", "ws resolve", "ws left"} :
         Arrive(r, a, first)
  BY DEF ChatRequest, RecvCreate, RecvJoinRoom, RecvLeaveRoom, RecvPost, Asked,
     RecvInvite, RecvKick, OfOwner, RecvResolve, RecvDeleteMessage, RecvMarkRead,
     OfMessage, RecvWsJoin, RecvWsLeave, ArriveChat
<1>. QED  BY <1>1 DEF Arrive, Goto, TypeOK

\* What is stored is the message of a post that was let through, or is said in the
\* room of two; and only the look at the room lets a post through.
LEMMA OnlyPosts ==
    ASSUME NEW r \in Requests, TypeOK, Staged, ChatStatement(r)
    PROVE  /\ \A i \in DOMAIN messages' \ DOMAIN messages :
                 \/ messages'[i].room \in Pairs
                 \/ /\ pc[r] = "insert message"
                    /\ messages'[i].room = Room(r) /\ messages'[i].by = Sender(r)
           /\ pc'[r] = "insert message" => Belongs(Sender(r), Room(r))
           /\ req' = req
<1>0. pc \in [Requests -> Steps]
  BY DEF TypeOK
<1>1. CASE InsertMessage(r)
  <2>1. Room(r) \in Rooms /\ Sender(r) \in Users /\ pc[r] = "insert message"
    BY <1>1 DEF InsertMessage, Goto, Staged, Fits, RoomSteps, RoomCalls, Room, Sender
  <2>. QED  BY <1>0, <1>1, <2>1, SaidIsLast DEF InsertMessage, Goto
<1>2. CASE Welcome(r)
  <2>1. pc[r] \in DmSteps /\ req[r] \in FriendCalls \cup ResolveCalls
    BY <1>2 DEF Welcome, Goto, Staged, Fits, DmSteps
  <2>2. req[r].from \in Users /\ req[r].to \in Users
    BY <2>1 DEF FriendCalls, ResolveCalls
  <2>3. Dm(r) \in Pairs /\ Dm(r) \in Rooms
    BY <2>2, PairIsRoom DEF Dm
  <2>4. PICK u \in Users : messages' = Said(Dm(r), u)
    BY <1>2, <2>2 DEF Welcome
  <2>5. \A i \in DOMAIN messages' \ DOMAIN messages : messages'[i].room = Dm(r)
    BY <2>3, <2>4, SaidIsLast
  <2>. QED  BY <1>0, <1>2, <2>3, <2>5 DEF Welcome, Goto
<1>3. CASE SoftDelete(r)
  <2>1. req[r].msg \in DOMAIN messages
    BY <1>3 DEF SoftDelete, Goto, Staged, MessageSteps
  <2>2. DOMAIN messages' = DOMAIN messages
    BY <1>3, <2>1, DeletedIsKept DEF SoftDelete
  <2>. QED  BY <1>0, <1>3, <2>2 DEF SoftDelete, Goto
<1>4. CASE PostLookup(r)
  BY <1>0, <1>4 DEF PostLookup, Goto, Belongs, IsPeer, chatVars
<1>5. CASE DmLookup(r) \/ DmCreate(r)
  BY <1>0, <1>5 DEF DmLookup, DmCreate, AfterDm, Goto, chatVars
<1>6. CASE \/ CreateRoom(r) \/ CreatePeer(r) \/ JoinLookup(r) \/ JoinInsert(r)
           \/ LeaveRoom(r) \/ InviteLookup(r) \/ InviteInsert(r) \/ Kick(r)
           \/ MarkRead(r)
  BY <1>0, <1>6 DEF CreateRoom, CreatePeer, JoinLookup, JoinInsert, LeaveRoom,
     InviteLookup, InviteInsert, Kick, MarkRead, Goto, chatVars
<1>7. CASE \/ WsResolve(r) \/ WsCreate(r) \/ WsPeer(r) \/ WsFile(r)
           \/ WsLeft(r) \/ WsMark(r)
  BY <1>0, <1>7
     DEF WsResolve, WsCreate, WsPeer, WsFile, WsLeft, WsMark, Goto, chatVars
<1>. QED  BY <1>1, <1>2, <1>3, <1>4, <1>5, <1>6, <1>7 DEF ChatStatement

\* The one message of the start is of the owner of its room.
LEMMA InitMembers == Init => Members
<1>. SUFFICES ASSUME Init PROVE Members
  OBVIOUS
<1>1. PICK c \in Typed :
         /\ owner = [d \in Rooms |-> IF d = c THEN 1 ELSE 0]
         /\ messages = <<[room |-> c, by |-> 1, deleted |-> FALSE]>>
  BY DEF Init
<1>2. c \in Rooms /\ \A r \in Requests : pc[r] = "new"
  BY DEF Rooms, Init
<1>3. \A i \in DOMAIN messages : messages[i].room = c /\ messages[i].by = 1
  BY <1>1
<1>4. owner[c] = 1
  BY <1>1, <1>2
<1>. QED  BY <1>2, <1>3, <1>4 DEF Members, StrangersNeverPost

\* Every step keeps that those who post were members.
LEMMA NextMembers == TypeOK /\ Staged /\ Members /\ [Next]_vars => Members'
<1>. SUFFICES ASSUME TypeOK, Staged, Members, [Next]_vars PROVE Members'
  OBVIOUS
<1>0. /\ TypeOK'
      /\ \A q \in Requests : pc[q] = "insert message" =>
            Room(q) \in Rooms /\ Sender(q) \in Users
      /\ \A i \in DOMAIN messages : messages[i].room \in Rooms /\ messages[i].by \in Users
  <2>1. \A q \in Requests : pc[q] = "insert message" =>
            Room(q) \in Rooms /\ Sender(q) \in Users
    BY DEF Staged, Fits, RoomSteps, RoomCalls, Room, Sender
  <2>. QED  BY <2>1, NextTypes, Numbered DEF Messages
<1>1. ASSUME NEW r \in Requests, OfChat(r), ChatStatement(r) PROVE Members'
  <2>1. Kept /\ Stay
    BY <1>1, ChatStatementTypes DEF OfChat
  <2>2. \A u \in Users, c \in Rooms : Belongs(u, c) => Belongs(u, c)'
    BY <2>1, UsersAssumption DEF Stay, Belongs
  <2>3. \A q \in Requests \ {r} : pc'[q] = pc[q]
    BY <1>1, ChatMoves
  <2>4. StrangersNeverPost'
    <3>1. ASSUME NEW i \in DOMAIN messages', messages'[i].room \notin Pairs
          PROVE  \/ owner'[messages'[i].room] = messages'[i].by
                 \/ member'[messages'[i].room][messages'[i].by] # "none"
      <4>1. CASE i \in DOMAIN messages
        <5>1. messages'[i].room = messages[i].room /\ messages'[i].by = messages[i].by
          BY <2>1, <4>1 DEF Kept
        <5>2. Belongs(messages[i].by, messages[i].room)
          BY <3>1, <4>1, <5>1 DEF Members, StrangersNeverPost, Belongs
        <5>. QED  BY <1>0, <2>2, <4>1, <5>1, <5>2 DEF Belongs
      <4>2. CASE i \notin DOMAIN messages
        <5>1. /\ pc[r] = "insert message"
              /\ messages'[i].room = Room(r) /\ messages'[i].by = Sender(r)
          BY <1>1, <3>1, <4>2, OnlyPosts
        <5>2. Belongs(Sender(r), Room(r)) /\ Room(r) \in Rooms /\ Sender(r) \in Users
          BY <1>0, <5>1 DEF Members
        <5>. QED  BY <2>2, <5>1, <5>2 DEF Belongs
      <4>. QED  BY <4>1, <4>2
    <3>. QED  BY <3>1 DEF StrangersNeverPost
  <2>5. ASSUME NEW q \in Requests, pc'[q] = "insert message"
        PROVE  Belongs(Sender(q), Room(q))'
    <3>1. /\ req' = req /\ TypeOK'
          /\ q = r => Belongs(Sender(r), Room(r))
      BY <1>0, <1>1, <2>5, OnlyPosts
    <3>2. Belongs(Sender(q), Room(q))
      BY <2>3, <2>5, <3>1 DEF Members
    <3>3. Room(q) \in Rooms /\ Sender(q) \in Users
      BY <2>5, <3>1, NextTypes DEF Staged, Fits, RoomSteps, RoomCalls, Room, Sender
    <3>. QED  BY <2>2, <3>1, <3>2, <3>3 DEF Belongs, Sender, Room
  <2>. QED  BY <2>4, <2>5 DEF Members
<1>2. ASSUME UNCHANGED <<owner, member, messages>>, NEW r \in Requests,
             pc'[r] # "insert message",
             \A q \in Requests \ {r} : req'[q] = req[q] /\ pc'[q] = pc[q]
      PROVE  Members'
  BY <1>2 DEF Members, StrangersNeverPost, Belongs, Sender, Room
<1>3. ASSUME NEW r \in Requests, OfChat(r), ChatRequest(r) PROVE Members'
  BY <1>2, <1>3, ChatRequestKeeps, ChatRequestMoves, ChatMoves
<1>4. ASSUME NEW r \in Requests, OfFriends(r) PROVE Members'
  <2>1. /\ UNCHANGED <<owner, member, messages>>
        /\ \A q \in Requests \ {r} : req'[q] = req[q] /\ pc'[q] = pc[q]
        /\ pc'[r] # "insert message"
    BY <1>4, FriendMoves DEF OfFriends, chatVars, FriendSteps
  <2>. QED  BY <1>2, <2>1
<1>5. CASE UNCHANGED vars
  BY <1>5 DEF vars, chatVars, Members, StrangersNeverPost, Belongs, Sender, Room
<1>. QED  BY <1>1, <1>3, <1>4, <1>5 DEF Next, OfChat

\* Nobody posts into a room of several who is not its owner and never was its
\* member: a kick or a leave between the look at the room and the INSERT lets the
\* message of a former member in, and nothing lets in anybody else's.
THEOREM OnlyMembersPost == Spec => []StrangersNeverPost
<1>1. Spec => [](TypeOK /\ Staged /\ Members)
  BY InitTypes, NextTypes, InitMembers, NextMembers, PTL DEF Spec
<1>2. Members => StrangersNeverPost
  BY DEF Members
<1>. QED  BY <1>1, <1>2, PTL

-----------------------------------------------------------------------------
\* What has been read

\* No read mark goes back.
LEMMA MarksAdvance ==
    ASSUME NEW r \in Requests, TypeOK, Staged, ChatStatement(r)
    PROVE  \A u \in Users, c \in Rooms : cursor'[u][c] >= cursor[u][c]
<1>0. /\ cursor \in [Users -> [Rooms -> Nat]]
      /\ \A u \in Users, c \in Rooms : cursor[u][c] \in Nat
  BY DEF TypeOK, ChatTypeOK
<1>1. CASE MarkRead(r)
  <2>1. req[r] \in MessageCalls
    BY <1>1 DEF MarkRead, Goto, Staged, Fits, MessageSteps
  <2>2. req[r].msg \in Nat
    BY <2>1 DEF MessageCalls
  <2>. DEFINE c == messages[req[r].msg].room
              n == Greater(cursor[Sender(r)][c], req[r].msg)
  <2>3. cursor' = [cursor EXCEPT ![Sender(r)][c] = n]
    BY <1>1 DEF MarkRead
  <2>4. ASSUME NEW u \in Users, NEW d \in Rooms PROVE cursor'[u][d] >= cursor[u][d]
    <3>1. CASE u = Sender(r) /\ d = c
      <4>1. n >= cursor[u][d]
        BY <1>0, <2>2, <3>1 DEF Greater
      <4>2. cursor'[u][d] = n
        BY <1>0, <2>3, <3>1
      <4>. QED  BY <4>1, <4>2
    <3>2. CASE ~(u = Sender(r) /\ d = c)
      <4>1. cursor'[u][d] = cursor[u][d]
        BY <1>0, <2>3, <3>2
      <4>. QED  BY <1>0, <4>1
    <3>. QED  BY <3>1, <3>2
  <2>. QED  BY <2>4
<1>2. ASSUME ~MarkRead(r) PROVE UNCHANGED cursor
  BY <1>2 DEF ChatStatement, CreateRoom, CreatePeer, JoinLookup, JoinInsert, LeaveRoom,
     InviteLookup, InviteInsert, Kick, DmLookup, DmCreate, Welcome, PostLookup,
     InsertMessage, SoftDelete, WsResolve, WsCreate, WsPeer, WsFile, WsLeft, WsMark,
     chatVars
<1>. QED  BY <1>0, <1>1, <1>2

\* What an account has read of a room stays read: no read mark goes back, however
\* late a request with an older one is handled, and no message changes its id, its
\* room or its sender.
THEOREM ReadIsForGood == Spec => ReadStaysRead
<1>. DEFINE Stays == \A u \in Users, c \in Rooms, i \in DOMAIN messages :
                        i \in Unread(u, c)' => i \in Unread(u, c)
<1>1. TypeOK /\ Staged /\ [Next]_vars => Stays \/ UNCHANGED chatVars
  <2>. SUFFICES ASSUME TypeOK, Staged, Next, ~UNCHANGED chatVars PROVE Stays
    BY DEF vars
  <2>1. PICK r \in Requests : OfChat(r)
    BY DEF Next, OfFriends
  <2>2. CASE ChatRequest(r)
    <3>1. UNCHANGED <<messages, cursor>>
      BY <2>2, ChatRequestKeeps
    <3>. QED  BY <3>1 DEF Unread
  <2>3. CASE ChatStatement(r)
    <3>1. Kept /\ \A u \in Users, c \in Rooms : cursor'[u][c] >= cursor[u][c]
      BY <2>1, <2>3, ChatStatementTypes, MarksAdvance DEF OfChat
    <3>2. TypeOK'
      BY <2>1, <2>3, ChatStatementTypes DEF OfChat
    <3>3. ASSUME NEW u \in Users, NEW c \in Rooms, NEW i \in DOMAIN messages,
                 i \in Unread(u, c)'
          PROVE  i \in Unread(u, c)
      <4>1. /\ messages[i].room = c /\ messages[i].by # u /\ i > cursor'[u][c]
        BY <3>1, <3>3 DEF Unread, Kept
      <4>2. i \in Nat /\ cursor[u][c] \in Nat /\ cursor'[u][c] \in Nat
        BY <3>2, Numbered DEF TypeOK, ChatTypeOK
      <4>3. i > cursor[u][c]
        BY <3>1, <4>1, <4>2
      <4>. QED  BY <4>1, <4>3 DEF Unread
    <3>. QED  BY <3>3
  <2>. QED  BY <2>1, <2>2, <2>3 DEF OfChat
<1>2. Spec => [](TypeOK /\ Staged)
  BY InitTypes, NextTypes, PTL DEF Spec
<1>. QED  BY <1>1, <1>2, PTL DEF Spec, ReadStaysRead

===============================================================================

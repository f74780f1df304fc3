--------------------------------- MODULE Chat ---------------------------------
(***************************************************************************)
(* Rooms, their members, their messages and what has been read of them:    *)
(* server/api/rooms_handlers.py, messages_handlers.py, read_handlers.py    *)
(* and the room resolvers of auth_handlers.py, and the rows that JOIN and  *)
(* LEAVE of the WebSocket write (server/signaling.py,                      *)
(* signaling_persistence.py), over the tables rooms, peers, messages and   *)
(* read_states.                                                            *)
(*                                                                         *)
(* A room is named by its room_code: a room made over REST by the request  *)
(* that made it (the code is random), a room made by a JOIN by the code    *)
(* that was typed, the DM room of two accounts by the set of the two, the  *)
(* saved messages of one by its singleton (the bot's room is alike).  Rows *)
(* of rooms do not change (nothing calls close_room), so a check of the    *)
(* room and of its owner goes into the statement that follows it.          *)
(***************************************************************************)
EXTENDS Handlers

CONSTANT Typed       \* room codes that users type

VARIABLES
    owner,       \* owner[c]: the owner_id of the room, 0: no such room
    member,      \* member[c][u]: the row of u in peers: none, active or left
    messages,    \* rows of messages, in the order of their ids
    cursor,      \* cursor[u][c]: last_read_msg_id
    entered,     \* entered[r]: Peer.room_id of the socket that r opened, and
    filed        \* filed[r]: its Peer.db_room_id, sets of at most one code

chatVars == <<owner, member, messages, cursor, entered, filed>>

Pairs == {{u, v} : u, v \in Users}
Rooms == Requests \cup Typed \cup Pairs
Messages == [room : Rooms, by : Users, deleted : BOOLEAN]

ChatTypeOK ==
    /\ owner \in [Rooms -> Users \cup {0}]
    /\ member \in [Rooms -> [Users -> {"none", "active", "left"}]]
    /\ messages \in Seq(Messages)
    /\ cursor \in [Users -> [Rooms -> Nat]]
    /\ entered \in [Requests -> SUBSET Rooms]
    /\ filed \in [Requests -> SUBSET Rooms]

\* What arrives here.
CreateCalls == [kind : {"create"}, from : Users]
RoomCalls == [kind : {"join", "leave", "post"}, from : Users, room : Rooms]
OwnerCalls == [kind : {"invite", "kick"}, from : Users, to : Users, room : Rooms]
ResolveCalls == [kind : {"resolve"}, from : Users, to : Users]
MessageCalls == [kind : {"delete", "read"}, from : Users, msg : Nat]
SocketCalls == [kind : {"ws join", "ws leave"}, from : Users, room : Rooms,
                sock : Requests]
ChatCalls == CreateCalls \cup RoomCalls \cup OwnerCalls \cup ResolveCalls
               \cup MessageCalls \cup SocketCalls

\* The statements of these handlers.
CreateSteps == {"create room", "create peer"}
RoomSteps == {"join", "join insert", "leave", "post", "insert message"}
OwnerSteps == {"invite", "invite insert", "kick"}
DmSteps == {"dm lookup", "dm create", "welcome"}
MessageSteps == {"delete", "read"}
SocketSteps == {"ws resolve", "ws create", "ws peer", "ws file", "ws left",
                "ws mark"}
ChatSteps == CreateSteps \cup RoomSteps \cup OwnerSteps \cup DmSteps
               \cup MessageSteps \cup SocketSteps

Exists(c) == owner[c] # 0
Sender(r) == req[r].from
Room(r) == req[r].room

-----------------------------------------------------------------------------
\* Requests arrive.

ArriveChat(r, a, first) ==
    /\ Arrive(r, a, first)
    /\ UNCHANGED chatVars

Asked(r, kind, first) ==
    \E u \in Users, c \in Rooms :
       /\ Exists(c)
       /\ ArriveChat(r, [kind |-> kind, from |-> u, room |-> c], first)

RecvCreate(r) ==
    \E u \in Users :
       ArriveChat(r, [kind |-> "create", from |-> u], "create room")
RecvJoinRoom(r) == Asked(r, "join", "join")
RecvLeaveRoom(r) == Asked(r, "leave", "leave")
RecvPost(r) == Asked(r, "post", "post")

OfOwner(r, kind) ==
    \E u, v \in Users, c \in Rooms :
       /\ u # v /\ Exists(c)
       /\ ArriveChat(r, [kind |-> kind, from |-> u, to |-> v, room |-> c], kind)
RecvInvite(r) == OfOwner(r, "invite")
RecvKick(r) == OfOwner(r, "kick")

\* The room of a friend, or of oneself: /api/auth/dm/{user_id}/room.
RecvResolve(r) ==
    \E u, v \in Users :
       ArriveChat(r, [kind |-> "resolve", from |-> u, to |-> v], "dm lookup")

OfMessage(r, kind) ==
    \E u \in Users, i \in DOMAIN messages :
       ArriveChat(r, [kind |-> kind, from |-> u, msg |-> i], kind)
RecvDeleteMessage(r) == OfMessage(r, "delete")
RecvMarkRead(r) == OfMessage(r, "read")

\* A frame of an open socket waits until the one before it has been handled.
Open(s) ==
    /\ req[s] # NoRequest /\ req[s].kind = "ws join" /\ req[s].sock = s
    /\ \A q \in Requests :
          (req[q] # NoRequest /\ req[q].kind \in {"ws join", "ws leave"}
             /\ req[q].sock = s) => pc[q] = "done"

\* JOIN of a room, on a new socket or on the one that request s opened.
RecvWsJoin(r) ==
    \E u \in Users, c \in Requests \cup Typed, s \in Requests :
       /\ Exists(c) \/ c \in Typed
       /\ s # r => Open(s) /\ Sender(s) = u
       /\ Arrive(r, [kind |-> "ws join", from |-> u, room |-> c, sock |-> s],
                 "ws resolve")
       /\ entered' = [entered EXCEPT ![s] = {c}]
       /\ UNCHANGED <<owner, member, messages, cursor, filed>>

\* LEAVE of the room that the socket is in.
RecvWsLeave(r) ==
    \E s \in Requests : \E c \in entered[s] :
       /\ Open(s)
       /\ Arrive(r, [kind |-> "ws leave", from |-> Sender(s), room |-> c,
                     sock |-> s], "ws left")
       /\ entered' = [entered EXCEPT ![s] = {}]
       /\ UNCHANGED <<owner, member, messages, cursor, filed>>

-----------------------------------------------------------------------------
\* rooms and peers: insert_room and insert_peer refuse a second row under their
\* UNIQUE keys, of room_code and of (room_id, user_id).

Insert(c, u) == IF Exists(c) THEN UNCHANGED owner
                             ELSE owner' = [owner EXCEPT ![c] = u]
InsertPeer(c, u) == IF member[c][u] = "none"
                    THEN member' = [member EXCEPT ![c][u] = "active"]
                    ELSE UNCHANGED member
\* update_peer_left, mark_peer_left
PeerLeft(c, u) == IF member[c][u] = "active"
                  THEN member' = [member EXCEPT ![c][u] = "left"]
                  ELSE UNCHANGED member
\* get_peer sees active rows only.
IsPeer(c, u) == member[c][u] = "active"

\* handle_create_room: the room is there although its owner could not be filed.
CreateRoom(r) ==
    /\ Goto(r, "create room", "create peer")
    /\ Insert(r, Sender(r))
    /\ UNCHANGED <<req, member, messages, cursor, entered, filed>>

CreatePeer(r) ==
    /\ Goto(r, "create peer", "done")
    /\ InsertPeer(r, Sender(r)) \/ UNCHANGED member
    /\ UNCHANGED <<req, owner, messages, cursor, entered, filed>>

\* handle_join_room
JoinLookup(r) ==
    /\ Goto(r, "join", IF IsPeer(Room(r), Sender(r)) THEN "done"
                                                     ELSE "join insert")
    /\ UNCHANGED <<req, chatVars>>

JoinInsert(r) ==
    /\ Goto(r, "join insert", "done")
    /\ InsertPeer(Room(r), Sender(r))
    /\ UNCHANGED <<req, owner, messages, cursor, entered, filed>>

\* handle_leave_room
LeaveRoom(r) ==
    /\ Goto(r, "leave", "done")
    /\ PeerLeft(Room(r), Sender(r))
    /\ UNCHANGED <<req, owner, messages, cursor, entered, filed>>

\* handle_invite_room: by the owner only.
InviteLookup(r) ==
    /\ Goto(r, "invite",
            IF owner[Room(r)] = Sender(r) /\ ~IsPeer(Room(r), req[r].to)
            THEN "invite insert" ELSE "done")
    /\ UNCHANGED <<req, chatVars>>

InviteInsert(r) ==
    /\ Goto(r, "invite insert", "done")
    /\ InsertPeer(Room(r), req[r].to)
    /\ UNCHANGED <<req, owner, messages, cursor, entered, filed>>

\* handle_kick_room: by the owner only.
Kick(r) ==
    /\ Goto(r, "kick", "done")
    /\ IF owner[Room(r)] = Sender(r) THEN PeerLeft(Room(r), req[r].to)
                                     ELSE UNCHANGED member
    /\ UNCHANGED <<req, owner, messages, cursor, entered, filed>>

-----------------------------------------------------------------------------
\* find_or_create_dm_room and find_or_create_saved_room, for a resolver, for the
\* acceptance of a friend and for contacts that match.

Dm(r) == {req[r].from, req[r].to}
Smaller(s) == CHOOSE u \in s : \A v \in s : u <= v
AfterDm(r) == IF req[r].kind = "resolve" THEN "done" ELSE "welcome"

DmLookup(r) ==
    /\ Goto(r, "dm lookup", IF Exists(Dm(r)) THEN AfterDm(r) ELSE "dm create")
    /\ UNCHANGED <<req, chatVars>>

\* The request that finds the room made in the meantime fails.
DmCreate(r) ==
    /\ Goto(r, "dm create", IF Exists(Dm(r)) THEN "done" ELSE AfterDm(r))
    /\ Insert(Dm(r), Smaller(Dm(r)))
    /\ UNCHANGED <<req, member, messages, cursor, entered, filed>>

Said(c, u) == Append(messages, [room |-> c, by |-> u, deleted |-> FALSE])

\* The one who accepted says so; the one who was matched is said to be here.
Welcome(r) ==
    /\ Goto(r, "welcome", "done")
    /\ messages' = Said(Dm(r), IF req[r].kind = "accept" THEN req[r].from
                                                         ELSE req[r].to)
    /\ UNCHANGED <<req, owner, member, cursor, entered, filed>>

-----------------------------------------------------------------------------
\* handle_post_message: the owner, and whoever is a peer, may post.

\* Mutant of PostLookup: membership is not asked for.
PostLookupAny(r) ==
    /\ Goto(r, "post", "insert message")
    /\ UNCHANGED <<req, chatVars>>

PostLookup(r) ==
    /\ Goto(r, "post",
            IF owner[Room(r)] = Sender(r) \/ IsPeer(Room(r), Sender(r))
            THEN "insert message" ELSE "done")
    /\ UNCHANGED <<req, chatVars>>

InsertMessage(r) ==
    /\ Goto(r, "insert message", "done")
    /\ messages' = Said(Room(r), Sender(r))
    /\ UNCHANGED <<req, owner, member, cursor, entered, filed>>

\* handle_delete_message: by its sender or the owner of the room; the row stays.
SoftDelete(r) ==
    LET m == messages[req[r].msg]
    IN  /\ Goto(r, "delete", "done")
        /\ messages' = IF Sender(r) \in {m.by, owner[m.room]}
                       THEN [messages EXCEPT ![req[r].msg].deleted = TRUE]
                       ELSE messages
        /\ UNCHANGED <<req, owner, member, cursor, entered, filed>>

\* Mutant of Greater: the position that was sent is taken as it is.
GreaterLatest(i, j) == j

Greater(i, j) == IF i >= j THEN i ELSE j

\* handle_mark_read, upsert_last_read
MarkRead(r) ==
    LET c == messages[req[r].msg].room
    IN  /\ Goto(r, "read", "done")
        /\ cursor' = [cursor EXCEPT ![Sender(r)][c] = Greater(@, req[r].msg)]
        /\ UNCHANGED <<req, owner, member, messages, entered, filed>>

\* get_unread_counts
Unread(u, c) ==
    {i \in DOMAIN messages :
       messages[i].room = c /\ messages[i].by # u /\ i > cursor[u][c]}

-----------------------------------------------------------------------------
\* The database side of JOIN and LEAVE.  A socket keeps the room it first found.

Sock(r) == req[r].sock
Filed(r) == CHOOSE c \in filed[Sock(r)] : TRUE

WsResolve(r) ==
    LET found == IF filed[Sock(r)] = {} /\ Exists(Room(r)) THEN {Room(r)}
                                                          ELSE filed[Sock(r)]
    IN  /\ Goto(r, "ws resolve", IF found = {} THEN "ws create" ELSE "ws peer")
        /\ filed' = [filed EXCEPT ![Sock(r)] = found]
        /\ UNCHANGED <<req, owner, member, messages, cursor, entered>>

\* persist_room_create: the second of two that create a room gives up.
WsCreate(r) ==
    /\ Goto(r, "ws create", IF Exists(Room(r)) THEN "done" ELSE "ws peer")
    /\ filed' = IF Exists(Room(r)) THEN filed
                ELSE [filed EXCEPT ![Sock(r)] = {Room(r)}]
    /\ Insert(Room(r), Sender(r))
    /\ UNCHANGED <<req, member, messages, cursor, entered>>

WsPeer(r) ==
    /\ Goto(r, "ws peer", IF IsPeer(Filed(r), Sender(r)) THEN "done"
                                                         ELSE "ws file")
    /\ UNCHANGED <<req, chatVars>>

\* persist_peer_join
WsFile(r) ==
    /\ Goto(r, "ws file", "done")
    /\ InsertPeer(Filed(r), Sender(r))
    /\ UNCHANGED <<req, owner, messages, cursor, entered, filed>>

WsLeft(r) ==
    /\ Goto(r, "ws left", IF filed[Sock(r)] = {} /\ ~Exists(Room(r)) THEN "done"
                                                              ELSE "ws mark")
    /\ filed' = [filed EXCEPT ![Sock(r)] =
                   IF @ = {} /\ Exists(Room(r)) THEN {Room(r)} ELSE @]
    /\ UNCHANGED <<req, owner, member, messages, cursor, entered>>

\* persist_peer_leave
WsMark(r) ==
    /\ Goto(r, "ws mark", "done")
    /\ PeerLeft(Filed(r), Sender(r))
    /\ UNCHANGED <<req, owner, messages, cursor, entered, filed>>

ChatRequest(r) ==
    \/ RecvCreate(r) \/ RecvJoinRoom(r) \/ RecvLeaveRoom(r) \/ RecvInvite(r)
    \/ RecvKick(r) \/ RecvResolve(r) \/ RecvPost(r) \/ RecvDeleteMessage(r)
    \/ RecvMarkRead(r) \/ RecvWsJoin(r) \/ RecvWsLeave(r)
ChatStatement(r) ==
    \/ CreateRoom(r) \/ CreatePeer(r) \/ JoinLookup(r) \/ JoinInsert(r)
    \/ LeaveRoom(r) \/ InviteLookup(r) \/ InviteInsert(r) \/ Kick(r)
    \/ DmLookup(r) \/ DmCreate(r) \/ Welcome(r)
    \/ PostLookup(r) \/ InsertMessage(r) \/ SoftDelete(r) \/ MarkRead(r)
    \/ WsResolve(r) \/ WsCreate(r) \/ WsPeer(r) \/ WsFile(r)
    \/ WsLeft(r) \/ WsMark(r)

-----------------------------------------------------------------------------
\* Properties

\* A room of several has messages of its owner and of those who have been its
\* members, and of nobody else, whatever joins, leaves and kicks run into the
\* post (messages_handlers.py:310-333).
StrangersNeverPost ==
    \A i \in DOMAIN messages :
       LET m == messages[i]
       IN  m.room \notin Pairs =>
              owner[m.room] = m.by \/ member[m.room][m.by] # "none"

\* What an account has read does not become unread again, although requests that
\* mark older messages may arrive late (read_states.py:47-52).
ReadStaysRead ==
    [][\A u \in Users, c \in Rooms, i \in DOMAIN messages :
          i \in Unread(u, c)' => i \in Unread(u, c)]_chatVars

===============================================================================

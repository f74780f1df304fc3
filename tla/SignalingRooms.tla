--------------------------- MODULE SignalingRooms ---------------------------
(***************************************************************************)
(* The signaling server's room registry (server/room.py) and the WebSocket *)
(* handlers that drive it (server/signaling.py): JOIN, a second JOIN on    *)
(* the same socket, LEAVE, relaying, and the cleanup of a lost connection. *)
(*                                                                         *)
(* The server is one asyncio event loop.  A handler runs without           *)
(* interruption up to the next await that really suspends, so an action    *)
(* below is the code between two such awaits.  The registry's locks are    *)
(* only ever taken and released between two of them, hence never           *)
(* contended, and are not modelled.  What does suspend is                  *)
(* Room.broadcast_except with at least one target: asyncio.gather makes    *)
(* one task per target, and the tasks of one gather start back to back, in *)
(* the order in which the gathers were called.  `sends' is that queue.     *)
(*                                                                         *)
(* The awaits of a handler that touch no state of this module (database    *)
(* rows, audit log, SFU) only delay its next step, at any length.          *)
(***************************************************************************)
EXTENDS Naturals, Sequences, FiniteSets

CONSTANTS
    Sockets,     \* WebSocket connections, each one used once
    Peers,       \* values of the peer_id field
    Rooms,       \* values of the room field
    Ids,         \* Ids[s]: the peer_ids the client of socket s may JOIN with
    NoSocket,    \* "no Peer under this peer_id"
    NoRoom,      \* None in Peer.room_id
    NoPeer       \* no JOIN yet, so no Peer object

ASSUME IdsAssumption == Ids \in [Sockets -> SUBSET Peers]
ASSUME NullAssumption ==
    NoSocket \notin Sockets /\ NoRoom \notin Rooms /\ NoPeer \notin Peers

VARIABLES
    pc,          \* where the handler of a socket stands
    open,        \* sockets on which a send still succeeds (not ws.closed)
    roomId,      \* Peer.room_id
    peerId,      \* Peer.peer_id
    goal,        \* <<room, peer_id>> of a JOIN that first leaves a room
    registered,  \* keys of RoomRegistry._rooms
    member,      \* Room._peers: member[r][p] is the socket filed under p
    orphaned,    \* sockets whose join() holds a Room that was collected since
    sends,       \* broadcasts whose send tasks have not started yet
    view         \* what the PEERS, PEER_JOINED and PEER_LEFT sent on an open
                 \* socket make of AppState.known_peers

vars == <<pc, open, roomId, peerId, goal, registered, member, orphaned, sends,
          view>>

Steps == {"off", "idle", "moving", "joined", "announcing", "leaving",
          "cleaning", "done"}

Batch == [to: SUBSET Sockets, kind: {"PEER_JOINED", "PEER_LEFT"},
          peer: Peers, by: Sockets]

TypeOK ==
    /\ pc \in [Sockets -> Steps]
    /\ open \in SUBSET Sockets
    /\ roomId \in [Sockets -> Rooms \cup {NoRoom}]
    /\ peerId \in [Sockets -> Peers \cup {NoPeer}]
    /\ goal \in [Sockets -> (Rooms \cup {NoRoom}) \X (Peers \cup {NoPeer})]
    /\ registered \in SUBSET Rooms
    /\ member \in [Rooms -> [Peers -> Sockets \cup {NoSocket}]]
    /\ orphaned \in SUBSET Sockets
    /\ sends \in Seq(Batch)
    /\ view \in [Sockets -> SUBSET Peers]

-----------------------------------------------------------------------------
(* Reading the registry. *)

\* Room.peer_ids: the peer_ids filed in room r of registry contents m.
Filed(m, r) == {p \in Peers : m[r][p] # NoSocket}

\* Room.broadcast_except: the sockets of every Peer but the excepted one.
Targets(m, r, p) == {m[r][q] : q \in Filed(m, r) \ {p}}

\* leave() acts only if the room is registered and files the peer_id.
Present(s) ==
    /\ roomId[s] \in registered
    /\ member[roomId[s]][peerId[s]] # NoSocket

\* Registry contents after Room.remove_peer(peer_id): whatever Peer is filed
\* under the peer_id goes, be it this socket's or another's.
Removed(s) ==
    IF Present(s) THEN [member EXCEPT ![roomId[s]][peerId[s]] = NoSocket]
                  ELSE member

\* The end of leave(): the room leaves the registry if it is (still) empty.
Collected(m, r) ==
    IF r \in registered /\ Filed(m, r) = {} THEN registered \ {r} ELSE registered

\* The joins under way in a room that reg no longer registers keep the old,
\* empty Room; a later JOIN makes a new one.
Orphans(reg) ==
    orphaned \cup {t \in Sockets : pc[t] = "joined" /\ roomId[t] \in registered \ reg}

\* Will leave() suspend in its broadcast?
LeaveSuspends(s) ==
    Present(s) /\ Targets(member, roomId[s], peerId[s]) # {}

\* asyncio.gather over the targets: one batch of tasks, started later.
Broadcast(s, m, r, kind) ==
    Append(sends, [to |-> Targets(m, r, peerId[s]), kind |-> kind,
                   peer |-> peerId[s], by |-> s])

\* The gather that the handler of s waits for has not started its tasks.
Waiting(s) == \E i \in 1 .. Len(sends) : sends[i].by = s

-----------------------------------------------------------------------------
Init ==
    /\ pc = [s \in Sockets |-> "off"]
    /\ open = {}
    /\ roomId = [s \in Sockets |-> NoRoom]
    /\ peerId = [s \in Sockets |-> NoPeer]
    /\ goal = [s \in Sockets |-> <<NoRoom, NoPeer>>]
    /\ registered = {}
    /\ member = [r \in Rooms |-> [p \in Peers |-> NoSocket]]
    /\ orphaned = {}
    /\ sends = <<>>
    /\ view = [s \in Sockets |-> {}]

\* handle_ws: a client connects.
Connect(s) ==
    /\ pc[s] = "off"
    /\ pc' = [pc EXCEPT ![s] = "idle"]
    /\ open' = open \cup {s}
    /\ UNCHANGED <<roomId, peerId, goal, registered, member, orphaned,
                   sends, view>>

\* The connection is lost or closed by the client.  The handler notices when
\* it next waits for a frame; until then its sends fail.
Drop(s) ==
    /\ s \in open
    /\ open' = open \ {s}
    /\ view' = [view EXCEPT ![s] = {}]
    /\ UNCHANGED <<pc, roomId, peerId, goal, registered, member, orphaned,
                   sends>>

\* The first half of RoomRegistry.join: create the room if need be, file the
\* Peer (over any other under the same peer_id), answer with PEERS.
Enter(s, r, p, m, reg) ==
    LET before == IF r \in reg THEN m
                  ELSE [m EXCEPT ![r] = [q \in Peers |-> NoSocket]]
    IN  /\ peerId' = [peerId EXCEPT ![s] = p]
        /\ roomId' = [roomId EXCEPT ![s] = r]
        /\ registered' = reg \cup {r}
        /\ orphaned' = Orphans(reg) \ {s}
        /\ member' = [before EXCEPT ![r][p] = s]
        /\ view' = IF s \in open
                   THEN [view EXCEPT ![s] = Filed(before, r) \ {p}]
                   ELSE view
        /\ pc' = [pc EXCEPT ![s] = "joined"]

\* Mutant of RecvJoin: no leave() before a second JOIN.
RecvJoinWithoutLeave(s, r, p) ==
    /\ pc[s] = "idle"
    /\ p \in Ids[s]
    /\ Enter(s, r, p, member, registered)
    /\ UNCHANGED <<open, goal, sends>>

\* A frame JOIN(r, p).  A socket that already joined leaves first, and its
\* handler suspends there if somebody has to be told.
RecvJoin(s, r, p) ==
    /\ pc[s] = "idle"
    /\ p \in Ids[s]
    /\ IF LeaveSuspends(s)
       THEN /\ member' = Removed(s)
            /\ sends' = Broadcast(s, Removed(s), roomId[s], "PEER_LEFT")
            /\ goal' = [goal EXCEPT ![s] = <<r, p>>]
            /\ pc' = [pc EXCEPT ![s] = "moving"]
            /\ UNCHANGED <<roomId, peerId, registered, orphaned, view>>
       ELSE /\ Enter(s, r, p, Removed(s),
                     Collected(Removed(s), roomId[s]))
            /\ UNCHANGED <<goal, sends>>
    /\ UNCHANGED open

\* The old room has been told: leave() returns and join() begins.
FinishMove(s) ==
    /\ pc[s] = "moving"
    /\ ~Waiting(s)
    /\ Enter(s, goal[s][1], goal[s][2], member, Collected(member, roomId[s]))
    /\ goal' = [goal EXCEPT ![s] = <<NoRoom, NoPeer>>]
    /\ UNCHANGED <<open, sends>>

\* Mutant of Announce: the handler does not announce the socket.
AnnounceNobody(s) ==
    /\ pc[s] = "joined"
    /\ pc' = [pc EXCEPT ![s] = "idle"]
    /\ UNCHANGED <<open, roomId, peerId, goal, registered, member, orphaned,
                   sends, view>>

\* The second half of join(): PEER_JOINED to everybody else in the room.
Announce(s) ==
    /\ pc[s] = "joined"
    /\ IF s \in orphaned \/ Targets(member, roomId[s], peerId[s]) = {}
       THEN /\ pc' = [pc EXCEPT ![s] = "idle"]
            /\ UNCHANGED sends
       ELSE /\ pc' = [pc EXCEPT ![s] = "announcing"]
            /\ sends' = Broadcast(s, member, roomId[s], "PEER_JOINED")
    /\ UNCHANGED <<open, roomId, peerId, goal, registered, member, orphaned,
                   view>>

FinishJoin(s) ==
    /\ pc[s] = "announcing"
    /\ ~Waiting(s)
    /\ pc' = [pc EXCEPT ![s] = "idle"]
    /\ UNCHANGED <<open, roomId, peerId, goal, registered, member, orphaned,
                   sends, view>>

\* Both callers of leave() that do not join afterwards: `step' is where the
\* handler waits for the broadcast, `next' where it goes from there.
LeaveRoom(s, step, next) ==
    /\ roomId[s] # NoRoom
    /\ member' = Removed(s)
    /\ IF LeaveSuspends(s)
       THEN /\ sends' = Broadcast(s, Removed(s), roomId[s], "PEER_LEFT")
            /\ pc' = [pc EXCEPT ![s] = step]
            /\ UNCHANGED <<roomId, registered, orphaned>>
       ELSE /\ registered' = Collected(Removed(s), roomId[s])
            /\ orphaned' = Orphans(registered')
            /\ roomId' = IF step = "leaving"
                         THEN [roomId EXCEPT ![s] = NoRoom] ELSE roomId
            /\ pc' = [pc EXCEPT ![s] = next]
            /\ UNCHANGED sends
    /\ UNCHANGED <<open, peerId, goal, view>>

\* A frame LEAVE.  The client names its own room and peer_id.
RecvLeave(s) ==
    /\ pc[s] = "idle"
    /\ LeaveRoom(s, "leaving", "idle")

FinishLeave(s) ==
    /\ pc[s] = "leaving"
    /\ ~Waiting(s)
    /\ registered' = Collected(member, roomId[s])
    /\ orphaned' = Orphans(registered')
    /\ roomId' = [roomId EXCEPT ![s] = NoRoom]
    /\ pc' = [pc EXCEPT ![s] = "idle"]
    /\ UNCHANGED <<open, peerId, goal, member, sends, view>>

\* Mutant of Cleanup: handle_ws without its finally.
CleanupNothing(s) ==
    /\ pc[s] = "idle"
    /\ s \notin open
    /\ pc' = [pc EXCEPT ![s] = "done"]
    /\ UNCHANGED <<open, roomId, peerId, goal, registered, member, orphaned,
                   sends, view>>

\* handle_ws leaves its message loop and runs cleanup_peer, which is a no-op
\* for a connection that is in no room.
Cleanup(s) ==
    /\ pc[s] = "idle"
    /\ s \notin open
    /\ \/ LeaveRoom(s, "cleaning", "done")
       \/ /\ roomId[s] = NoRoom
          /\ pc' = [pc EXCEPT ![s] = "done"]
          /\ UNCHANGED <<open, roomId, peerId, goal, registered, member,
                         orphaned, sends, view>>

FinishCleanup(s) ==
    /\ pc[s] = "cleaning"
    /\ ~Waiting(s)
    /\ registered' = Collected(member, roomId[s])
    /\ orphaned' = Orphans(registered')
    /\ pc' = [pc EXCEPT ![s] = "done"]
    /\ UNCHANGED <<open, roomId, peerId, goal, member, sends, view>>

\* Mutant of Heard: the client ignores PEER_LEFT.
HeardJoinsOnly(known, b) ==
    IF b.kind = "PEER_JOINED" THEN known \cup {b.peer} ELSE known

\* What the client makes of a broadcast (SignalingClient._handle_text_frame).
Heard(known, b) ==
    IF b.kind = "PEER_JOINED" THEN known \cup {b.peer} ELSE known \ {b.peer}

\* Mutant of RunSends: a send to a dead socket does not return.
RunSendsBlocking ==
    /\ sends # <<>>
    /\ Head(sends).to \subseteq open
    /\ sends' = Tail(sends)
    /\ view' = [s \in Sockets |->
                  IF s \in Head(sends).to
                  THEN Heard(view[s], Head(sends)) ELSE view[s]]
    /\ UNCHANGED <<pc, open, roomId, peerId, goal, registered, member,
                   orphaned>>

\* The event loop starts the send tasks of the oldest gather.
RunSends ==
    /\ sends # <<>>
    /\ sends' = Tail(sends)
    /\ view' = [s \in Sockets |->
                  IF s \in Head(sends).to \cap open
                  THEN Heard(view[s], Head(sends)) ELSE view[s]]
    /\ UNCHANGED <<pc, open, roomId, peerId, goal, registered, member,
                   orphaned>>

\* RoomRegistry.relay changes nothing: only its outcome matters.
RelayResult(s, p) ==
    IF roomId[s] = NoRoom THEN "NOT_JOINED"
    ELSE IF roomId[s] \notin registered THEN "ROOM_NOT_FOUND"
    ELSE IF member[roomId[s]][p] \in open THEN "delivered"
    ELSE "PEER_NOT_FOUND"

Handler(s) ==
    \/ FinishMove(s)
    \/ Announce(s)
    \/ FinishJoin(s)
    \/ FinishLeave(s)
    \/ FinishCleanup(s)

Next ==
    \/ \E s \in Sockets :
          \/ Connect(s)
          \/ Drop(s)
          \/ \E r \in Rooms, p \in Peers : RecvJoin(s, r, p)
          \/ RecvLeave(s)
          \/ Cleanup(s)
          \/ Handler(s)
    \/ RunSends

Spec == Init /\ [][Next]_vars

\* The event loop runs every ready callback, so started handlers and queued
\* tasks go on.  A lost connection ends its message loop once the frames that
\* were buffered before are used up; there are finitely many of those, so the
\* end of the loop, though not always the next thing to happen, does happen.
FairSpec ==
    /\ Spec
    /\ WF_vars(RunSends)
    /\ \A s \in Sockets : WF_vars(Handler(s)) /\ SF_vars(Cleanup(s))
-----------------------------------------------------------------------------
(* Properties. *)

Idle(s) == pc[s] = "idle" /\ s \in open

\* The socket is filed in the room its Peer object names.
IsMember(s) ==
    /\ roomId[s] \in registered
    /\ member[roomId[s]][peerId[s]] = s

\* Every registered room has somebody in it: whenever the event loop runs
\* another task, leave() has collected the room that it emptied, also when two
\* peers leave together and the second empties the room while the first still
\* waits for its broadcast (RoomRegistry.leave).
NoEmptyRoom == \A r \in registered : Filed(member, r) # {}

\* Once a connection's handler has ended, no room refers to it any more, even
\* if the socket joined several rooms under several peer_ids or was overwritten
\* by another socket (handle_ws's finally, RoomRegistry.cleanup_peer).
NoDeadMember ==
    \A s \in Sockets : pc[s] = "done" =>
        \A r \in registered, p \in Peers : member[r][p] # s

\* When every connection has ended the registry is empty, so that
\* RoomRegistry.shutdown, which runs after that, has nothing left to do.
NothingLeftBehind ==
    (\A s \in Sockets : pc[s] \in {"off", "done"}) => registered = {}

\* A connection that joined and is waiting for its next frame is a member of
\* the room it joined: nobody else's leaving takes it out.
JoinedIsMember ==
    \A s \in Sockets : pc[s] = "idle" /\ roomId[s] # NoRoom => IsMember(s)

\* The queued broadcasts that will tell s something about p.
About(s, p) == {i \in 1 .. Len(sends) : s \in sends[i].to /\ sends[i].peer = p}

\* The member list of every client converges to the room's: what a client knows
\* of a peer is already right, or a queued broadcast will put it right and is
\* the last one about that peer, or the peer has yet to announce itself.  The
\* PEERS answer is computed before, and the PEER_JOINED and PEER_LEFT of
\* handlers that interleave arrive after, other changes of the room.
ViewConverges ==
    \A s \in open : IsMember(s) =>
        \A p \in Peers \ {peerId[s]} :
            LET inRoom == member[roomId[s]][p] # NoSocket
            IN  IF About(s, p) # {}
                THEN LET last == CHOOSE i \in About(s, p) :
                                    \A j \in About(s, p) : j <= i
                     IN  inRoom <=> sends[last].kind = "PEER_JOINED"
                ELSE \/ inRoom <=> p \in view[s]
                     \/ inRoom /\ pc[member[roomId[s]][p]] = "joined"

\* An OFFER to a peer that the client still knows when no broadcast is queued
\* is delivered, unless that peer's connection is already dead; a joined client
\* never hears ROOM_NOT_FOUND.
RelayReachesKnownPeer ==
    \A s \in Sockets : Idle(s) /\ roomId[s] # NoRoom =>
        \A p \in Peers :
            /\ RelayResult(s, p) # "ROOM_NOT_FOUND"
            /\ sends = <<>> /\ p \in view[s] /\ RelayResult(s, p) # "delivered"
               => \E t \in Sockets \ open : IsMember(t) /\ peerId[t] = p

\* Membership ends only by a step of the member's own handler.
OnlyIEndMyMembership ==
    [][\A s \in Sockets : IsMember(s) /\ ~IsMember(s)' =>
           pc'[s] # pc[s] \/ roomId'[s] # roomId[s]]_vars

\* A lost connection is forgotten: its handler ends, and from then on, or
\* sooner, no client that stays in the room goes on listing its peer_id.
Forgotten(s) == pc[s] # "off" /\ s \notin open ~> pc[s] = "done"
DeadConnectionForgotten == \A s \in Sockets : Forgotten(s)

\* The registry keeps the promise of module Occupancy whatever peer_ids the
\* sockets use: its contents, read as pairs, change as if every connection were
\* in one room at a time.
Occupied == {x \in Sockets \X registered :
                \E p \in Peers : member[x[2]][p] = x[1]}
Occ == INSTANCE Occupancy WITH occupied <- Occupied
KeepsOccupancy == Occ!Spec

=============================================================================

------------------------ MODULE SignalingRoomsProofs ------------------------
(***************************************************************************)
(* Proofs about SignalingRooms, for any sets of sockets, peer_ids and      *)
(* rooms, and any assignment of peer_ids to sockets unless a theorem says  *)
(* otherwise.                                                              *)
(***************************************************************************)
EXTENDS SignalingRooms, TLAPS

Contents == [Rooms -> [Peers -> Sockets \cup {NoSocket}]]

\* A handler that is in the middle of a JOIN or a LEAVE, or whose Peer has a
\* room_id, has a room, a peer_id and, before a second join(), a goal.
Proper ==
    \A s \in Sockets :
       /\ roomId[s] \in Rooms => peerId[s] \in Peers
       /\ pc[s] = "moving" => goal[s] \in Rooms \X Peers
       /\ pc[s] \in {"moving", "joined", "announcing", "leaving", "cleaning"}
             => roomId[s] \in Rooms

\* An entry of a room refers to a Peer object that names this room and peer_id.
EntryIsSelf ==
    \A r \in registered, p \in Peers :
       member[r][p] # NoSocket =>
          /\ roomId[member[r][p]] = r
          /\ peerId[member[r][p]] = p

\* A handler that has begun to leave, or has ended, has no entry of its own.
Gone ==
    \A s \in Sockets :
       pc[s] \in {"off", "moving", "leaving", "cleaning", "done"} => ~IsMember(s)

IInv == TypeOK /\ Proper /\ EntryIsSelf /\ Gone /\ NoEmptyRoom

-----------------------------------------------------------------------------
(* The registry's helpers. *)

\* A broadcast goes to sockets.
LEMMA TargetsType ==
    ASSUME NEW m \in Contents, NEW r \in Rooms, NEW p
    PROVE  Targets(m, r, p) \in SUBSET Sockets
BY DEF Targets, Filed, Contents

\* A broadcast under a proper room and peer_id is a batch.
LEMMA BroadcastType ==
    ASSUME TypeOK, NEW m \in Contents, NEW s \in Sockets,
           roomId[s] \in Rooms, peerId[s] \in Peers,
           NEW kind \in {"PEER_JOINED", "PEER_LEFT"}
    PROVE  Broadcast(s, m, roomId[s], kind) \in Seq(Batch)
<1>1. Targets(m, roomId[s], peerId[s]) \in SUBSET Sockets
  BY TargetsType
<1>2. [to |-> Targets(m, roomId[s], peerId[s]), kind |-> kind,
       peer |-> peerId[s], by |-> s] \in Batch
  BY <1>1 DEF Batch
<1>3. QED
  BY <1>2 DEF Broadcast, TypeOK

\* Removing a Peer leaves proper contents.
LEMMA RemovedType ==
    ASSUME TypeOK, NEW s \in Sockets
    PROVE  Removed(s) \in Contents
BY DEF TypeOK, Removed, Contents

\* Removing a Peer touches one entry, and only in a registered room.
LEMMA RemovedEntries ==
    ASSUME TypeOK, Proper, NEW s \in Sockets, NEW r \in Rooms, NEW p \in Peers
    PROVE  Removed(s)[r][p] =
              IF Present(s) /\ r = roomId[s] /\ p = peerId[s]
              THEN NoSocket ELSE member[r][p]
BY DEF TypeOK, Proper, Removed, Present

\* Collecting takes at most that room, and leaves it only if somebody is filed there.
LEMMA CollectedType ==
    ASSUME TypeOK, NEW m, NEW r
    PROVE  /\ Collected(m, r) \in SUBSET Rooms
           /\ Collected(m, r) \subseteq registered
           /\ \A q \in registered : q # r => q \in Collected(m, r)
           /\ r \in Collected(m, r) => Filed(m, r) # {}
BY DEF TypeOK, Collected

-----------------------------------------------------------------------------
(* Enter, for any contents and registered rooms it may start from. *)

\* Filing a Peer leaves every variable in its type.
LEMMA EnterType ==
    ASSUME TypeOK, Proper, NEW s \in Sockets, NEW r \in Rooms, NEW p \in Peers,
           NEW m \in Contents, NEW reg \in SUBSET registered,
           Enter(s, r, p, m, reg)
    PROVE  /\ pc' \in [Sockets -> Steps]
           /\ roomId' \in [Sockets -> Rooms \cup {NoRoom}]
           /\ peerId' \in [Sockets -> Peers \cup {NoPeer}]
           /\ registered' \in SUBSET Rooms
           /\ member' \in Contents
           /\ orphaned' \in SUBSET Sockets
           /\ view' \in [Sockets -> SUBSET Peers]
<1> DEFINE before == IF r \in reg THEN m
                     ELSE [m EXCEPT ![r] = [q \in Peers |-> NoSocket]]
<1>1. before \in Contents
  BY DEF Contents
<1>2. Filed(before, r) \in SUBSET Peers
  BY DEF Filed
<1>3. /\ pc' \in [Sockets -> Steps]
      /\ roomId' \in [Sockets -> Rooms \cup {NoRoom}]
      /\ peerId' \in [Sockets -> Peers \cup {NoPeer}]
      /\ registered' \in SUBSET Rooms
      /\ orphaned' \in SUBSET Sockets
  BY DEF Enter, TypeOK, Steps, Orphans
<1>4. member' = [before EXCEPT ![r][p] = s]
  BY DEF Enter
<1>5. member' \in Contents
  BY <1>1, <1>4 DEF Contents
<1>6. view' \in [Sockets -> SUBSET Peers]
  <2>1. view' = IF s \in open
                THEN [view EXCEPT ![s] = Filed(before, r) \ {p}] ELSE view
    BY DEF Enter
  <2>2. QED
    BY <2>1, <1>2 DEF TypeOK
<1>7. QED
  BY <1>3, <1>5, <1>6

-----------------------------------------------------------------------------
(* How an action changes the entries.  Three shapes cover all of them: it    *)
(* files socket s, it may remove entries and leaves none of s, or it does    *)
(* not touch the registry.                                                   *)

GoneSteps == {"off", "moving", "leaving", "cleaning", "done"}

Registry == EntryIsSelf /\ Gone /\ NoEmptyRoom

\* Nothing in the registered rooms reg of contents m refers to s, and whatever
\* is filed there was filed before.
Leftover(s, m, reg) ==
    /\ reg \subseteq registered
    /\ \A q \in reg : Filed(m, q) # {}
    /\ \A q \in reg, x \in Peers :
          m[q][x] # s /\ m[q][x] \in {member[q][x], NoSocket}

\* After leave() has removed its entry, nothing refers to the socket.
LEMMA LeftoverAfterRemoval ==
    ASSUME TypeOK, Proper, Registry, NEW s \in Sockets
    PROVE  /\ Leftover(s, Removed(s), Collected(Removed(s), roomId[s]))
           /\ LeaveSuspends(s) => Leftover(s, Removed(s), registered)
<1>1. ASSUME NEW q \in registered, NEW x \in Peers
      PROVE  Removed(s)[q][x] # s /\ Removed(s)[q][x] \in {member[q][x], NoSocket}
  <2>1. q \in Rooms
    BY DEF TypeOK
  <2>2. Removed(s)[q][x] = IF Present(s) /\ q = roomId[s] /\ x = peerId[s]
                           THEN NoSocket ELSE member[q][x]
    BY <2>1, RemovedEntries
  <2>3. ASSUME member[q][x] = s
        PROVE  Present(s) /\ q = roomId[s] /\ x = peerId[s]
    <3>1. s # NoSocket
      BY NullAssumption
    <3>2. roomId[s] = q /\ peerId[s] = x
      BY <2>3, <3>1 DEF Registry, EntryIsSelf
    <3>3. QED
      BY <2>3, <3>1, <3>2 DEF Present
  <2>4. QED
    BY <2>2, <2>3, NullAssumption
<1>2. ASSUME NEW q \in registered, q # roomId[s]
      PROVE  Filed(Removed(s), q) # {}
  <2>1. q \in Rooms /\ Filed(member, q) # {}
    BY DEF TypeOK, Registry, NoEmptyRoom
  <2>2. \A x \in Peers : Removed(s)[q][x] = member[q][x]
    BY <1>2, <2>1, RemovedEntries
  <2>3. QED
    BY <2>1, <2>2 DEF Filed
<1>3. ASSUME LeaveSuspends(s)
      PROVE  Filed(Removed(s), roomId[s]) # {}
  <2>1. roomId[s] \in Rooms
    BY <1>3 DEF LeaveSuspends, Present, TypeOK
  <2>2. PICK x \in Peers : member[roomId[s]][x] # NoSocket /\ x # peerId[s]
    BY <1>3 DEF LeaveSuspends, Targets, Filed
  <2>3. Removed(s)[roomId[s]][x] = member[roomId[s]][x]
    BY <2>1, <2>2, RemovedEntries
  <2>4. QED
    BY <2>2, <2>3 DEF Filed
<1>4. Leftover(s, Removed(s), Collected(Removed(s), roomId[s]))
  <2>1. Collected(Removed(s), roomId[s]) \subseteq registered
    BY CollectedType
  <2>2. \A q \in Collected(Removed(s), roomId[s]) : Filed(Removed(s), q) # {}
    BY <1>2, <2>1, CollectedType
  <2>3. QED
    BY <1>1, <2>1, <2>2 DEF Leftover
<1>5. ASSUME LeaveSuspends(s)
      PROVE  Leftover(s, Removed(s), registered)
  BY <1>1, <1>2, <1>3, <1>5 DEF Leftover
<1>6. QED
  BY <1>4, <1>5

\* A handler that has left has nothing in the registry.
LEMMA LeftoverOfGone ==
    ASSUME TypeOK, Proper, Registry, NEW s \in Sockets, pc[s] \in GoneSteps,
           NEW r
    PROVE  Leftover(s, member, Collected(member, r))
<1>1. ASSUME NEW q \in registered, NEW x \in Peers
      PROVE  member[q][x] # s
  <2>1. SUFFICES ASSUME member[q][x] = s PROVE FALSE
    OBVIOUS
  <2>2. roomId[s] = q /\ peerId[s] = x
    BY <2>1, NullAssumption DEF Registry, EntryIsSelf
  <2>3. ~IsMember(s)
    BY DEF Registry, Gone, GoneSteps
  <2>4. QED
    BY <2>1, <2>2, <2>3 DEF IsMember
<1>2. Collected(member, r) \subseteq registered
  BY CollectedType
<1>3. QED
  BY <1>1, <1>2 DEF Leftover, Registry, NoEmptyRoom

\* Filing a socket that has no entry keeps the registry in order.
LEMMA EnterKeepsRegistry ==
    ASSUME TypeOK, Proper, Registry, NEW s \in Sockets, NEW r \in Rooms,
           NEW p \in Peers, NEW m \in Contents, NEW reg \in SUBSET registered,
           Leftover(s, m, reg), Enter(s, r, p, m, reg)
    PROVE  Registry'
<1>1. /\ registered' = reg \cup {r}
      /\ roomId' = [roomId EXCEPT ![s] = r]
      /\ peerId' = [peerId EXCEPT ![s] = p]
      /\ pc' = [pc EXCEPT ![s] = "joined"]
  BY DEF Enter
<1>2. reg \subseteq Rooms
  BY DEF TypeOK
<1>3. member'[r][p] = s
  BY DEF Enter, Contents
<1>4. ASSUME NEW q \in registered', NEW x \in Peers, member'[q][x] # NoSocket,
             ~(q = r /\ x = p)
      PROVE  q \in reg /\ member'[q][x] = member[q][x] /\ member[q][x] # s
  <2>1. q \in reg
    BY <1>1, <1>2, <1>4 DEF Enter, Contents
  <2>2. member'[q][x] = m[q][x]
    BY <1>2, <1>4, <2>1 DEF Enter, Contents
  <2>3. QED
    BY <1>4, <2>1, <2>2 DEF Leftover
<1>5. EntryIsSelf'
  <2>1. SUFFICES ASSUME NEW q \in registered', NEW x \in Peers,
                        member'[q][x] # NoSocket
                 PROVE  /\ roomId'[member'[q][x]] = q
                        /\ peerId'[member'[q][x]] = x
    BY DEF EntryIsSelf
  <2>2. CASE q = r /\ x = p
    BY <1>1, <1>3, <2>2 DEF TypeOK
  <2>3. CASE ~(q = r /\ x = p)
    <3>1. q \in reg /\ member'[q][x] = member[q][x] /\ member[q][x] # s
      BY <1>4, <2>1, <2>3
    <3>2. q \in registered /\ q \in Rooms
      BY <3>1, <1>2
    <3>3. roomId[member[q][x]] = q /\ peerId[member[q][x]] = x
      BY <2>1, <3>1, <3>2 DEF Registry, EntryIsSelf
    <3>4. member[q][x] \in Sockets
      BY <2>1, <3>1, <3>2 DEF TypeOK
    <3>5. QED
      BY <1>1, <3>1, <3>3, <3>4 DEF TypeOK
  <2>4. QED
    BY <2>2, <2>3
<1>6. Gone'
  <2>1. SUFFICES ASSUME NEW t \in Sockets, pc'[t] \in GoneSteps, IsMember(t)'
                 PROVE  FALSE
    BY DEF Gone, GoneSteps
  <2>2. t # s
    BY <1>1, <2>1 DEF TypeOK, GoneSteps
  <2>3. roomId'[t] = roomId[t] /\ peerId'[t] = peerId[t] /\ pc'[t] = pc[t]
    BY <1>1, <2>2 DEF TypeOK
  <2>4. roomId[t] \in registered' /\ member'[roomId[t]][peerId[t]] = t
    BY <2>1, <2>3 DEF IsMember
  <2>5. roomId[t] \in Rooms /\ peerId[t] \in Peers
    BY <1>1, <1>2, <2>4 DEF Proper
  <2>6. ~(roomId[t] = r /\ peerId[t] = p)
    BY <1>3, <2>2, <2>4
  <2>7. t # NoSocket
    BY NullAssumption
  <2>8. roomId[t] \in reg /\ member[roomId[t]][peerId[t]] = t
    BY <1>4, <2>4, <2>5, <2>6, <2>7
  <2>9. IsMember(t)
    BY <2>8 DEF IsMember
  <2>10. QED
    BY <2>1, <2>3, <2>9 DEF Registry, Gone, GoneSteps
<1>7. NoEmptyRoom'
  <2>1. SUFFICES ASSUME NEW q \in registered' PROVE Filed(member', q) # {}
    BY DEF NoEmptyRoom, Filed
  <2>2. CASE q = r
    BY <1>3, <2>2, NullAssumption DEF Filed
  <2>3. CASE q # r
    <3>1. q \in reg /\ q \in Rooms
      BY <1>1, <1>2, <2>3
    <3>2. \A x \in Peers : member'[q][x] = m[q][x]
      BY <2>3, <3>1 DEF Enter, Contents
    <3>3. Filed(m, q) # {}
      BY <3>1 DEF Leftover
    <3>4. QED
      BY <3>2, <3>3 DEF Filed
  <2>4. QED
    BY <2>2, <2>3
<1>8. QED
  BY <1>5, <1>6, <1>7 DEF Registry

\* So does taking entries away, for a handler that has left.
LEMMA ShrinkKeepsRegistry ==
    ASSUME TypeOK, Proper, Registry, NEW s \in Sockets, UNCHANGED peerId,
           Leftover(s, member', registered'),
           roomId'[s] \in {roomId[s], NoRoom},
           \A t \in Sockets : t # s => roomId'[t] = roomId[t] /\ pc'[t] = pc[t]
    PROVE  Registry'
<1>1. registered' \subseteq registered /\ registered \subseteq Rooms
  BY DEF Leftover, TypeOK
<1>2. ASSUME NEW q \in registered', NEW x \in Peers, member'[q][x] # NoSocket
      PROVE  /\ member'[q][x] = member[q][x]
             /\ member'[q][x] # s
             /\ member'[q][x] \in Sockets
  <2>1. member'[q][x] = member[q][x] /\ member'[q][x] # s
    BY <1>2 DEF Leftover
  <2>2. member[q][x] \in Sockets
    BY <1>1, <1>2, <2>1 DEF TypeOK
  <2>3. QED
    BY <2>1, <2>2
<1>3. EntryIsSelf'
  <2>1. SUFFICES ASSUME NEW q \in registered', NEW x \in Peers,
                        member'[q][x] # NoSocket
                 PROVE  /\ roomId'[member'[q][x]] = q
                        /\ peerId'[member'[q][x]] = x
    BY DEF EntryIsSelf
  <2>2. roomId[member[q][x]] = q /\ peerId[member[q][x]] = x
    BY <1>1, <1>2, <2>1 DEF Registry, EntryIsSelf
  <2>3. QED
    BY <1>2, <2>1, <2>2
<1>4. Gone'
  <2>1. SUFFICES ASSUME NEW t \in Sockets, pc'[t] \in GoneSteps, IsMember(t)'
                 PROVE  FALSE
    BY DEF Gone, GoneSteps
  <2>2. roomId'[t] \in registered' /\ member'[roomId'[t]][peerId[t]] = t
    BY <2>1 DEF IsMember
  <2>3. CASE t = s
    <3>1. \A q \in registered', x \in Peers : member'[q][x] # s
      BY DEF Leftover
    <3>2. roomId'[t] \in Rooms
      BY <1>1, <2>2
    <3>3. roomId'[t] = roomId[t]
      BY <2>3, <3>2, NullAssumption
    <3>4. peerId[t] \in Peers
      BY <3>2, <3>3 DEF Proper
    <3>5. QED
      BY <2>2, <2>3, <3>1, <3>4
  <2>4. CASE t # s
    <3>1. roomId'[t] = roomId[t] /\ pc'[t] = pc[t]
      BY <2>4
    <3>2. roomId[t] \in registered /\ peerId[t] \in Peers
      BY <1>1, <2>2, <3>1 DEF Proper
    <3>3. t # NoSocket
      BY NullAssumption
    <3>4. member[roomId[t]][peerId[t]] = t
      BY <1>2, <2>2, <3>1, <3>2, <3>3
    <3>5. QED
      BY <2>1, <3>1, <3>2, <3>4 DEF Registry, Gone, GoneSteps, IsMember
  <2>5. QED
    BY <2>3, <2>4
<1>5. NoEmptyRoom'
  BY DEF Leftover, NoEmptyRoom, Filed
<1>6. QED
  BY <1>3, <1>4, <1>5 DEF Registry

\* So does every step that leaves the registry alone.
LEMMA QuietKeepsRegistry ==
    ASSUME TypeOK, Registry, UNCHANGED <<roomId, peerId, registered, member>>,
           \A t \in Sockets : pc'[t] \in GoneSteps =>
              pc[t] \in GoneSteps \/ roomId[t] = NoRoom
    PROVE  Registry'
<1>1. EntryIsSelf' /\ NoEmptyRoom'
  BY DEF Registry, EntryIsSelf, NoEmptyRoom, Filed
<1>2. Gone'
  <2>1. SUFFICES ASSUME NEW t \in Sockets, pc'[t] \in GoneSteps
                 PROVE  ~IsMember(t)'
    BY DEF Gone, GoneSteps
  <2>2. IsMember(t)' <=> IsMember(t)
    BY DEF IsMember
  <2>3. roomId[t] = NoRoom => ~IsMember(t)
    BY NullAssumption DEF IsMember, TypeOK
  <2>4. QED
    BY <2>1, <2>2, <2>3 DEF Registry, Gone, GoneSteps
<1>3. QED
  BY <1>1, <1>2 DEF Registry

-----------------------------------------------------------------------------
(* The inductive invariant. *)

\* The invariant holds of an empty registry.
LEMMA InitIInv == Init => IInv
<1>1. Init => TypeOK
  BY DEF Init, TypeOK, Steps
<1>2. Init => Proper
  BY NullAssumption DEF Init, Proper
<1>3. Init => Registry
  BY DEF Init, Registry, EntryIsSelf, Gone, IsMember, NoEmptyRoom
<1>4. QED
  BY <1>1, <1>2, <1>3 DEF IInv, Registry

\* What LeaveRoom does, for RecvLeave and Cleanup alike.
LEMMA LeaveRoomKeeps ==
    ASSUME IInv, NEW s \in Sockets, NEW step \in {"leaving", "cleaning"},
           NEW next \in {"idle", "done"}, LeaveRoom(s, step, next)
    PROVE  IInv'
<1> USE DEF IInv
<1>1. Registry
  BY DEF Registry
<1>2. roomId[s] \in Rooms /\ peerId[s] \in Peers
  BY DEF LeaveRoom, TypeOK, Proper
<1>3. member' = Removed(s) /\ member' \in Contents
  BY RemovedType DEF LeaveRoom
<1>4. UNCHANGED <<open, peerId, goal, view>>
  BY DEF LeaveRoom
<1>5. CASE LeaveSuspends(s)
  <2>1. /\ sends' = Broadcast(s, Removed(s), roomId[s], "PEER_LEFT")
        /\ pc' = [pc EXCEPT ![s] = step]
        /\ UNCHANGED <<roomId, registered, orphaned>>
    BY <1>5 DEF LeaveRoom
  <2>2. sends' \in Seq(Batch)
    BY <1>2, <1>3, <2>1, BroadcastType
  <2>3. TypeOK'
    BY <1>3, <1>4, <2>1, <2>2 DEF TypeOK, Contents, Steps
  <2>4. Proper'
    BY <1>2, <1>4, <2>1 DEF TypeOK, Proper
  <2>5. Leftover(s, member', registered')
    BY <1>1, <1>3, <1>5, <2>1, LeftoverAfterRemoval
  <2>6. Registry'
    BY <1>1, <1>4, <2>1, <2>5, ShrinkKeepsRegistry DEF TypeOK
  <2>7. QED
    BY <2>3, <2>4, <2>6 DEF Registry
<1>6. CASE ~LeaveSuspends(s)
  <2>1. /\ registered' = Collected(Removed(s), roomId[s])
        /\ orphaned' = Orphans(registered')
        /\ roomId' = IF step = "leaving"
                     THEN [roomId EXCEPT ![s] = NoRoom] ELSE roomId
        /\ pc' = [pc EXCEPT ![s] = next]
        /\ UNCHANGED sends
    BY <1>6 DEF LeaveRoom
  <2>2. registered' \in SUBSET Rooms
    BY <2>1, CollectedType
  <2>3. TypeOK'
    BY <1>3, <1>4, <2>1, <2>2 DEF TypeOK, Contents, Steps, Orphans
  <2>4. Proper'
    BY <1>2, <1>4, <2>1, NullAssumption DEF TypeOK, Proper
  <2>5. Leftover(s, member', registered')
    BY <1>1, <1>3, <2>1, LeftoverAfterRemoval
  <2>6. Registry'
    BY <1>1, <1>4, <2>1, <2>5, ShrinkKeepsRegistry DEF TypeOK
  <2>7. QED
    BY <2>3, <2>4, <2>6 DEF Registry
<1>7. QED
  BY <1>5, <1>6

\* The joins: straight from a frame, or when an earlier leave() has returned.
LEMMA EnterKeeps ==
    ASSUME IInv, NEW s \in Sockets, NEW r \in Rooms, NEW p \in Peers,
           NEW m \in Contents, NEW reg \in SUBSET registered,
           Leftover(s, m, reg), Enter(s, r, p, m, reg),
           UNCHANGED <<open, sends>>,
           goal' \in [Sockets -> (Rooms \cup {NoRoom}) \X (Peers \cup {NoPeer})],
           \A t \in Sockets : t # s => goal'[t] = goal[t]
    PROVE  IInv'
<1>1. TypeOK'
  BY EnterType DEF IInv, TypeOK, Contents
<1>2. Proper'
  BY DEF IInv, TypeOK, Proper, Enter
<1>3. Registry'
  BY EnterKeepsRegistry DEF IInv, Registry
<1>4. QED
  BY <1>1, <1>2, <1>3 DEF IInv, Registry

\* A JOIN keeps the invariant, whether or not it first has to tell an old room.
LEMMA RecvJoinKeeps ==
    ASSUME IInv, NEW s \in Sockets, NEW r \in Rooms, NEW p \in Peers,
           RecvJoin(s, r, p)
    PROVE  IInv'
<1>1. Registry
  BY DEF IInv, Registry
<1>2. Removed(s) \in Contents
  BY RemovedType DEF IInv
<1>3. CASE LeaveSuspends(s)
  <2>1. /\ member' = Removed(s)
        /\ sends' = Broadcast(s, Removed(s), roomId[s], "PEER_LEFT")
        /\ goal' = [goal EXCEPT ![s] = <<r, p>>]
        /\ pc' = [pc EXCEPT ![s] = "moving"]
        /\ UNCHANGED <<open, roomId, peerId, registered, orphaned, view>>
    BY <1>3 DEF RecvJoin
  <2>2. roomId[s] \in Rooms /\ peerId[s] \in Peers
    BY <1>3 DEF LeaveSuspends, Present, IInv, TypeOK, Proper
  <2>3. sends' \in Seq(Batch)
    BY <1>2, <2>1, <2>2, BroadcastType DEF IInv
  <2>4. TypeOK'
    BY <1>2, <2>1, <2>3 DEF IInv, TypeOK, Contents, Steps
  <2>5. Proper'
    BY <2>1, <2>2 DEF IInv, TypeOK, Proper
  <2>6. Leftover(s, member', registered')
    BY <1>1, <1>3, <2>1, LeftoverAfterRemoval DEF IInv
  <2>7. Registry'
    BY <1>1, <2>1, <2>6, ShrinkKeepsRegistry DEF IInv, TypeOK
  <2>8. QED
    BY <2>4, <2>5, <2>7 DEF IInv, Registry
<1>4. CASE ~LeaveSuspends(s)
  <2>1. /\ Enter(s, r, p, Removed(s), Collected(Removed(s), roomId[s]))
        /\ UNCHANGED <<open, goal, sends>>
    BY <1>4 DEF RecvJoin
  <2>2. Leftover(s, Removed(s), Collected(Removed(s), roomId[s]))
    BY <1>1, LeftoverAfterRemoval DEF IInv
  <2>3. Collected(Removed(s), roomId[s]) \in SUBSET registered
    BY CollectedType DEF IInv
  <2>4. goal' \in [Sockets -> (Rooms \cup {NoRoom}) \X (Peers \cup {NoPeer})]
    BY <2>1 DEF IInv, TypeOK
  <2>5. QED
    BY <1>2, <2>1, <2>2, <2>3, <2>4, EnterKeeps
<1>5. QED
  BY <1>3, <1>4

\* So does the second half of a JOIN from another room.
LEMMA FinishMoveKeeps ==
    ASSUME IInv, NEW s \in Sockets, FinishMove(s)
    PROVE  IInv'
<1>1. goal[s][1] \in Rooms /\ goal[s][2] \in Peers
  BY DEF FinishMove, IInv, Proper
<1>2. member \in Contents
  BY DEF IInv, TypeOK, Contents
<1>3. Leftover(s, member, Collected(member, roomId[s]))
  BY LeftoverOfGone DEF FinishMove, IInv, Registry, GoneSteps
<1>4. Collected(member, roomId[s]) \in SUBSET registered
  BY CollectedType DEF IInv
<1>5. /\ Enter(s, goal[s][1], goal[s][2], member, Collected(member, roomId[s]))
      /\ goal' = [goal EXCEPT ![s] = <<NoRoom, NoPeer>>]
      /\ UNCHANGED <<open, sends>>
  BY DEF FinishMove
<1>6. goal' \in [Sockets -> (Rooms \cup {NoRoom}) \X (Peers \cup {NoPeer})]
  BY <1>5 DEF IInv, TypeOK
<1>7. \A t \in Sockets : t # s => goal'[t] = goal[t]
  BY <1>5 DEF IInv, TypeOK
<1>8. QED
  BY <1>1, <1>2, <1>3, <1>4, <1>5, <1>6, <1>7, EnterKeeps

\* The other ends of a wait for a PEER_LEFT broadcast.
LEMMA FinishLeaveKeeps ==
    ASSUME IInv, NEW s \in Sockets, FinishLeave(s) \/ FinishCleanup(s)
    PROVE  IInv'
<1>1. pc[s] \in GoneSteps /\ roomId[s] \in Rooms
  BY DEF FinishLeave, FinishCleanup, GoneSteps, IInv, Proper
<1>2. /\ registered' = Collected(member, roomId[s])
      /\ orphaned' = Orphans(registered')
      /\ UNCHANGED <<open, peerId, goal, member, sends, view>>
      /\ \/ roomId' = [roomId EXCEPT ![s] = NoRoom] /\ pc' = [pc EXCEPT ![s] = "idle"]
         \/ roomId' = roomId /\ pc' = [pc EXCEPT ![s] = "done"]
  BY DEF FinishLeave, FinishCleanup
<1>3. registered' \in SUBSET Rooms
  BY <1>2, CollectedType DEF IInv
<1>4. TypeOK'
  BY <1>2, <1>3 DEF IInv, TypeOK, Steps, Orphans
<1>5. Proper'
  BY <1>2, NullAssumption DEF IInv, TypeOK, Proper
<1>6. Leftover(s, member', registered')
  BY <1>1, <1>2, LeftoverOfGone DEF IInv, Registry
<1>7. Registry'
  BY <1>2, <1>6, ShrinkKeepsRegistry DEF IInv, TypeOK, Registry
<1>8. QED
  BY <1>4, <1>5, <1>7 DEF IInv, Registry

\* The actions that leave the registry alone.
LEMMA QuietKeeps ==
    ASSUME IInv, NEW s,
           \/ /\ s \in Sockets
              /\ \/ Connect(s)
                 \/ Drop(s)
                 \/ Announce(s)
                 \/ FinishJoin(s)
                 \/ Cleanup(s) /\ roomId[s] = NoRoom
           \/ RunSends
           \/ UNCHANGED vars
    PROVE  IInv'
<1> USE DEF IInv
<1>1. UNCHANGED <<roomId, peerId, goal, registered, member, orphaned>>
  BY DEF Connect, Drop, Announce, FinishJoin, Cleanup, LeaveRoom, RunSends, vars
<1>2. /\ pc' \in [Sockets -> Steps]
      /\ \A t \in Sockets : pc'[t] \in GoneSteps =>
            pc[t] \in GoneSteps \/ roomId[t] = NoRoom
      /\ \A t \in Sockets : pc'[t] \in {"moving", "joined"} => pc'[t] = pc[t]
      /\ \A t \in Sockets : pc'[t] \in {"announcing", "leaving", "cleaning"}
            => pc[t] = pc'[t] \/ pc[t] = "joined"
  BY DEF TypeOK, Steps, GoneSteps, Connect, Drop, Announce, FinishJoin, Cleanup,
         LeaveRoom, RunSends, vars
<1>3. open' \in SUBSET Sockets
  BY DEF TypeOK, Connect, Drop, Announce, FinishJoin, Cleanup, LeaveRoom,
         RunSends, vars
<1>4. view' \in [Sockets -> SUBSET Peers]
  <2>1. CASE RunSends
    <3>1. Head(sends) \in Batch
      BY <2>1 DEF TypeOK, RunSends
    <3>2. \A t \in Sockets : Heard(view[t], Head(sends)) \in SUBSET Peers
      BY <3>1 DEF TypeOK, Heard, Batch
    <3>3. QED
      BY <2>1, <3>2 DEF TypeOK, RunSends
  <2>2. CASE Drop(s)
    BY <2>2 DEF TypeOK, Drop
  <2>3. CASE ~RunSends /\ ~Drop(s)
    BY <2>3 DEF TypeOK, Connect, Announce, FinishJoin, Cleanup, LeaveRoom, vars
  <2>4. QED
    BY <2>1, <2>2, <2>3
<1>5. sends' \in Seq(Batch)
  <2>1. CASE RunSends
    BY <2>1 DEF TypeOK, RunSends
  <2>2. CASE s \in Sockets /\ Announce(s)
    <3>1. roomId[s] \in Rooms /\ peerId[s] \in Peers
      BY <2>2 DEF Announce, Proper
    <3>2. member \in Contents
      BY DEF TypeOK, Contents
    <3>3. Broadcast(s, member, roomId[s], "PEER_JOINED") \in Seq(Batch)
      BY <2>2, <3>1, <3>2, BroadcastType
    <3>4. QED
      BY <2>2, <3>3 DEF Announce, TypeOK
  <2>3. CASE ~RunSends /\ ~(s \in Sockets /\ Announce(s))
    BY <2>3 DEF TypeOK, Connect, Drop, FinishJoin, Cleanup, LeaveRoom, vars
  <2>4. QED
    BY <2>1, <2>2, <2>3
<1>6. TypeOK'
  BY <1>1, <1>2, <1>3, <1>4, <1>5 DEF TypeOK
<1>7. Proper'
  BY <1>1, <1>2 DEF Proper
<1>8. Registry'
  BY <1>1, <1>2, QuietKeepsRegistry DEF Registry
<1>9. QED
  BY <1>6, <1>7, <1>8 DEF Registry

\* Every step keeps the invariant.
LEMMA NextIInv == IInv /\ [Next]_vars => IInv'
<1> SUFFICES ASSUME IInv, [Next]_vars PROVE IInv'
  OBVIOUS
<1>1. CASE UNCHANGED vars \/ RunSends
  BY <1>1, QuietKeeps
<1>2. ASSUME NEW s \in Sockets,
             \/ Connect(s)
             \/ Drop(s)
             \/ \E r \in Rooms, p \in Peers : RecvJoin(s, r, p)
             \/ RecvLeave(s)
             \/ Cleanup(s)
             \/ Handler(s)
      PROVE  IInv'
  <2>1. CASE Connect(s) \/ Drop(s) \/ Announce(s) \/ FinishJoin(s)
    BY <2>1, QuietKeeps
  <2>2. CASE \E r \in Rooms, p \in Peers : RecvJoin(s, r, p)
    BY <2>2, RecvJoinKeeps
  <2>3. CASE RecvLeave(s)
    BY <2>3, LeaveRoomKeeps DEF RecvLeave
  <2>4. CASE Cleanup(s)
    <3>1. CASE LeaveRoom(s, "cleaning", "done")
      BY <3>1, LeaveRoomKeeps
    <3>2. CASE roomId[s] = NoRoom
      BY <2>4, <3>2, QuietKeeps
    <3>3. QED
      BY <2>4, <3>1, <3>2 DEF Cleanup
  <2>5. CASE FinishMove(s)
    BY <2>5, FinishMoveKeeps
  <2>6. CASE FinishLeave(s) \/ FinishCleanup(s)
    BY <2>6, FinishLeaveKeeps
  <2>7. QED
    BY <1>2, <2>1, <2>2, <2>3, <2>4, <2>5, <2>6 DEF Handler
<1>3. QED
  BY <1>1, <1>2 DEF Next

\* The registry is in order whenever the event loop runs another task: entries
\* and Peer objects agree, who is leaving has no entry, no room is empty
\* (RoomRegistry, handle_ws).
THEOREM Invariance == Spec => []IInv
BY InitIInv, NextIInv, PTL DEF Spec

-----------------------------------------------------------------------------
(* What follows from it. *)

\* The state of the registry and its handlers is well formed.
THEOREM TypeCorrect == Spec => []TypeOK
<1>1. IInv => TypeOK
  BY DEF IInv
<1>2. QED
  BY <1>1, Invariance, PTL

\* leave() collects every room that it empties (RoomRegistry.leave), however
\* many peers leave at once.
THEOREM RoomsNeverEmpty == Spec => []NoEmptyRoom
<1>1. IInv => NoEmptyRoom
  BY DEF IInv
<1>2. QED
  BY <1>1, Invariance, PTL

\* When the handler of a connection has ended no room refers to it (handle_ws's
\* finally), whatever peer_ids it and the other sockets used.
THEOREM DeadAreForgotten == Spec => []NoDeadMember
<1>1. IInv => NoDeadMember
  <2>1. SUFFICES ASSUME IInv, NEW s \in Sockets, pc[s] = "done",
                        NEW r \in registered, NEW p \in Peers,
                        member[r][p] = s
                 PROVE  FALSE
    BY DEF NoDeadMember
  <2>2. roomId[s] = r /\ peerId[s] = p
    BY <2>1, NullAssumption DEF IInv, EntryIsSelf
  <2>3. QED
    BY <2>1, <2>2 DEF IInv, Gone, IsMember
<1>2. QED
  BY <1>1, Invariance, PTL

\* When every handler has ended the registry is empty.
THEOREM RegistryDrains == Spec => []NothingLeftBehind
<1>1. IInv => NothingLeftBehind
  <2> SUFFICES ASSUME IInv, \A s \in Sockets : pc[s] \in {"off", "done"}
               PROVE  registered = {}
    BY DEF NothingLeftBehind
  <2>1. SUFFICES ASSUME NEW r \in registered PROVE FALSE
    OBVIOUS
  <2>2. PICK p \in Peers : member[r][p] # NoSocket
    BY DEF IInv, NoEmptyRoom, Filed
  <2>3. member[r][p] \in Sockets
    BY <2>1, <2>2 DEF IInv, TypeOK
  <2>4. IsMember(member[r][p])
    BY <2>1, <2>2 DEF IInv, EntryIsSelf, IsMember
  <2>5. QED
    BY <2>1, <2>3, <2>4 DEF IInv, Gone
<1>2. QED
  BY <1>1, Invariance, PTL

-----------------------------------------------------------------------------
(* The registry implements Occupancy. *)

\* Who occupies a room, by its entries.
LEMMA Pairs ==
    \A t, q : <<t, q>> \in Occupied <=>
       t \in Sockets /\ q \in registered /\ \E x \in Peers : member[q][x] = t
BY DEF Occupied

\* The same, of the state after a step.
LEMMA PairsAfter ==
    \A t, q : <<t, q>> \in Occupied' <=>
       t \in Sockets /\ q \in registered' /\ \E x \in Peers : member'[q][x] = t
BY DEF Occupied

\* A set of pairs is known by its pairs.
LEMMA SamePairs ==
    ASSUME NEW A, NEW S, NEW R, NEW Q, A \subseteq S \X R, NEW B, B \subseteq S \X Q,
           \A t, q : <<t, q>> \in A <=> <<t, q>> \in B
    PROVE  A = B
OBVIOUS

\* One entry goes, whoever it is of; so may its room.
LEMMA ExitStep ==
    ASSUME IInv, NEW q \in registered, NEW x \in Peers, member[q][x] # NoSocket,
           registered' \subseteq registered,
           \A r \in registered', y \in Peers :
              member'[r][y] = IF r = q /\ y = x THEN NoSocket ELSE member[r][y],
           \A r \in registered, y \in Peers :
              r \notin registered' /\ ~(r = q /\ y = x) => member[r][y] = NoSocket
    PROVE  Occ!Next
<1> DEFINE u == member[q][x]
           Rest == {z \in Occupied : z[1] # u}
<1>1. q \in Rooms /\ u \in Sockets /\ roomId[u] = q /\ peerId[u] = x
  BY DEF IInv, TypeOK, EntryIsSelf
<1>2. <<u, q>> \in Occupied
  BY <1>1, Pairs
<1> HIDE DEF u
<1>3. ASSUME NEW t, NEW r, <<t, r>> \in Occupied'
      PROVE  <<t, r>> \in Occupied /\ t # u
  <2>1. PICK y \in Peers : t \in Sockets /\ r \in registered' /\ member'[r][y] = t
    BY <1>3, PairsAfter
  <2>2. r \in registered /\ ~(r = q /\ y = x) /\ member[r][y] = t
    BY <2>1, NullAssumption
  <2>3. roomId[t] = r /\ peerId[t] = y
    BY <2>1, <2>2, NullAssumption DEF IInv, EntryIsSelf
  <2>4. QED
    BY <1>1, <2>1, <2>2, <2>3, Pairs
<1>4. ASSUME NEW t, NEW r, <<t, r>> \in Occupied, t # u
      PROVE  <<t, r>> \in Occupied'
  <2>1. PICK y \in Peers : t \in Sockets /\ r \in registered /\ member[r][y] = t
    BY <1>4, Pairs
  <2>2. ~(r = q /\ y = x)
    BY <1>4, <2>1 DEF u
  <2>3. r \in registered'
    BY <2>1, <2>2, NullAssumption
  <2>4. QED
    BY <2>1, <2>2, <2>3, PairsAfter
<1>5. Occupied' = Rest
  <2>1. Occupied' \subseteq Sockets \X registered' /\ Rest \subseteq Sockets \X registered
    BY DEF Occupied
  <2>2. \A t, r : <<t, r>> \in Rest <=> <<t, r>> \in Occupied /\ t # u
    OBVIOUS
  <2> HIDE DEF Rest
  <2>3. \A t, r : <<t, r>> \in Occupied' <=> <<t, r>> \in Rest
    BY <1>3, <1>4, <2>2
  <2>4. QED
    BY <2>1, <2>3, SamePairs
<1>6. Occ!Exit(u)
  BY <1>1, <1>2, <1>5 DEF Occ!Exit
<1>7. QED
  BY <1>1, <1>6 DEF Occ!Next

\* Entry x of room q is not there for the contents m and the rooms reg, or is the
\* one under which somebody enters room r.
Lost(q, x, m, reg, r, p) ==
    /\ member[q][x] # NoSocket
    /\ q \notin reg \/ m[q][x] = NoSocket \/ (q = r /\ x = p)

\* A join ousts at most one other of a room.
LEMMA EnterStep ==
    ASSUME IInv, NEW s \in Sockets, NEW r \in Rooms, NEW p \in Peers,
           NEW m \in Contents, NEW reg \in SUBSET registered,
           Leftover(s, m, reg), Enter(s, r, p, m, reg),
           \A q \in registered, x, y \in Peers :
              Lost(q, x, m, reg, r, p) /\ Lost(q, y, m, reg, r, p) => x = y
    PROVE  Occ!Next
<1> DEFINE L(q, x) == Lost(q, x, m, reg, r, p)
           ousted == {u \in Sockets \ {s} :
                         \E q \in registered, x \in Peers : member[q][x] = u /\ L(q, x)}
           Rest == {z \in Occupied : z[1] # s /\ z[1] \notin ousted}
<1>1. registered' = reg \cup {r} /\ reg \subseteq Rooms /\ member'[r][p] = s
  BY DEF Enter, IInv, TypeOK, Contents
<1>2. \A q \in reg, x \in Peers : ~(q = r /\ x = p) => member'[q][x] = m[q][x]
  BY <1>1 DEF Enter, Contents
<1>3. r \notin reg => \A x \in Peers : x # p => member'[r][x] = NoSocket
  BY <1>1 DEF Enter, Contents
<1>4. \A q \in registered, x \in Peers :
         member[q][x] # NoSocket => /\ roomId[member[q][x]] = q
                                    /\ peerId[member[q][x]] = x
  BY DEF IInv, EntryIsSelf
<1>5. ASSUME NEW t, NEW q, <<t, q>> \in Occupied'
      PROVE  (t = s /\ q = r) \/ (<<t, q>> \in Occupied /\ t # s /\ t \notin ousted)
  <2>1. PICK y \in Peers : t \in Sockets /\ q \in registered' /\ member'[q][y] = t
    BY <1>5, PairsAfter
  <2>2. CASE q = r /\ y = p
    BY <1>1, <2>1, <2>2
  <2>3. CASE ~(q = r /\ y = p)
    <3>1. q \in reg /\ m[q][y] = t /\ t # NoSocket
      BY <1>1, <1>2, <1>3, <2>1, <2>3, NullAssumption
    <3>2. member[q][y] = t /\ t # s /\ q \in registered
      BY <3>1 DEF Leftover
    <3>3. ~L(q, y)
      BY <2>3, <3>1 DEF Lost
    <3>4. t \notin ousted
      <4>1. SUFFICES ASSUME NEW b \in registered, NEW x \in Peers,
                            member[b][x] = t, L(b, x)
                     PROVE  FALSE
        OBVIOUS
      <4>2. b = q /\ x = y
        BY <1>4, <3>1, <3>2, <4>1
      <4>3. QED
        BY <3>3, <4>1, <4>2
    <3>5. QED
      BY <2>1, <3>2, <3>4, Pairs
  <2>4. QED
    BY <2>2, <2>3
<1>6. ASSUME NEW t, NEW q, <<t, q>> \in Occupied, t # s, t \notin ousted
      PROVE  <<t, q>> \in Occupied'
  <2>1. PICK y \in Peers : t \in Sockets /\ q \in registered /\ member[q][y] = t
    BY <1>6, Pairs
  <2>2. ~L(q, y) /\ t # NoSocket
    BY <1>6, <2>1, NullAssumption
  <2>3. q \in reg /\ m[q][y] # NoSocket /\ ~(q = r /\ y = p)
    BY <2>1, <2>2 DEF Lost
  <2>4. member'[q][y] = t
    BY <1>2, <2>1, <2>3 DEF Leftover
  <2>5. QED
    BY <1>1, <2>1, <2>3, <2>4, PairsAfter
<1>7. <<s, r>> \in Occupied'
  BY <1>1, PairsAfter
<1> HIDE DEF L
<1>8. Occupied' = Rest \cup {<<s, r>>}
  <2>1. /\ Occupied' \subseteq Sockets \X registered'
        /\ Rest \cup {<<s, r>>} \subseteq Sockets \X (registered \cup {r})
    BY DEF Occupied
  <2>2. \A t, q : <<t, q>> \in Rest \cup {<<s, r>>} <=>
                  \/ <<t, q>> \in Occupied /\ t # s /\ t \notin ousted
                  \/ t = s /\ q = r
    OBVIOUS
  <2> DEFINE B == Rest \cup {<<s, r>>}
  <2> HIDE DEF Rest, ousted, B
  <2>3. \A t, q : <<t, q>> \in Occupied' <=> <<t, q>> \in B
    BY <1>5, <1>6, <1>7, <2>2 DEF B
  <2>4. Occupied' = B
    BY <2>1, <2>3, SamePairs DEF B
  <2>5. QED
    BY <2>4 DEF B
<1>9. ASSUME NEW z \in Occupied, NEW w \in Occupied,
             z[1] \in ousted, w[1] \in ousted, z[2] = w[2]
      PROVE  z = w
  <2>1. PICK q \in registered, x \in Peers : member[q][x] = z[1] /\ L(q, x)
    BY <1>9
  <2>2. PICK b \in registered, y \in Peers : member[b][y] = w[1] /\ L(b, y)
    BY <1>9
  <2>3. /\ z[1] \in Sockets /\ w[1] \in Sockets /\ z[2] \in registered
        /\ z = <<z[1], z[2]>> /\ w = <<w[1], w[2]>>
        /\ \E v \in Peers : member[z[2]][v] = z[1]
        /\ \E v \in Peers : member[w[2]][v] = w[1]
    BY DEF Occupied
  <2>4. q = z[2] /\ b = z[2]
    BY <1>4, <1>9, <2>1, <2>2, <2>3, NullAssumption
  <2>5. x = y
    BY <2>1, <2>2, <2>4 DEF L
  <2>6. QED
    BY <1>9, <2>1, <2>2, <2>3, <2>4, <2>5
<1>10. ousted \in SUBSET (Sockets \ {s})
  OBVIOUS
<1> HIDE DEF ousted
<1>11. Occ!Enter(s, r, ousted)
  BY <1>8, <1>9 DEF Occ!Enter
<1>12. QED
  BY <1>10, <1>11 DEF Occ!Next

\* What leaves the entries and, but for empty rooms, the registry alone.
LEMMA SameOccupied ==
    ASSUME IInv, UNCHANGED member, registered' \subseteq registered,
           \A q \in registered : Filed(member, q) # {} => q \in registered'
    PROVE  UNCHANGED Occupied
<1>1. registered' = registered
  BY DEF IInv, NoEmptyRoom
<1>2. QED
  BY <1>1 DEF Occupied

\* The entry that leave() removes, and the room that goes with it.
LEMMA RemovalExits ==
    ASSUME IInv, NEW s \in Sockets, Present(s), member' = Removed(s),
           registered' \in {registered, Collected(Removed(s), roomId[s])}
    PROVE  Occ!Next
<1>1. roomId[s] \in registered /\ roomId[s] \in Rooms /\ peerId[s] \in Peers
  BY DEF Present, IInv, TypeOK, Proper
<1>2. \A r \in registered, y \in Peers :
         member'[r][y] = IF r = roomId[s] /\ y = peerId[s] THEN NoSocket
                                                          ELSE member[r][y]
  BY RemovedEntries DEF IInv, TypeOK
<1>3. registered' \subseteq registered
      /\ \A r \in registered : r \notin registered' =>
            r = roomId[s] /\ \A y \in Peers : member'[r][y] = NoSocket
  BY DEF Collected, Filed
<1>4. QED
  BY <1>1, <1>2, <1>3, ExitStep DEF Present

\* A leave is an exit, or changes no pair.
LEMMA LeaveRoomOccupies ==
    ASSUME IInv, NEW s \in Sockets, NEW step, NEW next, LeaveRoom(s, step, next)
    PROVE  Occ!Next \/ UNCHANGED Occupied
<1>1. /\ member' = Removed(s)
      /\ \/ LeaveSuspends(s) /\ registered' = registered
         \/ registered' = Collected(Removed(s), roomId[s])
  BY DEF LeaveRoom
<1>2. CASE Present(s)
  BY <1>1, <1>2, RemovalExits
<1>3. CASE ~Present(s)
  BY <1>1, <1>3, SameOccupied DEF LeaveSuspends, Removed, Collected
<1>4. QED
  BY <1>2, <1>3

\* A JOIN that need not wait ousts the one it leaves for, if that is another, or
\* the one that is filed under its new peer_id, and in one room not both.
LEMMA RecvJoinOccupies ==
    ASSUME IInv, NEW s \in Sockets, NEW r \in Rooms, NEW p \in Peers,
           RecvJoin(s, r, p)
    PROVE  Occ!Next
<1>1. CASE LeaveSuspends(s)
  BY <1>1, RemovalExits DEF RecvJoin, LeaveSuspends
<1>2. CASE ~LeaveSuspends(s)
  <2> DEFINE m == Removed(s)
             reg == Collected(Removed(s), roomId[s])
  <2>1. /\ Enter(s, r, p, m, reg) /\ m \in Contents
        /\ reg \in SUBSET registered /\ Leftover(s, m, reg)
    BY <1>2, RemovedType, CollectedType, LeftoverAfterRemoval
       DEF RecvJoin, IInv, Registry
  <2>2. ASSUME NEW q \in registered, NEW x \in Peers, Lost(q, x, m, reg, r, p)
        PROVE  \/ Present(s) /\ q = roomId[s] /\ x = peerId[s]
               \/ q = r /\ x = p
    <3>1. q \in Rooms
      BY DEF IInv, TypeOK
    <3>2. m[q][x] = IF Present(s) /\ q = roomId[s] /\ x = peerId[s]
                    THEN NoSocket ELSE member[q][x]
      BY <3>1, RemovedEntries DEF IInv
    <3>3. q \notin reg => m[q][x] = NoSocket
      BY DEF Collected, Filed
    <3>4. QED
      BY <2>2, <3>2, <3>3 DEF Lost
  <2>3. ASSUME NEW x \in Peers, Lost(roomId[s], x, m, reg, r, p), Present(s)
        PROVE  x = peerId[s]
    <3>1. Targets(member, roomId[s], peerId[s]) = {}
      BY <1>2, <2>3 DEF LeaveSuspends
    <3>2. QED
      BY <2>3, <3>1 DEF Targets, Filed, Lost
  <2> HIDE DEF m, reg
  <2>4. \A q \in registered, x, y \in Peers :
           Lost(q, x, m, reg, r, p) /\ Lost(q, y, m, reg, r, p) => x = y
    BY <2>2, <2>3
  <2>5. QED
    BY <2>1, <2>4, EnterStep
<1>3. QED
  BY <1>1, <1>2

\* So is the second half of a move.
LEMMA FinishMoveOccupies ==
    ASSUME IInv, NEW s \in Sockets, FinishMove(s)
    PROVE  Occ!Next
<1> DEFINE r == goal[s][1]
           p == goal[s][2]
           reg == Collected(member, roomId[s])
<1>1. /\ r \in Rooms /\ p \in Peers /\ member \in Contents
      /\ reg \in SUBSET registered /\ Leftover(s, member, reg)
      /\ Enter(s, r, p, member, reg)
  BY CollectedType, LeftoverOfGone
     DEF FinishMove, IInv, TypeOK, Proper, Contents, Registry, GoneSteps
<1>2. \A q \in registered, x \in Peers : Lost(q, x, member, reg, r, p) => x = p
  BY DEF Lost, Collected, Filed
<1> HIDE DEF r, p, reg
<1>3. QED
  BY <1>1, <1>2, EnterStep

\* A step of the handlers is one of Occupancy, or none.
LEMMA NextOccupies == IInv /\ [Next]_vars => [Occ!Next]_Occupied
<1> SUFFICES ASSUME IInv, [Next]_vars PROVE Occ!Next \/ UNCHANGED Occupied
  OBVIOUS
<1>1. CASE UNCHANGED vars \/ RunSends
  BY <1>1 DEF vars, RunSends, Occupied
<1>2. ASSUME NEW s \in Sockets,
             \/ Connect(s)
             \/ Drop(s)
             \/ \E r \in Rooms, p \in Peers : RecvJoin(s, r, p)
             \/ RecvLeave(s)
             \/ Cleanup(s)
             \/ Handler(s)
      PROVE  Occ!Next \/ UNCHANGED Occupied
  <2>1. CASE Connect(s) \/ Drop(s) \/ Announce(s) \/ FinishJoin(s)
    BY <2>1 DEF Connect, Drop, Announce, FinishJoin, Occupied
  <2>2. CASE \E r \in Rooms, p \in Peers : RecvJoin(s, r, p)
    BY <2>2, RecvJoinOccupies
  <2>3. CASE RecvLeave(s)
    BY <2>3, LeaveRoomOccupies DEF RecvLeave
  <2>4. CASE Cleanup(s)
    <3>1. CASE LeaveRoom(s, "cleaning", "done")
      BY <3>1, LeaveRoomOccupies
    <3>2. CASE UNCHANGED <<registered, member>>
      BY <3>2 DEF Occupied
    <3>3. QED
      BY <2>4, <3>1, <3>2 DEF Cleanup
  <2>5. CASE FinishMove(s)
    BY <2>5, FinishMoveOccupies
  <2>6. CASE FinishLeave(s) \/ FinishCleanup(s)
    <3>1. UNCHANGED member /\ registered' = Collected(member, roomId[s])
      BY <2>6 DEF FinishLeave, FinishCleanup
    <3>2. QED
      BY <3>1, SameOccupied DEF Collected
  <2>7. QED
    BY <1>2, <2>1, <2>2, <2>3, <2>4, <2>5, <2>6 DEF Handler
<1>3. QED
  BY <1>1, <1>2 DEF Next

\* The registry does what Occupancy promises, whatever peer_ids the sockets use:
\* a connection is in one room at a time, and a JOIN ousts at most one other of a
\* room (RoomRegistry.join, Room.add_peer).
THEOREM RegistryIsOccupancy == Spec => KeepsOccupancy
<1>1. Init => Occ!Init
  BY DEF Init, Occ!Init, Occupied
<1>2. QED
  BY <1>1, Invariance, NextOccupies, PTL DEF Spec, KeepsOccupancy, Occ!Spec

-----------------------------------------------------------------------------
(* Clients that do not share peer_ids know who is in their room. *)

\* No peer_id is used by two sockets.
PrivateIds == \A s, t \in Sockets : s # t => Ids[s] \cap Ids[t] = {}

\* A handler acts under a peer_id of its own, and one that is not leaving is a
\* member of its room; so no room is collected under a join.
Settled ==
    /\ orphaned = {}
    /\ \A s \in Sockets :
          /\ roomId[s] \in Rooms => peerId[s] \in Ids[s]
          /\ pc[s] = "moving" => goal[s][2] \in Ids[s]
          /\ pc[s] \in {"idle", "joined", "announcing"} /\ roomId[s] \in Rooms
                => IsMember(s)
          /\ pc[s] = "off" => roomId[s] = NoRoom

\* A handler waits for one broadcast at a time, under its present peer_id; the
\* PEER_JOINED of a member is for members of its room, or for sockets that have
\* left since and wait for a broadcast that comes later.
Queued ==
    \A i \in 1 .. Len(sends) :
       LET b == sends[i]
       IN  /\ \/ b.kind = "PEER_JOINED" /\ pc[b.by] = "announcing"
              \/ b.kind = "PEER_LEFT" /\ pc[b.by] \in {"moving", "leaving", "cleaning"}
           /\ b.peer = peerId[b.by]
           /\ \A j \in 1 .. Len(sends) : sends[j].by = b.by => j = i
           /\ b.kind = "PEER_JOINED" =>
                 \A s \in b.to :
                    \/ IsMember(s) /\ roomId[s] = roomId[b.by]
                    \/ \E j \in 1 .. Len(sends) : i < j /\ sends[j].by = s

\* What s knows of p, with what it is about to hear.
Knows(s, p) ==
    LET inRoom == member[roomId[s]][p] # NoSocket
    IN  /\ \A i \in About(s, p) : inRoom <=> sends[i].kind = "PEER_JOINED"
        /\ About(s, p) = {} => \/ inRoom <=> p \in view[s]
                               \/ inRoom /\ pc[member[roomId[s]][p]] = "joined"

Informed ==
    \A s \in open : IsMember(s) => \A p \in Peers \ {peerId[s]} : Knows(s, p)

VInv == IInv /\ Settled /\ Queued /\ Informed

\* Two sockets have no peer_id in common.
LEMMA Apart ==
    ASSUME PrivateIds, NEW s \in Sockets, NEW t \in Sockets, NEW p, p \in Ids[s], p \in Ids[t]
    PROVE  s = t
BY DEF PrivateIds

\* An entry under a peer_id of t is t's, and t is a member.
LEMMA EntryIsOwners ==
    ASSUME PrivateIds, IInv, Settled, NEW q \in registered, NEW p \in Peers,
           member[q][p] # NoSocket
    PROVE  /\ member[q][p] \in Sockets /\ p \in Ids[member[q][p]]
           /\ q = roomId[member[q][p]] /\ p = peerId[member[q][p]]
           /\ IsMember(member[q][p])
           /\ \A t \in Sockets : p \in Ids[t] => t = member[q][p]
<1>1. q \in Rooms /\ member[q][p] \in Sockets
  BY DEF IInv, TypeOK
<1>2. q = roomId[member[q][p]] /\ p = peerId[member[q][p]]
  BY DEF IInv, EntryIsSelf
<1>3. p \in Ids[member[q][p]]
  BY <1>1, <1>2 DEF Settled
<1>4. QED
  BY <1>1, <1>2, <1>3, Apart DEF IsMember

\* A step of t changes, where others are, the entries of t only.
OnlyMine(t) ==
    \A s \in Sockets \ {t} :
       /\ roomId'[s] = roomId[s] /\ peerId'[s] = peerId[s]
       /\ pc'[s] = pc[s] /\ goal'[s] = goal[s]
       /\ IsMember(s)' <=> IsMember(s)
       /\ IsMember(s) =>
             \A p \in Peers \ Ids[t] : member'[roomId[s]][p] = member[roomId[s]][p]

\* Contents m and rooms reg are the registry's but for entries of t and for rooms
\* that are empty without them.
WithoutMine(t, m, reg) ==
    /\ m \in Contents /\ reg \subseteq registered
    /\ \A q \in registered, p \in Peers :
          m[q][p] # member[q][p] => p \in Ids[t] /\ m[q][p] = NoSocket
    /\ \A q \in registered \ reg, p \in Peers : m[q][p] = NoSocket

\* leave() takes away entries of its own socket and rooms that are empty then.
LEMMA RemovedWithoutMine ==
    ASSUME PrivateIds, IInv, Settled, NEW t \in Sockets
    PROVE  /\ WithoutMine(t, Removed(t), Collected(Removed(t), roomId[t]))
           /\ WithoutMine(t, Removed(t), registered)
           /\ WithoutMine(t, member, Collected(member, roomId[t]))
           /\ WithoutMine(t, member, registered)
<1>1. member \in Contents /\ Removed(t) \in Contents /\ registered \subseteq Rooms
  BY RemovedType DEF IInv, TypeOK, Contents
<1>2. \A q \in registered, p \in Peers :
         Removed(t)[q][p] # member[q][p] => p \in Ids[t] /\ Removed(t)[q][p] = NoSocket
  BY <1>1, RemovedEntries DEF IInv, Settled, Present
<1>3. QED
  BY <1>1, <1>2 DEF WithoutMine, Collected, Filed

\* A member that is not t is one in m and reg too, and the other way round.
LEMMA OthersRemain ==
    ASSUME PrivateIds, IInv, Settled, NEW t \in Sockets, NEW m, NEW reg,
           WithoutMine(t, m, reg), NEW s \in Sockets \ {t}
    PROVE  IsMember(s) <=> roomId[s] \in reg /\ m[roomId[s]][peerId[s]] = s
<1>1. ASSUME IsMember(s)
      PROVE  roomId[s] \in reg /\ m[roomId[s]][peerId[s]] = s
  <2>1. roomId[s] \in registered /\ roomId[s] \in Rooms /\ peerId[s] \in Peers
        /\ peerId[s] \in Ids[s] /\ s # NoSocket
    BY <1>1, NullAssumption DEF IsMember, IInv, TypeOK, Proper, Settled
  <2>2. peerId[s] \notin Ids[t]
    BY <2>1, Apart
  <2>3. QED
    BY <1>1, <2>1, <2>2 DEF WithoutMine, IsMember
<1>2. ASSUME roomId[s] \in reg, m[roomId[s]][peerId[s]] = s
      PROVE  IsMember(s)
  <2>1. roomId[s] \in registered /\ roomId[s] \in Rooms /\ peerId[s] \in Peers
    BY <1>2 DEF WithoutMine, IInv, TypeOK, Proper
  <2>2. QED
    BY <1>2, <2>1, NullAssumption DEF WithoutMine, IsMember
<1>3. QED
  BY <1>1, <1>2

\* Filing t touches nothing of the other members.
LEMMA EnterOnlyMine ==
    ASSUME PrivateIds, IInv, Settled, NEW t \in Sockets, NEW r \in Rooms, NEW p \in Ids[t],
           NEW m, NEW reg, WithoutMine(t, m, reg), Enter(t, r, p, m, reg), p \in Peers,
           \A s \in Sockets \ {t} : goal'[s] = goal[s]
    PROVE  OnlyMine(t)
<1>1. /\ registered' = reg \cup {r}
      /\ roomId' = [roomId EXCEPT ![t] = r]
      /\ peerId' = [peerId EXCEPT ![t] = p]
      /\ pc' = [pc EXCEPT ![t] = "joined"]
      /\ reg \subseteq registered /\ reg \subseteq Rooms /\ m \in Contents
  BY DEF Enter, WithoutMine, IInv, TypeOK
<1>2. \A q \in reg, x \in Peers : ~(q = r /\ x = p) => member'[q][x] = m[q][x]
  BY <1>1 DEF Enter, Contents
<1>3. /\ member'[r][p] = t
      /\ r \notin reg => \A x \in Peers : x # p => member'[r][x] = NoSocket
  BY <1>1 DEF Enter, Contents
<1>4. ASSUME NEW s \in Sockets \ {t}
      PROVE  /\ roomId'[s] = roomId[s] /\ peerId'[s] = peerId[s] /\ pc'[s] = pc[s]
             /\ IsMember(s)' <=> IsMember(s)
             /\ IsMember(s) => \A x \in Peers \ Ids[t] :
                                  member'[roomId[s]][x] = member[roomId[s]][x]
  <2>1. roomId'[s] = roomId[s] /\ peerId'[s] = peerId[s] /\ pc'[s] = pc[s]
    BY <1>1 DEF IInv, TypeOK
  <2>2. roomId[s] \in Rooms => peerId[s] \in Peers /\ peerId[s] \in Ids[s]
    BY DEF IInv, Proper, Settled
  <2>3. roomId[s] \in Rooms => peerId[s] # p
    BY <2>2, Apart
  <2>4. IsMember(s) <=> roomId[s] \in reg /\ m[roomId[s]][peerId[s]] = s
    BY OthersRemain
  <2>5. IsMember(s)' <=> roomId[s] \in reg \cup {r} /\ member'[roomId[s]][peerId[s]] = s
    BY <1>1, <2>1 DEF IsMember
  <2>6. IsMember(s)' <=> IsMember(s)
    BY <1>1, <1>2, <1>3, <2>2, <2>3, <2>4, <2>5, NullAssumption
  <2>7. ASSUME IsMember(s), NEW x \in Peers \ Ids[t]
        PROVE  member'[roomId[s]][x] = member[roomId[s]][x]
    BY <1>1, <1>2, <2>4, <2>7 DEF WithoutMine
  <2>8. QED
    BY <2>1, <2>6, <2>7
<1>5. QED
  BY <1>4 DEF OnlyMine

\* Nor does taking entries of t away.
LEMMA ShrinkOnlyMine ==
    ASSUME PrivateIds, IInv, Settled, NEW t \in Sockets,
           WithoutMine(t, member', registered'), UNCHANGED peerId,
           \A s \in Sockets \ {t} : /\ roomId'[s] = roomId[s] /\ pc'[s] = pc[s]
                                    /\ goal'[s] = goal[s]
    PROVE  OnlyMine(t)
<1>1. ASSUME NEW s \in Sockets \ {t}
      PROVE  /\ IsMember(s)' <=> IsMember(s)
             /\ IsMember(s) => \A x \in Peers \ Ids[t] :
                                  member'[roomId[s]][x] = member[roomId[s]][x]
  <2>1. IsMember(s) <=> roomId[s] \in registered' /\ member'[roomId[s]][peerId[s]] = s
    BY OthersRemain
  <2>2. IsMember(s)' <=> IsMember(s)
    BY <2>1 DEF IsMember
  <2>3. QED
    BY <2>2 DEF WithoutMine, IsMember
<1>2. QED
  BY <1>1 DEF OnlyMine

\* What is known of a queued broadcast.
LEMMA Messages ==
    ASSUME PrivateIds, VInv, NEW i \in 1 .. Len(sends)
    PROVE  /\ sends[i].by \in Sockets /\ sends[i].to \subseteq Sockets
           /\ sends[i].peer \in Ids[sends[i].by] /\ sends[i].peer \in Peers
           /\ sends[i].peer = peerId[sends[i].by] /\ roomId[sends[i].by] \in Rooms
           /\ pc[sends[i].by] \in {"announcing", "moving", "leaving", "cleaning"}
           /\ sends[i].kind = "PEER_JOINED" => IsMember(sends[i].by)
           /\ sends[i].kind # "PEER_JOINED" =>
                 sends[i].kind = "PEER_LEFT" /\ ~IsMember(sends[i].by)
<1>1. sends[i] \in Batch
  BY DEF VInv, IInv, TypeOK
<1>2. sends[i].by \in Sockets /\ sends[i].to \subseteq Sockets /\ sends[i].peer \in Peers
  BY <1>1 DEF Batch
<1>3. /\ sends[i].peer = peerId[sends[i].by]
      /\ pc[sends[i].by] \in {"announcing", "moving", "leaving", "cleaning"}
      /\ \/ sends[i].kind = "PEER_JOINED" /\ pc[sends[i].by] = "announcing"
         \/ /\ sends[i].kind = "PEER_LEFT"
            /\ pc[sends[i].by] \in {"moving", "leaving", "cleaning"}
  BY DEF VInv, Queued
<1>4. roomId[sends[i].by] \in Rooms
  BY <1>2, <1>3 DEF VInv, IInv, Proper
<1>5. sends[i].peer \in Ids[sends[i].by]
  BY <1>2, <1>3, <1>4 DEF VInv, Settled
<1>6. /\ sends[i].kind = "PEER_JOINED" => IsMember(sends[i].by)
      /\ sends[i].kind # "PEER_JOINED" =>
            sends[i].kind = "PEER_LEFT" /\ ~IsMember(sends[i].by)
  BY <1>2, <1>3, <1>4 DEF VInv, IInv, Settled, Gone
<1>7. QED
  BY <1>2, <1>3, <1>4, <1>5, <1>6

\* Nothing is under way about a handler that waits for no broadcast.
LEMMA NothingAbout ==
    ASSUME PrivateIds, VInv, NEW t \in Sockets, ~Waiting(t), NEW s, NEW p \in Ids[t]
    PROVE  About(s, p) = {}
BY Messages, Apart DEF About, Waiting

\* Only a handler that stands behind a broadcast waits for one.
LEMMA BusyWaits ==
    ASSUME PrivateIds, VInv, NEW t \in Sockets,
           pc[t] \notin {"announcing", "moving", "leaving", "cleaning"}
    PROVE  ~Waiting(t)
BY Messages DEF Waiting

\* No other member is in the room of t, if t is in one.
Alone(t) == \A s \in Sockets \ {t} : IsMember(s) /\ IsMember(t) => roomId[s] # roomId[t]

\* Who has nobody to tell is alone in its room.
LEMMA QuietLeaverIsAlone ==
    ASSUME PrivateIds, VInv, NEW t \in Sockets, ~LeaveSuspends(t)
    PROVE  Alone(t)
<1>1. SUFFICES ASSUME NEW s \in Sockets \ {t}, IsMember(s), IsMember(t), roomId[s] = roomId[t]
               PROVE  FALSE
  BY DEF Alone
<1>2. /\ roomId[t] \in registered /\ roomId[t] \in Rooms /\ peerId[s] \in Peers
      /\ member[roomId[t]][peerId[t]] = t /\ member[roomId[t]][peerId[s]] = s
      /\ t # NoSocket /\ s # NoSocket
  BY <1>1, NullAssumption DEF IsMember, VInv, IInv, TypeOK, Proper
<1>3. s \in Targets(member, roomId[t], peerId[t])
  BY <1>1, <1>2 DEF Targets, Filed
<1>4. QED
  BY <1>2, <1>3 DEF LeaveSuspends, Present

\* One who is alone, and waits for nothing, is to hear of leaves only.
LEMMA HearsLeaves ==
    ASSUME PrivateIds, VInv, NEW t \in Sockets, Alone(t), ~Waiting(t),
           NEW i \in 1 .. Len(sends), t \in sends[i].to
    PROVE  sends[i].kind = "PEER_LEFT"
<1>1. SUFFICES ASSUME sends[i].kind = "PEER_JOINED" PROVE FALSE
  BY Messages
<1>2. IsMember(t) /\ roomId[t] = roomId[sends[i].by]
  BY <1>1 DEF VInv, Queued, Waiting
<1>3. sends[i].by \in Sockets \ {t} /\ IsMember(sends[i].by)
  BY <1>1, Messages DEF Waiting
<1>4. QED
  BY <1>2, <1>3 DEF Alone

\* Others know nothing of one who is alone.
LEMMA NobodyKnows ==
    ASSUME PrivateIds, VInv, NEW t \in Sockets, Alone(t), ~Waiting(t),
           NEW s \in open \ {t}, IsMember(s), NEW p \in Peers, p \in Ids[t]
    PROVE  member[roomId[s]][p] = NoSocket /\ p \notin view[s] /\ About(s, p) = {}
<1>1. About(s, p) = {}
  BY NothingAbout
<1>2. s \in Sockets /\ roomId[s] \in registered /\ peerId[s] \in Ids[s]
  BY DEF VInv, IInv, TypeOK, IsMember, Settled
<1>3. member[roomId[s]][p] = NoSocket
  BY <1>2, EntryIsOwners DEF VInv, Alone
<1>4. p # peerId[s]
  BY <1>2, Apart
<1>5. Knows(s, p)
  BY <1>4 DEF VInv, Informed
<1>6. QED
  BY <1>1, <1>3, <1>5 DEF Knows

\* A step of t leaves what others know of others.
LEMMA OthersKnow ==
    ASSUME PrivateIds, VInv, NEW t \in Sockets, OnlyMine(t),
           NEW s \in open \ {t}, IsMember(s), view'[s] = view[s],
           NEW p \in Peers \ {peerId[s]}, p \notin Ids[t],
           \/ sends' = sends
           \/ \E b \in Batch : sends' = Append(sends, b) /\ b.peer \in Ids[t]
    PROVE  Knows(s, p)'
<1>1. /\ s \in Sockets /\ roomId'[s] = roomId[s] /\ roomId[s] \in registered
      /\ member'[roomId[s]][p] = member[roomId[s]][p]
  BY DEF VInv, IInv, TypeOK, OnlyMine, IsMember
<1>2. Knows(s, p)
  BY DEF VInv, Informed
<1>3. About(s, p)' = About(s, p) /\ \A i \in About(s, p) : sends'[i] = sends[i]
  <2>1. CASE sends' = sends
    BY <2>1 DEF About
  <2>2. ASSUME NEW b \in Batch, sends' = Append(sends, b), b.peer \in Ids[t]
        PROVE  About(s, p)' = About(s, p) /\ \A i \in About(s, p) : sends'[i] = sends[i]
    <3>1. /\ sends \in Seq(Batch) /\ Len(sends) \in Nat /\ Len(sends') = Len(sends) + 1
          /\ sends'[Len(sends) + 1] = b
          /\ \A i \in 1 .. Len(sends) : sends'[i] = sends[i]
      BY <2>2 DEF VInv, IInv, TypeOK
    <3>2. QED
      BY <2>2, <3>1 DEF About
  <2>3. QED
    BY <2>1, <2>2
<1>4. ASSUME member[roomId[s]][p] # NoSocket
      PROVE  pc'[member[roomId[s]][p]] = pc[member[roomId[s]][p]]
  BY <1>1, <1>4, EntryIsOwners DEF VInv, OnlyMine
<1>5. QED
  BY <1>1, <1>2, <1>3, <1>4 DEF Knows

\* A step of t, when nobody waits for t and t is alone, leaves the queue as it
\* should be.
LEMMA QueueStands ==
    ASSUME PrivateIds, VInv, NEW t \in Sockets, OnlyMine(t), Alone(t), ~Waiting(t),
           UNCHANGED sends
    PROVE  Queued'
<1>1. SUFFICES ASSUME NEW i \in 1 .. Len(sends)
               PROVE  /\ \/ sends[i].kind = "PEER_JOINED" /\ pc'[sends[i].by] = "announcing"
                         \/ /\ sends[i].kind = "PEER_LEFT"
                            /\ pc'[sends[i].by] \in {"moving", "leaving", "cleaning"}
                      /\ sends[i].peer = peerId'[sends[i].by]
                      /\ \A j \in 1 .. Len(sends) : sends[j].by = sends[i].by => j = i
                      /\ sends[i].kind = "PEER_JOINED" =>
                            \A s \in sends[i].to :
                               \/ IsMember(s)' /\ roomId'[s] = roomId'[sends[i].by]
                               \/ \E j \in 1 .. Len(sends) : i < j /\ sends[j].by = s
  BY DEF Queued
<1>2. sends[i].by \in Sockets \ {t} /\ sends[i].to \subseteq Sockets
  BY Messages DEF Waiting
<1>3. /\ pc'[sends[i].by] = pc[sends[i].by] /\ peerId'[sends[i].by] = peerId[sends[i].by]
      /\ roomId'[sends[i].by] = roomId[sends[i].by]
  BY <1>2 DEF OnlyMine
<1>4. sends[i].kind = "PEER_JOINED" => t \notin sends[i].to
  BY HearsLeaves
<1>5. \A s \in sends[i].to \ {t} : (IsMember(s)' <=> IsMember(s)) /\ roomId'[s] = roomId[s]
  BY <1>2 DEF OnlyMine
<1>6. QED
  BY <1>3, <1>4, <1>5 DEF VInv, Queued

\* A join, once the socket has left its former room.
LEMMA EnterKeepsView ==
    ASSUME PrivateIds, VInv, NEW t \in Sockets, NEW r \in Rooms, NEW p \in Peers,
           p \in Ids[t], NEW m, NEW reg, WithoutMine(t, m, reg), Enter(t, r, p, m, reg),
           Alone(t), ~Waiting(t), UNCHANGED <<open, sends>>, IInv',
           \A s \in Sockets \ {t} : goal'[s] = goal[s]
    PROVE  VInv'
<1>1. /\ registered' = reg \cup {r}
      /\ roomId' = [roomId EXCEPT ![t] = r]
      /\ peerId' = [peerId EXCEPT ![t] = p]
      /\ pc' = [pc EXCEPT ![t] = "joined"]
      /\ reg \subseteq registered /\ reg \subseteq Rooms /\ m \in Contents
  BY DEF Enter, WithoutMine, VInv, IInv, TypeOK
<1>2. /\ \A q \in reg, x \in Peers : ~(q = r /\ x = p) => member'[q][x] = m[q][x]
      /\ r \notin reg => \A x \in Peers \ {p} : member'[r][x] = NoSocket
      /\ member'[r][p] = t
  BY <1>1 DEF Enter, Contents
<1>3. OnlyMine(t)
  BY EnterOnlyMine DEF VInv
<1>4. \A s \in Sockets \ {t} : IsMember(s) => roomId[s] \in reg
  BY OthersRemain DEF VInv
<1>5. IsMember(t)' /\ roomId'[t] = r /\ peerId'[t] = p /\ pc'[t] = "joined"
  BY <1>1, <1>2 DEF IsMember, VInv, IInv, TypeOK
<1>6. Settled'
  <2>1. \A s \in Sockets : pc[s] = "joined" /\ s # t => roomId[s] \in reg
    BY <1>4 DEF VInv, IInv, Proper, Settled
  <2>2. orphaned' = {}
    BY <2>1 DEF Enter, Orphans, VInv, Settled
  <2>3. QED
    BY <1>3, <1>5, <2>2 DEF Settled, VInv, OnlyMine
<1>7. Queued'
  BY <1>3, QueueStands
<1>8. ASSUME NEW s \in open \ {t}, IsMember(s), NEW x \in Peers \ {peerId[s]}
      PROVE  Knows(s, x)'
  <2>1. view'[s] = view[s] /\ roomId'[s] = roomId[s] /\ roomId[s] \in reg /\ s \in Sockets
    BY <1>3, <1>4, <1>8 DEF Enter, VInv, IInv, TypeOK, OnlyMine
  <2>2. CASE x \notin Ids[t]
    BY <1>3, <1>8, <2>1, <2>2, OthersKnow
  <2>3. CASE x \in Ids[t]
    <3>1. member[roomId[s]][x] = NoSocket /\ x \notin view[s] /\ About(s, x) = {}
      BY <1>8, <2>3, NobodyKnows
    <3>2. m[roomId[s]][x] = NoSocket
      BY <1>1, <2>1, <3>1 DEF WithoutMine
    <3>3. About(s, x)' = {}
      BY <3>1 DEF About
    <3>4. CASE roomId[s] = r /\ x = p
      BY <1>2, <1>5, <2>1, <3>3, <3>4, NullAssumption DEF Knows
    <3>5. CASE ~(roomId[s] = r /\ x = p)
      BY <1>2, <2>1, <3>1, <3>2, <3>3, <3>5 DEF Knows
    <3>6. QED
      BY <3>4, <3>5
  <2>4. QED
    BY <2>2, <2>3
<1>9. ASSUME t \in open, NEW x \in Peers \ {p}
      PROVE  Knows(t, x)'
  <2>1. x \in view'[t] <=> member'[r][x] # NoSocket
    <3> DEFINE before == IF r \in reg THEN m
                         ELSE [m EXCEPT ![r] = [q \in Peers |-> NoSocket]]
    <3>1. view'[t] = Filed(before, r) \ {p}
      BY <1>9 DEF Enter, VInv, IInv, TypeOK
    <3>2. before[r][x] = member'[r][x]
      BY <1>1, <1>2 DEF Contents
    <3>3. QED
      BY <3>1, <3>2 DEF Filed
  <2>2. About(t, x)' = About(t, x)
    BY DEF About
  <2>3. ASSUME NEW i \in About(t, x)
        PROVE  sends[i].kind # "PEER_JOINED" /\ member'[r][x] = NoSocket
    <3>1. i \in 1 .. Len(sends) /\ t \in sends[i].to /\ sends[i].peer = x
      BY DEF About
    <3>2. sends[i].kind = "PEER_LEFT"
      BY <3>1, HearsLeaves
    <3>3. sends[i].by \in Sockets /\ x \in Ids[sends[i].by] /\ ~IsMember(sends[i].by)
      BY <3>1, <3>2, Messages
    <3>4. r \in registered => member[r][x] = NoSocket
      BY <3>3, EntryIsOwners DEF VInv
    <3>5. r \in reg => m[r][x] = NoSocket
      BY <1>1, <3>4 DEF WithoutMine
    <3>6. QED
      BY <1>2, <3>2, <3>5
  <2>4. QED
    BY <1>5, <2>1, <2>2, <2>3 DEF Knows
<1>10. Informed'
  BY <1>3, <1>5, <1>8, <1>9 DEF Informed, OnlyMine, VInv, IInv, TypeOK
<1>11. QED
  BY <1>6, <1>7, <1>10 DEF VInv

\* The end of a leave.
LEMMA EndKeepsView ==
    ASSUME PrivateIds, VInv, NEW t \in Sockets, WithoutMine(t, member', registered'),
           Alone(t), ~Waiting(t), UNCHANGED <<open, peerId, goal, sends, view>>, IInv',
           pc[t] # "joined",
           orphaned' = Orphans(registered'),
           \A s \in Sockets \ {t} : roomId'[s] = roomId[s] /\ pc'[s] = pc[s],
           \/ pc'[t] = "idle" /\ roomId'[t] = NoRoom
           \/ pc'[t] = "done" /\ roomId'[t] = roomId[t]
    PROVE  VInv'
<1>1. OnlyMine(t)
  BY ShrinkOnlyMine DEF VInv
<1>2. ~IsMember(t)'
  BY NullAssumption DEF IInv, Gone, IsMember, TypeOK
<1>3. Settled'
  <2>1. \A s \in Sockets : pc[s] = "joined" /\ s # t => roomId[s] \in registered'
    BY OthersRemain DEF VInv, IInv, Proper, Settled
  <2>2. orphaned' = {}
    BY <2>1 DEF Orphans, VInv, Settled
  <2>3. QED
    BY <1>1, <2>2, NullAssumption DEF Settled, VInv, OnlyMine
<1>4. Queued'
  BY <1>1, QueueStands
<1>5. ASSUME NEW s \in open \ {t}, IsMember(s), NEW x \in Peers \ {peerId[s]}
      PROVE  Knows(s, x)'
  <2>1. roomId'[s] = roomId[s] /\ roomId[s] \in registered /\ s \in Sockets
    BY <1>5 DEF VInv, IInv, TypeOK, IsMember
  <2>2. CASE x \notin Ids[t]
    BY <1>1, <1>5, <2>2, OthersKnow
  <2>3. CASE x \in Ids[t]
    <3>1. member[roomId[s]][x] = NoSocket /\ x \notin view[s] /\ About(s, x) = {}
      BY <1>5, <2>3, NobodyKnows
    <3>2. member'[roomId[s]][x] = NoSocket
      BY <2>1, <3>1 DEF WithoutMine
    <3>3. About(s, x)' = {}
      BY <3>1 DEF About
    <3>4. QED
      BY <2>1, <3>1, <3>2, <3>3 DEF Knows
  <2>4. QED
    BY <2>2, <2>3
<1>6. Informed'
  BY <1>1, <1>2, <1>5 DEF Informed, OnlyMine, VInv, IInv, TypeOK
<1>7. QED
  BY <1>3, <1>4, <1>6 DEF VInv

\* The steps that neither change the registry nor send anything: a connection
\* comes or is lost, a JOIN that nobody has to be told of is over, a socket in no
\* room ends, or nothing happens.
LEMMA QuietKeepsView ==
    ASSUME PrivateIds, VInv, NEW t \in Sockets,
           UNCHANGED <<roomId, peerId, goal, registered, member, orphaned, sends>>, IInv',
           \A s \in Sockets \ {t} : pc'[s] = pc[s] /\ view'[s] = view[s],
           open' \subseteq open \cup {t},
           pc'[t] = pc[t] \/ ~Waiting(t),
           pc[t] = "joined" => pc'[t] = "joined" \/ Alone(t),
           pc'[t] \in {"moving", "off"} => pc'[t] = pc[t],
           pc'[t] \in {"idle", "joined", "announcing"} /\ roomId[t] \in Rooms => IsMember(t),
           t \in open' => (t \in open /\ view'[t] = view[t]) \/ ~IsMember(t)
    PROVE  VInv'
<1>1. Settled'
  <2>1. \A s \in Sockets : IsMember(s)' <=> IsMember(s)
    BY DEF IsMember
  <2>2. QED
    BY <2>1 DEF Settled, VInv
<1>2. Queued'
  <2>1. \A s : IsMember(s)' <=> IsMember(s)
    BY DEF IsMember
  <2>2. \A i \in 1 .. Len(sends) : sends[i].by \in Sockets /\ pc'[sends[i].by] = pc[sends[i].by]
    BY Messages DEF Waiting
  <2>3. QED
    BY <2>1, <2>2 DEF Queued, VInv
<1>3. ASSUME NEW s \in open', IsMember(s), NEW p \in Peers \ {peerId[s]}
      PROVE  Knows(s, p)'
  <2>1. s \in open /\ s \in Sockets /\ view'[s] = view[s] /\ roomId[s] \in registered
    BY <1>3 DEF VInv, IInv, TypeOK, IsMember
  <2>2. Knows(s, p)
    BY <1>3, <2>1 DEF VInv, Informed
  <2>3. About(s, p)' = About(s, p)
    BY DEF About
  <2>4. CASE \/ member[roomId[s]][p] = NoSocket
             \/ pc'[member[roomId[s]][p]] = pc[member[roomId[s]][p]]
    BY <2>1, <2>2, <2>3, <2>4 DEF Knows
  <2>5. CASE /\ member[roomId[s]][p] # NoSocket
             /\ pc'[member[roomId[s]][p]] # pc[member[roomId[s]][p]]
    <3>1. /\ member[roomId[s]][p] \in Sockets /\ IsMember(member[roomId[s]][p])
          /\ roomId[member[roomId[s]][p]] = roomId[s] /\ peerId[member[roomId[s]][p]] = p
      BY <2>1, <2>5, EntryIsOwners DEF VInv
    <3>2. member[roomId[s]][p] = t
      BY <2>5, <3>1
    <3>3. ~Alone(t)
      BY <1>3, <2>1, <3>1, <3>2 DEF Alone
    <3>4. QED
      BY <2>1, <2>2, <2>3, <3>2, <3>3 DEF Knows
  <2>6. QED
    BY <2>4, <2>5
<1>4. Informed'
  BY <1>3 DEF Informed, IsMember
<1>5. QED
  BY <1>1, <1>2, <1>4 DEF VInv

\* What t tells the others of its room is what they shall know of it.
LEMMA Told ==
    ASSUME PrivateIds, VInv, NEW t \in Sockets, IsMember(t), ~Waiting(t),
           NEW b \in Batch, sends' = Append(sends, b), b.peer = peerId[t],
           NEW s \in open \ {t}, IsMember(s), roomId'[s] = roomId[s], view'[s] = view[s],
           s \in b.to <=> roomId[s] = roomId[t],
           b.kind = "PEER_JOINED" <=> member'[roomId[t]][peerId[t]] # NoSocket,
           \A q \in registered, x \in Peers :
              ~(q = roomId[t] /\ x = peerId[t]) => member'[q][x] = member[q][x],
           NEW p \in Peers, p \in Ids[t]
    PROVE  Knows(s, p)'
<1>1. s \in Sockets /\ roomId[s] \in registered /\ peerId[s] \in Ids[s]
      /\ roomId[t] \in registered
  BY DEF VInv, IInv, TypeOK, IsMember, Settled
<1>2. About(s, p) = {}
  BY NothingAbout
<1>3. p # peerId[s]
  BY <1>1, Apart
<1>4. Knows(s, p)
  BY <1>3 DEF VInv, Informed
<1>5. /\ Len(sends) \in Nat /\ Len(sends') = Len(sends) + 1 /\ sends'[Len(sends) + 1] = b
      /\ \A i \in 1 .. Len(sends) : sends'[i] = sends[i]
  BY DEF VInv, IInv, TypeOK
<1>6. About(s, p)' = IF s \in b.to /\ p = peerId[t] THEN {Len(sends) + 1} ELSE {}
  BY <1>2, <1>5 DEF About
<1>7. CASE roomId[s] = roomId[t] /\ p = peerId[t]
  BY <1>5, <1>6, <1>7 DEF Knows
<1>8. CASE ~(roomId[s] = roomId[t] /\ p = peerId[t])
  <2>1. About(s, p)' = {}
    BY <1>6, <1>8
  <2>2. member[roomId[s]][p] = NoSocket
    BY <1>1, <1>8, EntryIsOwners DEF VInv
  <2>3. member'[roomId[s]][p] = NoSocket
    BY <1>1, <1>8, <2>2
  <2>4. p \notin view[s]
    BY <1>2, <1>4, <2>2 DEF Knows
  <2>5. QED
    BY <2>1, <2>3, <2>4 DEF Knows
<1>9. QED
  BY <1>7, <1>8

\* The others in the room of a member are who its broadcasts go to.
LEMMA Others ==
    ASSUME PrivateIds, VInv, NEW t \in Sockets, IsMember(t), NEW m \in {member, Removed(t)}
    PROVE  /\ Targets(m, roomId[t], peerId[t]) =
                 {s \in Sockets \ {t} : IsMember(s) /\ roomId[s] = roomId[t]}
           /\ roomId[t] \in Rooms /\ peerId[t] \in Peers /\ peerId[t] \in Ids[t]
           /\ roomId[t] \in registered
<1>1. /\ roomId[t] \in Rooms /\ peerId[t] \in Peers /\ peerId[t] \in Ids[t]
      /\ roomId[t] \in registered
  BY DEF IsMember, VInv, IInv, TypeOK, Proper, Settled
<1>2. \A p \in Peers \ {peerId[t]} : m[roomId[t]][p] = member[roomId[t]][p]
  BY <1>1, RemovedEntries DEF VInv, IInv
<1>3. ASSUME NEW s \in Targets(m, roomId[t], peerId[t])
      PROVE  s \in Sockets \ {t} /\ IsMember(s) /\ roomId[s] = roomId[t]
  <2>1. PICK p \in Peers \ {peerId[t]} : member[roomId[t]][p] # NoSocket
                                         /\ s = member[roomId[t]][p]
    BY <1>2 DEF Targets, Filed
  <2>2. QED
    BY <1>1, <2>1, EntryIsOwners DEF VInv
<1>4. ASSUME NEW s \in Sockets \ {t}, IsMember(s), roomId[s] = roomId[t]
      PROVE  s \in Targets(m, roomId[t], peerId[t])
  <2>1. /\ peerId[s] \in Peers /\ s # NoSocket /\ member[roomId[t]][peerId[s]] = s
        /\ peerId[s] # peerId[t]
    BY <1>1, <1>4, NullAssumption DEF IsMember, VInv, IInv, Proper
  <2>2. QED
    BY <1>2, <2>1 DEF Targets, Filed
<1>5. QED
  BY <1>1, <1>3, <1>4

\* A leave that somebody has to be told of.
LEMMA LeaveKeepsView ==
    ASSUME PrivateIds, VInv, NEW t \in Sockets, LeaveSuspends(t), pc[t] = "idle", IInv',
           member' = Removed(t), sends' = Broadcast(t, Removed(t), roomId[t], "PEER_LEFT"),
           NEW step \in {"moving", "leaving", "cleaning"}, pc' = [pc EXCEPT ![t] = step],
           \A s \in Sockets \ {t} : goal'[s] = goal[s],
           step = "moving" => goal'[t][2] \in Ids[t],
           UNCHANGED <<open, roomId, peerId, registered, orphaned, view>>
    PROVE  VInv'
<1> DEFINE b == [to |-> Targets(Removed(t), roomId[t], peerId[t]), kind |-> "PEER_LEFT",
                 peer |-> peerId[t], by |-> t]
<1>1. IsMember(t) /\ ~Waiting(t)
  <2>1. roomId[t] \in Rooms
    BY DEF LeaveSuspends, Present, VInv, IInv, TypeOK
  <2>2. QED
    BY <2>1, BusyWaits DEF VInv, Settled
<1>2. /\ b.to = {s \in Sockets \ {t} : IsMember(s) /\ roomId[s] = roomId[t]}
      /\ roomId[t] \in Rooms /\ peerId[t] \in Peers /\ peerId[t] \in Ids[t]
  BY <1>1, Others
<1>3. b \in Batch /\ b.peer = peerId[t] /\ b.by = t /\ b.kind = "PEER_LEFT"
  <2>1. b.to \in SUBSET Sockets
    BY <1>2
  <2>2. QED
    BY <1>2, <2>1 DEF Batch
<1>4. sends' = Append(sends, b)
  BY DEF Broadcast
<1> HIDE DEF b
<1>5. OnlyMine(t)
  <2>1. WithoutMine(t, member', registered')
    BY RemovedWithoutMine DEF VInv
  <2>2. \A s \in Sockets \ {t} : pc'[s] = pc[s]
    BY DEF VInv, IInv, TypeOK
  <2>3. QED
    BY <2>1, <2>2, ShrinkOnlyMine DEF VInv
<1>6. pc'[t] = step /\ ~IsMember(t)'
  BY DEF VInv, IInv, TypeOK, Gone
<1>7. Settled'
  BY <1>5, <1>6 DEF Settled, VInv, OnlyMine
<1>8. /\ Len(sends) \in Nat /\ Len(sends') = Len(sends) + 1 /\ sends'[Len(sends) + 1] = b
      /\ \A i \in 1 .. Len(sends) : sends'[i] = sends[i] /\ sends[i].by # t
  <2>1. ASSUME NEW i \in 1 .. Len(sends)
        PROVE  sends[i].by # t
    BY <1>1, <2>1 DEF Waiting
  <2>2. sends \in Seq(Batch) /\ b \in Batch
    BY <1>3 DEF VInv, IInv, TypeOK
  <2> DEFINE B == Batch
  <2>3. sends \in Seq(B) /\ b \in B
    BY <2>2
  <2> HIDE DEF B
  <2>4. /\ Len(sends) \in Nat /\ Len(sends') = Len(sends) + 1 /\ sends'[Len(sends) + 1] = b
        /\ \A i \in 1 .. Len(sends) : sends'[i] = sends[i]
    BY ONLY <1>4, <2>3
  <2>5. QED
    BY <2>1, <2>4
<1>9. Queued'
  <2>1. ASSUME NEW i \in 1 .. Len(sends)
        PROVE  /\ \/ sends[i].kind = "PEER_JOINED" /\ pc'[sends[i].by] = "announcing"
                  \/ /\ sends[i].kind = "PEER_LEFT"
                     /\ pc'[sends[i].by] \in {"moving", "leaving", "cleaning"}
               /\ sends[i].peer = peerId'[sends[i].by]
               /\ \A j \in 1 .. Len(sends') : sends'[j].by = sends[i].by => j = i
               /\ sends[i].kind = "PEER_JOINED" =>
                     \A s \in sends[i].to :
                        \/ IsMember(s)' /\ roomId'[s] = roomId'[sends[i].by]
                        \/ \E j \in 1 .. Len(sends') : i < j /\ sends'[j].by = s
    <3>1. sends[i].by \in Sockets \ {t} /\ sends[i].to \subseteq Sockets
      BY <1>8, Messages
    <3>2. pc'[sends[i].by] = pc[sends[i].by]
      BY <1>5, <3>1 DEF OnlyMine
    <3>3. \A j \in 1 .. Len(sends') : sends'[j].by = sends[i].by => j = i
      BY <1>3, <1>8, <3>1 DEF VInv, Queued
    <3>4. ASSUME NEW s \in sends[i].to, sends[i].kind = "PEER_JOINED"
          PROVE  \/ IsMember(s)' /\ roomId'[s] = roomId'[sends[i].by]
                 \/ \E j \in 1 .. Len(sends') : i < j /\ sends'[j].by = s
      <4>1. CASE s = t
        BY <1>3, <1>8, <4>1
      <4>2. CASE s # t
        <5>1. IsMember(s)' <=> IsMember(s)
          BY <1>5, <3>1, <4>2 DEF OnlyMine
        <5>2. \/ IsMember(s) /\ roomId[s] = roomId[sends[i].by]
              \/ \E j \in 1 .. Len(sends) : i < j /\ sends[j].by = s
          BY <3>4 DEF VInv, Queued
        <5>3. QED
          BY <1>8, <5>1, <5>2
      <4>3. QED
        BY <4>1, <4>2
    <3>5. QED
      BY <3>2, <3>3, <3>4 DEF VInv, Queued
  <2>2. QED
    BY <1>3, <1>6, <1>8, <2>1 DEF Queued
<1>10. ASSUME NEW s \in open \ {t}, IsMember(s), NEW p \in Peers \ {peerId[s]}
       PROVE  Knows(s, p)'
  <2>1. CASE p \notin Ids[t]
    BY <1>2, <1>3, <1>4, <1>5, <1>10, <2>1, OthersKnow
  <2>2. CASE p \in Ids[t]
    <3>1. \A q \in registered, x \in Peers :
             member'[q][x] = IF q = roomId[t] /\ x = peerId[t] THEN NoSocket ELSE member[q][x]
      BY RemovedEntries DEF VInv, IInv, TypeOK, LeaveSuspends
    <3>2. roomId[t] \in registered
      BY <1>1 DEF IsMember
    <3>3. s \in b.to <=> roomId[s] = roomId[t]
      BY <1>2, <1>10 DEF VInv, IInv, TypeOK
    <3>4. QED
      BY <1>1, <1>2, <1>3, <1>4, <1>10, <2>2, <3>1, <3>2, <3>3, Told
  <2>3. QED
    BY <2>1, <2>2
<1>11. Informed'
  BY <1>5, <1>6, <1>10 DEF Informed, OnlyMine, VInv, IInv, TypeOK
<1>12. QED
  BY <1>7, <1>9, <1>11 DEF VInv

\* The PEER_JOINED of a member that is not alone.
LEMMA AnnounceKeepsView ==
    ASSUME PrivateIds, VInv, NEW t \in Sockets, Announce(t), sends' # sends, IInv'
    PROVE  VInv'
<1> DEFINE b == [to |-> Targets(member, roomId[t], peerId[t]), kind |-> "PEER_JOINED",
                 peer |-> peerId[t], by |-> t]
<1>1. /\ pc[t] = "joined" /\ pc' = [pc EXCEPT ![t] = "announcing"]
      /\ sends' = Broadcast(t, member, roomId[t], "PEER_JOINED")
      /\ UNCHANGED <<open, roomId, peerId, goal, registered, member, orphaned, view>>
  BY DEF Announce
<1>2. IsMember(t) /\ ~Waiting(t)
  BY <1>1, BusyWaits DEF VInv, Settled, IInv, Proper
<1>3. /\ b.to = {s \in Sockets \ {t} : IsMember(s) /\ roomId[s] = roomId[t]}
      /\ roomId[t] \in Rooms /\ peerId[t] \in Peers /\ peerId[t] \in Ids[t]
  BY <1>2, Others
<1>4. b \in Batch /\ b.peer = peerId[t] /\ b.by = t /\ b.kind = "PEER_JOINED"
  <2>1. b.to \in SUBSET Sockets
    BY <1>3
  <2>2. QED
    BY <1>3, <2>1 DEF Batch
<1>5. sends' = Append(sends, b)
  BY <1>1 DEF Broadcast
<1> HIDE DEF b
<1>6. \A s \in Sockets : IsMember(s)' <=> IsMember(s)
  BY <1>1 DEF IsMember
<1>7. pc'[t] = "announcing" /\ \A s \in Sockets \ {t} : pc'[s] = pc[s]
  BY <1>1 DEF VInv, IInv, TypeOK
<1>8. OnlyMine(t)
  BY <1>1, <1>6, <1>7 DEF OnlyMine
<1>9. Settled'
  BY <1>1, <1>2, <1>6, <1>7 DEF Settled, VInv
<1>10. /\ Len(sends) \in Nat /\ Len(sends') = Len(sends) + 1 /\ sends'[Len(sends) + 1] = b
       /\ \A i \in 1 .. Len(sends) : sends'[i] = sends[i] /\ sends[i].by # t
  BY <1>2, <1>4, <1>5 DEF VInv, IInv, TypeOK, Waiting
<1>11. Queued'
  <2>1. ASSUME NEW i \in 1 .. Len(sends)
        PROVE  /\ \/ sends[i].kind = "PEER_JOINED" /\ pc'[sends[i].by] = "announcing"
                  \/ /\ sends[i].kind = "PEER_LEFT"
                     /\ pc'[sends[i].by] \in {"moving", "leaving", "cleaning"}
               /\ sends[i].peer = peerId'[sends[i].by]
               /\ \A j \in 1 .. Len(sends') : sends'[j].by = sends[i].by => j = i
               /\ sends[i].kind = "PEER_JOINED" =>
                     \A s \in sends[i].to :
                        \/ IsMember(s)' /\ roomId'[s] = roomId'[sends[i].by]
                        \/ \E j \in 1 .. Len(sends') : i < j /\ sends'[j].by = s
    <3>1. sends[i].by \in Sockets \ {t} /\ sends[i].to \subseteq Sockets
      BY <1>10, Messages
    <3>2. \A j \in 1 .. Len(sends') : sends'[j].by = sends[i].by => j = i
      BY <1>4, <1>10, <3>1 DEF VInv, Queued
    <3>3. ASSUME NEW s \in sends[i].to, sends[i].kind = "PEER_JOINED"
          PROVE  \/ IsMember(s)' /\ roomId'[s] = roomId'[sends[i].by]
                 \/ \E j \in 1 .. Len(sends') : i < j /\ sends'[j].by = s
      <4>1. \/ IsMember(s) /\ roomId[s] = roomId[sends[i].by]
            \/ \E j \in 1 .. Len(sends) : i < j /\ sends[j].by = s
        BY <3>3 DEF VInv, Queued
      <4>2. QED
        BY <1>1, <1>6, <1>10, <3>1, <4>1
    <3>4. QED
      BY <1>1, <1>7, <3>1, <3>2, <3>3 DEF VInv, Queued
  <2>2. \A s \in b.to : IsMember(s)' /\ roomId'[s] = roomId'[t]
    BY <1>1, <1>3, <1>6
  <2>3. QED
    BY <1>1, <1>4, <1>7, <1>10, <2>1, <2>2 DEF Queued
<1>12. ASSUME NEW s \in open \ {t}, IsMember(s), NEW p \in Peers \ {peerId[s]}
       PROVE  Knows(s, p)'
  <2>1. CASE p \notin Ids[t]
    BY <1>1, <1>3, <1>4, <1>5, <1>8, <1>12, <2>1, OthersKnow
  <2>2. CASE p \in Ids[t]
    <3>1. s \in b.to <=> roomId[s] = roomId[t]
      BY <1>3, <1>12 DEF VInv, IInv, TypeOK
    <3>2. member'[roomId[t]][peerId[t]] # NoSocket
      BY <1>1, <1>2, NullAssumption DEF IsMember
    <3>3. QED
      BY <1>1, <1>2, <1>4, <1>5, <1>12, <2>2, <3>1, <3>2, Told
  <2>3. QED
    BY <2>1, <2>2
<1>13. ASSUME t \in open, NEW p \in Peers \ {peerId[t]}
       PROVE  Knows(t, p)'
  <2>1. Knows(t, p)
    BY <1>2, <1>13 DEF VInv, Informed
  <2>2. About(t, p)' = About(t, p) /\ \A i \in About(t, p) : sends'[i] = sends[i]
    BY <1>3, <1>10 DEF About
  <2>3. ASSUME member[roomId[t]][p] # NoSocket
        PROVE  pc'[member[roomId[t]][p]] = pc[member[roomId[t]][p]]
    BY <1>2, <1>7, <2>3, EntryIsOwners DEF VInv, IsMember
  <2>4. QED
    BY <1>1, <2>1, <2>2, <2>3 DEF Knows
<1>14. Informed'
  BY <1>1, <1>6, <1>12, <1>13 DEF Informed, VInv, IInv, TypeOK
<1>15. QED
  BY <1>9, <1>11, <1>14 DEF VInv

\* The tasks of the oldest broadcast run.
LEMMA SendsKeepView ==
    ASSUME PrivateIds, VInv, RunSends, IInv'
    PROVE  VInv'
<1> DEFINE h == Head(sends)
<1>1. /\ sends # <<>> /\ sends' = Tail(sends)
      /\ UNCHANGED <<pc, open, roomId, peerId, goal, registered, member, orphaned>>
      /\ \A s \in Sockets :
            view'[s] = IF s \in h.to \cap open THEN Heard(view[s], h) ELSE view[s]
  BY DEF RunSends
<1>2. /\ Len(sends) \in Nat \ {0} /\ Len(sends') = Len(sends) - 1 /\ h = sends[1]
      /\ \A i \in 1 .. Len(sends') : i + 1 \in 1 .. Len(sends) /\ sends'[i] = sends[i + 1]
      /\ h \in Batch
  BY <1>1 DEF VInv, IInv, TypeOK
<1> HIDE DEF h
<1>3. \A s : IsMember(s)' <=> IsMember(s)
  BY <1>1 DEF IsMember
<1>4. Settled'
  BY <1>1, <1>3 DEF Settled, VInv
<1>5. Queued'
  <2>1. SUFFICES ASSUME NEW i \in 1 .. Len(sends')
                 PROVE  /\ \/ sends'[i].kind = "PEER_JOINED" /\ pc[sends'[i].by] = "announcing"
                           \/ /\ sends'[i].kind = "PEER_LEFT"
                              /\ pc[sends'[i].by] \in {"moving", "leaving", "cleaning"}
                        /\ sends'[i].peer = peerId[sends'[i].by]
                        /\ \A j \in 1 .. Len(sends') : sends'[j].by = sends'[i].by => j = i
                        /\ sends'[i].kind = "PEER_JOINED" =>
                              \A s \in sends'[i].to :
                                 \/ IsMember(s) /\ roomId[s] = roomId[sends'[i].by]
                                 \/ \E j \in 1 .. Len(sends') : i < j /\ sends'[j].by = s
    BY <1>1, <1>3 DEF Queued
  <2>2. i + 1 \in 1 .. Len(sends) /\ sends'[i] = sends[i + 1]
    BY <1>2
  <2>3. \A j \in 1 .. Len(sends') : sends'[j].by = sends'[i].by => j = i
    <3>1. SUFFICES ASSUME NEW j \in 1 .. Len(sends'), sends'[j].by = sends'[i].by
                   PROVE  j = i
      OBVIOUS
    <3>2. j + 1 \in 1 .. Len(sends) /\ sends[j + 1].by = sends[i + 1].by
      BY <1>2, <2>2, <3>1
    <3>3. j + 1 = i + 1
      BY <2>2, <3>2 DEF VInv, Queued
    <3>4. QED
      BY <3>3
  <2>4. ASSUME NEW s \in sends'[i].to, sends'[i].kind = "PEER_JOINED"
        PROVE  \/ IsMember(s) /\ roomId[s] = roomId[sends'[i].by]
               \/ \E j \in 1 .. Len(sends') : i < j /\ sends'[j].by = s
    <3>1. \/ IsMember(s) /\ roomId[s] = roomId[sends'[i].by]
          \/ \E j \in 1 .. Len(sends) : i + 1 < j /\ sends[j].by = s
      BY <2>2, <2>4 DEF VInv, Queued
    <3>2. ASSUME NEW j \in 1 .. Len(sends), i + 1 < j, sends[j].by = s
          PROVE  \E k \in 1 .. Len(sends') : i < k /\ sends'[k].by = s
      <4>1. j - 1 \in 1 .. Len(sends') /\ i < j - 1 /\ (j - 1) + 1 = j
        BY <1>2, <3>2
      <4>2. sends'[j - 1] = sends[j]
        BY <1>2, <4>1
      <4>3. QED
        BY <3>2, <4>1, <4>2
    <3>3. QED
      BY <3>1, <3>2
  <2>5. QED
    BY <2>2, <2>3, <2>4 DEF VInv, Queued
<1>6. ASSUME NEW s \in open, IsMember(s), NEW p \in Peers \ {peerId[s]}
      PROVE  Knows(s, p)'
  <2>1. Knows(s, p) /\ s \in Sockets
    BY <1>6 DEF VInv, Informed, IInv, TypeOK
  <2>2. ASSUME NEW i \in About(s, p)'
        PROVE  i + 1 \in About(s, p) /\ sends'[i] = sends[i + 1]
    BY <1>2 DEF About
  <2>3. ASSUME About(s, p)' = {}, NEW i \in About(s, p)
        PROVE  i = 1
    <3>1. i \in 1 .. Len(sends) /\ s \in sends[i].to /\ sends[i].peer = p
      BY DEF About
    <3>2. SUFFICES ASSUME i # 1 PROVE FALSE
      OBVIOUS
    <3>3. i - 1 \in 1 .. Len(sends') /\ (i - 1) + 1 = i
      BY <1>2, <3>1, <3>2
    <3>4. i - 1 \in About(s, p)'
      BY <1>2, <3>1, <3>3 DEF About
    <3>5. QED
      BY <2>3, <3>4
  <2>4. CASE About(s, p)' # {}
    <3>1. /\ member' = member /\ roomId' = roomId
      BY <1>1
    <3>2. \A i \in About(s, p)' :
             member[roomId[s]][p] # NoSocket <=> sends'[i].kind = "PEER_JOINED"
      BY <2>1, <2>2 DEF Knows
    <3>3. QED
      BY <2>4, <3>1, <3>2 DEF Knows
  <2>5. CASE About(s, p)' = {} /\ About(s, p) = {}
    <3>1. ~(s \in h.to /\ h.peer = p)
      BY <1>2, <2>5 DEF About
    <3>2. p \in view'[s] <=> p \in view[s]
      BY <1>1, <2>1, <3>1 DEF Heard
    <3>3. QED
      BY <1>1, <2>1, <2>5, <3>2 DEF Knows
  <2>6. CASE About(s, p)' = {} /\ About(s, p) # {}
    <3>1. 1 \in About(s, p) /\ s \in h.to /\ h.peer = p
      BY <1>2, <2>3, <2>6 DEF About
    <3>2. member[roomId[s]][p] # NoSocket <=> h.kind = "PEER_JOINED"
      BY <1>2, <2>1, <3>1 DEF Knows
    <3>3. p \in view'[s] <=> h.kind = "PEER_JOINED"
      BY <1>1, <1>6, <2>1, <3>1 DEF Heard
    <3>4. QED
      BY <1>1, <2>6, <3>2, <3>3 DEF Knows
  <2>7. QED
    BY <2>4, <2>5, <2>6
<1>7. Informed'
  BY <1>1, <1>3, <1>6 DEF Informed
<1>8. QED
  BY <1>4, <1>5, <1>7 DEF VInv

\* The invariant holds when nobody is connected.
LEMMA InitVInv == Init => VInv
<1> SUFFICES ASSUME Init PROVE VInv
  OBVIOUS
<1>1. Settled
  BY NullAssumption DEF Init, Settled
<1>2. Queued
  BY DEF Init, Queued
<1>3. Informed
  BY DEF Init, Informed
<1>4. QED
  BY <1>1, <1>2, <1>3, InitIInv DEF VInv

\* A JOIN: out of the old room, at once into the new one if nobody has to be told.
LEMMA RecvJoinKeepsView ==
    ASSUME PrivateIds, VInv, NEW t \in Sockets, NEW r \in Rooms, NEW p \in Peers,
           RecvJoin(t, r, p), IInv'
    PROVE  VInv'
<1>1. pc[t] = "idle" /\ p \in Ids[t]
  BY DEF RecvJoin
<1>2. CASE LeaveSuspends(t)
  <2>1. /\ member' = Removed(t)
        /\ sends' = Broadcast(t, Removed(t), roomId[t], "PEER_LEFT")
        /\ goal' = [goal EXCEPT ![t] = <<r, p>>]
        /\ pc' = [pc EXCEPT ![t] = "moving"]
        /\ UNCHANGED <<open, roomId, peerId, registered, orphaned, view>>
    BY <1>2 DEF RecvJoin
  <2>2. goal'[t][2] \in Ids[t] /\ \A s \in Sockets \ {t} : goal'[s] = goal[s]
    BY <1>1, <2>1 DEF VInv, IInv, TypeOK
  <2>3. QED
    BY <1>1, <1>2, <2>1, <2>2, LeaveKeepsView
<1>3. CASE ~LeaveSuspends(t)
  <2>1. /\ Enter(t, r, p, Removed(t), Collected(Removed(t), roomId[t]))
        /\ UNCHANGED <<open, goal, sends>>
    BY <1>3 DEF RecvJoin
  <2>2. WithoutMine(t, Removed(t), Collected(Removed(t), roomId[t]))
    BY RemovedWithoutMine DEF VInv
  <2>3. Alone(t) /\ ~Waiting(t)
    BY <1>1, <1>3, QuietLeaverIsAlone, BusyWaits
  <2>4. QED
    BY <1>1, <2>1, <2>2, <2>3, EnterKeepsView
<1>4. QED
  BY <1>2, <1>3

\* The second half of a JOIN from another room.
LEMMA FinishMoveKeepsView ==
    ASSUME PrivateIds, VInv, NEW t \in Sockets, FinishMove(t), IInv'
    PROVE  VInv'
<1>1. /\ pc[t] = "moving" /\ ~Waiting(t)
      /\ Enter(t, goal[t][1], goal[t][2], member, Collected(member, roomId[t]))
      /\ goal' = [goal EXCEPT ![t] = <<NoRoom, NoPeer>>]
      /\ UNCHANGED <<open, sends>>
  BY DEF FinishMove
<1>2. goal[t][1] \in Rooms /\ goal[t][2] \in Peers /\ goal[t][2] \in Ids[t]
  BY <1>1 DEF VInv, IInv, Proper, Settled
<1>3. WithoutMine(t, member, Collected(member, roomId[t]))
  BY RemovedWithoutMine DEF VInv
<1>4. Alone(t)
  BY <1>1 DEF VInv, IInv, Gone, Alone
<1>5. \A s \in Sockets \ {t} : goal'[s] = goal[s]
  BY <1>1 DEF VInv, IInv, TypeOK
<1>6. QED
  BY <1>1, <1>2, <1>3, <1>4, <1>5, EnterKeepsView

\* A LEAVE frame, or the end of a connection that is in a room.
LEMMA LeaveRoomKeepsView ==
    ASSUME PrivateIds, VInv, NEW t \in Sockets, pc[t] = "idle", IInv',
           \/ LeaveRoom(t, "leaving", "idle")
           \/ LeaveRoom(t, "cleaning", "done")
    PROVE  VInv'
<1>1. PICK step \in {"leaving", "cleaning"}, next \in {"idle", "done"} :
         LeaveRoom(t, step, next) /\ (step = "leaving" <=> next = "idle")
  OBVIOUS
<1>2. member' = Removed(t) /\ UNCHANGED <<open, peerId, goal, view>>
  BY <1>1 DEF LeaveRoom
<1>3. CASE LeaveSuspends(t)
  <2>1. /\ sends' = Broadcast(t, Removed(t), roomId[t], "PEER_LEFT")
        /\ pc' = [pc EXCEPT ![t] = step]
        /\ UNCHANGED <<roomId, registered, orphaned>>
    BY <1>1, <1>3 DEF LeaveRoom
  <2>2. QED
    BY <1>2, <1>3, <2>1, LeaveKeepsView
<1>4. CASE ~LeaveSuspends(t)
  <2>1. /\ registered' = Collected(Removed(t), roomId[t])
        /\ orphaned' = Orphans(registered')
        /\ roomId' = IF step = "leaving" THEN [roomId EXCEPT ![t] = NoRoom] ELSE roomId
        /\ pc' = [pc EXCEPT ![t] = next]
        /\ UNCHANGED sends
    BY <1>1, <1>4 DEF LeaveRoom
  <2>2. WithoutMine(t, member', registered')
    BY <1>2, <2>1, RemovedWithoutMine DEF VInv
  <2>3. Alone(t) /\ ~Waiting(t)
    BY <1>4, QuietLeaverIsAlone, BusyWaits
  <2>4. /\ \A s \in Sockets \ {t} : roomId'[s] = roomId[s] /\ pc'[s] = pc[s]
        /\ \/ pc'[t] = "idle" /\ roomId'[t] = NoRoom
           \/ pc'[t] = "done" /\ roomId'[t] = roomId[t]
    BY <1>1, <2>1 DEF VInv, IInv, TypeOK
  <2>5. QED
    BY <1>2, <2>1, <2>2, <2>3, <2>4, EndKeepsView
<1>5. QED
  BY <1>3, <1>4

\* The second half of either.
LEMMA FinishLeaveKeepsView ==
    ASSUME PrivateIds, VInv, NEW t \in Sockets, FinishLeave(t) \/ FinishCleanup(t), IInv'
    PROVE  VInv'
<1>1. /\ pc[t] \in {"leaving", "cleaning"} /\ ~Waiting(t)
      /\ registered' = Collected(member, roomId[t])
      /\ orphaned' = Orphans(registered')
      /\ UNCHANGED <<open, peerId, goal, member, sends, view>>
      /\ \/ roomId' = [roomId EXCEPT ![t] = NoRoom] /\ pc' = [pc EXCEPT ![t] = "idle"]
         \/ roomId' = roomId /\ pc' = [pc EXCEPT ![t] = "done"]
  BY DEF FinishLeave, FinishCleanup
<1>2. WithoutMine(t, member', registered')
  BY <1>1, RemovedWithoutMine DEF VInv
<1>3. Alone(t)
  BY <1>1 DEF VInv, IInv, Gone, Alone
<1>4. /\ \A s \in Sockets \ {t} : roomId'[s] = roomId[s] /\ pc'[s] = pc[s]
      /\ \/ pc'[t] = "idle" /\ roomId'[t] = NoRoom
         \/ pc'[t] = "done" /\ roomId'[t] = roomId[t]
  BY <1>1 DEF VInv, IInv, TypeOK
<1>5. QED
  BY <1>1, <1>2, <1>3, <1>4, EndKeepsView

\* The actions that QuietKeepsView covers.
LEMMA QuietStepKeepsView ==
    ASSUME PrivateIds, VInv, NEW t \in Sockets, IInv',
           \/ Connect(t)
           \/ Drop(t)
           \/ Announce(t) /\ sends' = sends
           \/ FinishJoin(t)
           \/ Cleanup(t) /\ roomId[t] = NoRoom
    PROVE  VInv'
<1>1. UNCHANGED <<roomId, peerId, goal, registered, member, orphaned, sends>>
  BY DEF Connect, Drop, Announce, FinishJoin, Cleanup, LeaveRoom
<1>2. /\ \A s \in Sockets \ {t} : pc'[s] = pc[s] /\ view'[s] = view[s]
      /\ open' \subseteq open \cup {t}
  BY DEF Connect, Drop, Announce, FinishJoin, Cleanup, LeaveRoom, VInv, IInv, TypeOK
<1>3. NoRoom \notin registered
  BY NullAssumption DEF VInv, IInv, TypeOK
<1>4. CASE Connect(t)
  <2>1. /\ pc[t] = "off" /\ pc'[t] = "idle" /\ roomId[t] = NoRoom /\ NoRoom \notin Rooms
    BY <1>4, NullAssumption DEF Connect, VInv, IInv, TypeOK, Settled
  <2>2. ~IsMember(t) /\ ~Waiting(t)
    BY <1>3, <2>1, BusyWaits DEF IsMember
  <2>3. QED
    BY <1>1, <1>2, <2>1, <2>2, QuietKeepsView
<1>5. CASE Drop(t)
  <2>1. pc' = pc /\ t \notin open'
    BY <1>5 DEF Drop
  <2>2. pc[t] \in {"idle", "joined", "announcing"} /\ roomId[t] \in Rooms => IsMember(t)
    BY DEF VInv, Settled
  <2>3. QED
    BY <1>1, <1>2, <2>1, <2>2, QuietKeepsView
<1>6. CASE Announce(t) /\ sends' = sends
  <2>1. pc[t] = "joined" /\ open' = open /\ view' = view
    BY <1>6 DEF Announce
  <2>2. IsMember(t) /\ ~Waiting(t)
    BY <2>1, BusyWaits DEF VInv, Settled, IInv, Proper
  <2>3. Targets(member, roomId[t], peerId[t]) = {} /\ pc'[t] = "idle"
    <3>1. sends' # Broadcast(t, member, roomId[t], "PEER_JOINED")
      BY <1>6 DEF Broadcast, VInv, IInv, TypeOK
    <3>2. QED
      BY <1>6, <3>1 DEF Announce, VInv, Settled, IInv, TypeOK
  <2>4. Alone(t)
    BY <2>2, <2>3, Others DEF Alone
  <2>5. QED
    BY <1>1, <1>2, <2>1, <2>2, <2>3, <2>4, QuietKeepsView
<1>7. CASE FinishJoin(t)
  <2>1. pc[t] = "announcing" /\ pc'[t] = "idle" /\ ~Waiting(t) /\ open' = open /\ view' = view
    BY <1>7 DEF FinishJoin, VInv, IInv, TypeOK
  <2>2. IsMember(t)
    BY <2>1 DEF VInv, Settled, IInv, Proper
  <2>3. QED
    BY <1>1, <1>2, <2>1, <2>2, QuietKeepsView
<1>8. CASE Cleanup(t) /\ roomId[t] = NoRoom
  <2>1. pc[t] = "idle" /\ pc'[t] = "done" /\ open' = open /\ view' = view
    BY <1>8 DEF Cleanup, LeaveRoom, VInv, IInv, TypeOK
  <2>2. ~Waiting(t)
    BY <2>1, BusyWaits
  <2>3. QED
    BY <1>1, <1>2, <2>1, <2>2, QuietKeepsView
<1>9. QED
  BY <1>4, <1>5, <1>6, <1>7, <1>8

\* Every step keeps the invariant, if no two sockets use one peer_id.
LEMMA NextVInv == PrivateIds /\ VInv /\ [Next]_vars => VInv'
<1> SUFFICES ASSUME PrivateIds, VInv, [Next]_vars PROVE VInv'
  OBVIOUS
<1>1. IInv'
  BY NextIInv DEF VInv
<1>2. CASE UNCHANGED vars
  <2>1. /\ Settled'
    BY <1>2 DEF vars, VInv, Settled, IsMember
  <2>2. Queued'
    BY <1>2 DEF vars, VInv, Queued, IsMember
  <2>3. Informed'
    BY <1>2 DEF vars, VInv, Informed, Knows, About, IsMember
  <2>4. QED
    BY <1>1, <2>1, <2>2, <2>3 DEF VInv
<1>3. CASE RunSends
  BY <1>1, <1>3, SendsKeepView
<1>4. ASSUME NEW t \in Sockets,
             \/ Connect(t)
             \/ Drop(t)
             \/ \E r \in Rooms, p \in Peers : RecvJoin(t, r, p)
             \/ RecvLeave(t)
             \/ Cleanup(t)
             \/ Handler(t)
      PROVE  VInv'
  <2>1. CASE Connect(t) \/ Drop(t) \/ FinishJoin(t)
    BY <1>1, <2>1, QuietStepKeepsView
  <2>2. CASE \E r \in Rooms, p \in Peers : RecvJoin(t, r, p)
    BY <1>1, <2>2, RecvJoinKeepsView
  <2>3. CASE RecvLeave(t)
    BY <1>1, <2>3, LeaveRoomKeepsView DEF RecvLeave
  <2>4. CASE Cleanup(t)
    <3>1. pc[t] = "idle" /\ (LeaveRoom(t, "cleaning", "done") \/ roomId[t] = NoRoom)
      BY <2>4 DEF Cleanup
    <3>2. QED
      BY <1>1, <2>4, <3>1, LeaveRoomKeepsView, QuietStepKeepsView
  <2>5. CASE FinishMove(t)
    BY <1>1, <2>5, FinishMoveKeepsView
  <2>6. CASE FinishLeave(t) \/ FinishCleanup(t)
    BY <1>1, <2>6, FinishLeaveKeepsView
  <2>7. CASE Announce(t)
    BY <1>1, <2>7, QuietStepKeepsView, AnnounceKeepsView
  <2>8. QED
    BY <1>4, <2>1, <2>2, <2>3, <2>4, <2>5, <2>6, <2>7 DEF Handler
<1>5. QED
  BY <1>2, <1>3, <1>4 DEF Next

\* So it always holds.
LEMMA ViewInvariance == PrivateIds => (Spec => []VInv)
<1>1. SUFFICES ASSUME PrivateIds PROVE Spec => []VInv
  OBVIOUS
<1>2. VInv /\ [Next]_vars => VInv'
  BY <1>1, NextVInv
<1>3. QED
  BY <1>2, InitVInv, PTL DEF Spec

\* The member list of a client converges to its room's, if no two connections
\* use the same peer_id: what it knows of a peer is right, or the last queued
\* broadcast about that peer will put it right, or the peer has yet to announce
\* itself (RoomRegistry.join and leave, SignalingClient._handle_text_frame).
THEOREM ViewsConverge == PrivateIds => (Spec => []ViewConverges)
<1> SUFFICES ASSUME PrivateIds PROVE Spec => []ViewConverges
  OBVIOUS
<1>1. ASSUME VInv PROVE ViewConverges
  <2>1. SUFFICES ASSUME NEW s \in open, IsMember(s), NEW p \in Peers \ {peerId[s]}
                 PROVE  LET inRoom == member[roomId[s]][p] # NoSocket
                        IN  IF About(s, p) # {}
                            THEN LET last == CHOOSE i \in About(s, p) :
                                                \A j \in About(s, p) : j <= i
                                 IN  inRoom <=> sends[last].kind = "PEER_JOINED"
                            ELSE \/ inRoom <=> p \in view[s]
                                 \/ inRoom /\ pc[member[roomId[s]][p]] = "joined"
    BY DEF ViewConverges
  <2>2. Knows(s, p)
    BY <1>1, <2>1 DEF VInv, Informed
  <2>3. ASSUME About(s, p) # {}
        PROVE  (CHOOSE i \in About(s, p) : \A j \in About(s, p) : j <= i) \in About(s, p)
    <3>1. PICK i \in About(s, p) : TRUE
      BY <2>3
    <3>2. \A j \in About(s, p) : j = i
      BY <1>1, Messages, Apart, <3>1 DEF About, VInv, Queued
    <3>3. i \in Nat
      BY <3>1 DEF About
    <3>4. \A j \in About(s, p) : j <= i
      BY <3>2, <3>3
    <3>5. QED
      BY <3>1, <3>4
  <2>4. QED
    BY <2>2, <2>3 DEF Knows
<1>2. QED
  BY <1>1, ViewInvariance, PTL

\* A frame to a peer that the client knows when no broadcast is queued reaches
\* it, unless its connection is dead, and a joined client never hears
\* ROOM_NOT_FOUND, if no two connections use the same peer_id
\* (RoomRegistry.relay).
THEOREM RelaysReach == PrivateIds => (Spec => []RelayReachesKnownPeer)
<1> SUFFICES ASSUME PrivateIds PROVE Spec => []RelayReachesKnownPeer
  OBVIOUS
<1>1. ASSUME VInv PROVE RelayReachesKnownPeer
  <2>1. SUFFICES ASSUME NEW s \in Sockets, Idle(s), roomId[s] # NoRoom, NEW p \in Peers
                 PROVE  /\ RelayResult(s, p) # "ROOM_NOT_FOUND"
                        /\ sends = <<>> /\ p \in view[s] /\ RelayResult(s, p) # "delivered"
                           => \E t \in Sockets \ open : IsMember(t) /\ peerId[t] = p
    BY DEF RelayReachesKnownPeer
  <2>2. IsMember(s) /\ s \in open /\ roomId[s] \in registered
    BY <1>1, <2>1 DEF Idle, VInv, IInv, TypeOK, Settled, IsMember
  <2>3. RelayResult(s, p) # "ROOM_NOT_FOUND"
    BY <2>1, <2>2 DEF RelayResult
  <2>4. ASSUME sends = <<>>, p \in view[s], RelayResult(s, p) # "delivered"
        PROVE  \E t \in Sockets \ open : IsMember(t) /\ peerId[t] = p
    <3>1. member[roomId[s]][p] \notin open
      BY <2>1, <2>2, <2>4 DEF RelayResult
    <3>2. p # peerId[s]
      BY <2>2, <3>1 DEF IsMember
    <3>3. Knows(s, p) /\ About(s, p) = {}
      BY <1>1, <2>2, <2>4, <3>2 DEF VInv, Informed, About
    <3>4. member[roomId[s]][p] # NoSocket
      BY <2>4, <3>3 DEF Knows
    <3>5. QED
      BY <1>1, <2>2, <3>1, <3>4, EntryIsOwners DEF VInv
  <2>5. QED
    BY <2>3, <2>4
<1>2. QED
  BY <1>1, ViewInvariance, PTL

\* A connection that joined and waits for its next frame is a member of the
\* room it joined, if no two connections use the same peer_id: nobody else's
\* LEAVE, JOIN or cleanup takes it out (RoomRegistry.leave, cleanup_peer).
THEOREM JoinedStaysMember == PrivateIds => (Spec => []JoinedIsMember)
<1> SUFFICES ASSUME PrivateIds PROVE Spec => []JoinedIsMember
  OBVIOUS
<1>1. VInv => JoinedIsMember
  BY DEF VInv, IInv, TypeOK, Settled, JoinedIsMember
<1>2. QED
  BY <1>1, ViewInvariance, PTL

\* A handler's step leaves the membership of the other sockets alone, if no two
\* of them use the same peer_id.
LEMMA OthersStayMembers ==
    ASSUME PrivateIds, VInv, NEW t \in Sockets,
           \/ Connect(t)
           \/ Drop(t)
           \/ \E r \in Rooms, p \in Peers : RecvJoin(t, r, p)
           \/ RecvLeave(t)
           \/ Cleanup(t)
           \/ Handler(t),
           NEW s \in Sockets \ {t}, IsMember(s)
    PROVE  IsMember(s)'
<1>0. IInv /\ Settled /\ TypeOK
  BY DEF VInv, IInv
<1>1. CASE UNCHANGED <<roomId, peerId, registered, member>>
  BY <1>1 DEF IsMember
<1>2. ASSUME NEW r \in Rooms, NEW p \in Peers, RecvJoin(t, r, p)
      PROVE  IsMember(s)'
  <2>1. p \in Ids[t]
    BY <1>2 DEF RecvJoin
  <2>2. CASE LeaveSuspends(t)
    <3>1. member' = Removed(t) /\ UNCHANGED <<roomId, peerId, registered>>
      BY <1>2, <2>2 DEF RecvJoin
    <3>2. /\ WithoutMine(t, member', registered') /\ peerId' = peerId
          /\ roomId' = roomId /\ registered' = registered
      BY <1>0, <3>1, RemovedWithoutMine
    <3>3. roomId[s] \in registered' /\ member'[roomId[s]][peerId[s]] = s
      BY <1>0, <3>2, OthersRemain
    <3>4. QED
      BY <3>2, <3>3 DEF IsMember
  <2>3. CASE ~LeaveSuspends(t)
    <3>1. /\ Enter(t, r, p, Removed(t), Collected(Removed(t), roomId[t]))
          /\ UNCHANGED <<open, goal, sends>>
      BY <1>2, <2>3 DEF RecvJoin
    <3>2. WithoutMine(t, Removed(t), Collected(Removed(t), roomId[t]))
      BY <1>0, RemovedWithoutMine
    <3>3. OnlyMine(t)
      BY <1>0, <2>1, <3>1, <3>2, EnterOnlyMine
    <3>4. QED
      BY <3>3 DEF OnlyMine
  <2>4. QED
    BY <2>2, <2>3
<1>3. CASE FinishMove(t)
  <2>1. /\ pc[t] = "moving"
        /\ Enter(t, goal[t][1], goal[t][2], member, Collected(member, roomId[t]))
        /\ goal' = [goal EXCEPT ![t] = <<NoRoom, NoPeer>>]
    BY <1>3 DEF FinishMove
  <2>2. goal[t][1] \in Rooms /\ goal[t][2] \in Peers /\ goal[t][2] \in Ids[t]
    BY <1>0, <2>1 DEF IInv, Proper, Settled
  <2>3. WithoutMine(t, member, Collected(member, roomId[t]))
    BY <1>0, RemovedWithoutMine
  <2>4. \A x \in Sockets \ {t} : goal'[x] = goal[x]
    BY <1>0, <2>1 DEF TypeOK
  <2>5. OnlyMine(t)
    BY <1>0, <2>1, <2>2, <2>3, <2>4, EnterOnlyMine
  <2>6. QED
    BY <2>5 DEF OnlyMine
<1>4. ASSUME \/ RecvLeave(t)
             \/ LeaveRoom(t, "cleaning", "done")
             \/ FinishLeave(t)
             \/ FinishCleanup(t)
      PROVE  IsMember(s)'
  <2>1. /\ peerId' = peerId
        /\ roomId' = roomId \/ roomId' = [roomId EXCEPT ![t] = NoRoom]
        /\ \/ member' = Removed(t) /\ registered' = registered
           \/ member' = Removed(t) /\ registered' = Collected(Removed(t), roomId[t])
           \/ member' = member /\ registered' = Collected(member, roomId[t])
    BY <1>4 DEF RecvLeave, LeaveRoom, FinishLeave, FinishCleanup
  <2>2. WithoutMine(t, member', registered')
    BY <1>0, <2>1, RemovedWithoutMine
  <2>3. roomId[s] \in registered' /\ member'[roomId[s]][peerId[s]] = s
    BY <1>0, <2>2, OthersRemain
  <2>4. roomId'[s] = roomId[s]
    BY <1>0, <2>1 DEF TypeOK
  <2>5. QED
    BY <2>1, <2>3, <2>4 DEF IsMember
<1>5. CASE Connect(t) \/ Drop(t) \/ Announce(t) \/ FinishJoin(t)
  BY <1>1, <1>5 DEF Connect, Drop, Announce, FinishJoin
<1>6. CASE Cleanup(t)
  BY <1>1, <1>4, <1>6 DEF Cleanup
<1>7. QED
  BY <1>2, <1>3, <1>4, <1>5, <1>6 DEF Handler

\* A handler that takes its own socket out of a room moves on.
LEMMA LeaverMoves ==
    ASSUME PrivateIds, VInv, NEW t \in Sockets,
           \/ Connect(t)
           \/ Drop(t)
           \/ \E r \in Rooms, p \in Peers : RecvJoin(t, r, p)
           \/ RecvLeave(t)
           \/ Cleanup(t)
           \/ Handler(t),
           IsMember(t), ~IsMember(t)'
    PROVE  pc'[t] # pc[t] \/ roomId'[t] # roomId[t]
<1>0. TypeOK /\ pc[t] \notin {"off", "moving", "leaving", "cleaning", "done"} /\ roomId[t] # NoRoom
  BY NullAssumption DEF VInv, IInv, Gone, TypeOK, IsMember
<1>1. CASE Connect(t) \/ Drop(t) \/ Announce(t) \/ FinishJoin(t)
  BY <1>1 DEF Connect, Drop, Announce, FinishJoin, IsMember
<1>2. CASE \E r \in Rooms, p \in Peers : RecvJoin(t, r, p)
  BY <1>0, <1>2 DEF RecvJoin, Enter, TypeOK
<1>3. CASE RecvLeave(t) \/ Cleanup(t)
  BY <1>0, <1>3 DEF RecvLeave, Cleanup, LeaveRoom, TypeOK
<1>4. CASE FinishMove(t) \/ FinishLeave(t) \/ FinishCleanup(t)
  BY <1>0, <1>4 DEF FinishMove, FinishLeave, FinishCleanup
<1>5. QED
  BY <1>1, <1>2, <1>3, <1>4 DEF Handler

\* Membership ends only by a step of the member's own handler, if no two
\* connections use the same peer_id: RoomRegistry.leave, join and cleanup_peer
\* of one connection never take out another's Peer.
THEOREM MembersEndThemselves == PrivateIds => (Spec => OnlyIEndMyMembership)
<1> SUFFICES ASSUME PrivateIds PROVE Spec => OnlyIEndMyMembership
  OBVIOUS
<1>1. ASSUME VInv, [Next]_vars, NEW s \in Sockets, IsMember(s), ~IsMember(s)'
      PROVE  pc'[s] # pc[s] \/ roomId'[s] # roomId[s]
  <2>1. ~UNCHANGED <<roomId, peerId, registered, member>>
    BY <1>1 DEF IsMember
  <2>2. PICK t \in Sockets : \/ Connect(t)
                             \/ Drop(t)
                             \/ \E r \in Rooms, p \in Peers : RecvJoin(t, r, p)
                             \/ RecvLeave(t)
                             \/ Cleanup(t)
                             \/ Handler(t)
    BY <1>1, <2>1 DEF Next, RunSends, vars
  <2>3. s = t
    BY <1>1, <2>2, OthersStayMembers
  <2>4. QED
    BY <1>1, <2>2, <2>3, LeaverMoves
<1>2. VInv /\ [Next]_vars =>
        [\A s \in Sockets : IsMember(s) /\ ~IsMember(s)' =>
           pc'[s] # pc[s] \/ roomId'[s] # roomId[s]]_vars
  BY <1>1
<1>3. QED
  BY <1>2, ViewInvariance, PTL DEF Spec, OnlyIEndMyMembership

=============================================================================

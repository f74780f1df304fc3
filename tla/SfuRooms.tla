------------------------------ MODULE SfuRooms ------------------------------
(***************************************************************************)
(* Group calls: the SFU room (server/sfu_room.py), the registry of SFU     *)
(* rooms (server/sfu_registry.py) and the WebSocket handlers that use them *)
(* (server/signaling.py: SFU_PUBLISH, SFU_SUBSCRIBE, and the finally of    *)
(* handle_ws).  One room id; what happens under another is independent.    *)
(*                                                                         *)
(* Negotiating a connection and closing one suspend the handler, so an     *)
(* action is the code between two of them.  The registry's mutex is held   *)
(* across the closes of remove_peer, hence modelled.  A loop that pops and *)
(* closes connections takes them here in any order, in the code in the     *)
(* order they were made.                                                   *)
(***************************************************************************)
EXTENDS Naturals, FiniteSets

CONSTANTS
    Clients,      \* WebSocket connections, each one under a peer_id of its own
    Leavers,      \* those that send LEAVE, or JOIN another room, and go on
    MaxPublish,   \* bound: SFU_PUBLISH frames of a connection
    MaxRooms,     \* bound: SfuRoom objects made under the room id
    Nobody        \* the mutex is free

ASSUME BoundsAssumption == MaxPublish \in Nat /\ MaxRooms \in Nat
ASSUME ClientsAssumption == Leavers \subseteq Clients /\ Nobody \notin Clients

VARIABLES
    pc,          \* where the handler of a connection stands
    joined,      \* connections whose Peer.room_id is the room
    lock,        \* SfuRegistry._mutex: who holds it across an await
    made,        \* number of SfuRoom objects made so far; they are 1 .. made
    registered,  \* SfuRegistry._rooms: the object under the room id, 0: none
    producers,   \* SfuRoom._producers: which publish of a peer, 0: none
    forwards,    \* SfuRoom._subscribers: the downstream under the key
                 \* <<subscriber, producer>> and, as its value, which publish
                 \* of the producer it forwards, 0: none
    published,   \* number of SFU_PUBLISH frames of a connection
    live,        \* upstreams <<peer, publish>> negotiated and not closed
    room,        \* the object a handler works on, 0: none
    target,      \* subscribe(): <<producer, its publish>>
    stale        \* keys a _drop_producer or remove_peer has still to pop

vars == <<pc, joined, lock, made, registered, producers, forwards, published,
          live, room, target, stale>>

Objects == 1 .. MaxRooms
Publishes == 0 .. MaxPublish
Keys == Clients \X Clients

Steps == {"idle", "publishing", "replacing", "swapping", "announcing",
          "subscribing", "resubscribing", "ended", "removing", "dropping",
          "unsubscribing", "done", "failed"}

TypeOK ==
    /\ pc \in [Clients -> Steps]
    /\ joined \in SUBSET Clients
    /\ lock \in Clients \cup {Nobody}
    /\ made \in 0 .. MaxRooms
    /\ registered \in 0 .. made
    /\ producers \in [Objects -> [Clients -> Publishes]]
    /\ forwards \in [Objects -> [Keys -> Publishes]]
    /\ published \in [Clients -> Publishes]
    /\ live \in SUBSET (Clients \X Publishes)
    /\ room \in [Clients -> 0 .. made]
    /\ target \in [Clients -> Clients \X Publishes]
    /\ stale \in [Clients -> SUBSET Keys]

-----------------------------------------------------------------------------
\* SfuRoom.producer_ids.
ProducerIds(i) == {p \in Clients : producers[i][p] # 0}

\* _drop_producer's list: the downstreams that forward producer p.
Into(i, p) == {k \in Keys : k[2] = p /\ forwards[i][k] # 0}

\* remove_peer's list: the downstreams that p itself opened.
Outof(i, p) == {k \in Keys : k[1] = p /\ forwards[i][k] # 0}

\* SfuRoom.is_empty, with the downstreams f.
IsEmpty(i, f) ==
    /\ ProducerIds(i) = {}
    /\ \A k \in Keys : f[i][k] = 0

-----------------------------------------------------------------------------
Init ==
    /\ pc = [c \in Clients |-> "idle"]
    /\ joined = Clients
    /\ lock = Nobody
    /\ made = 0
    /\ registered = 0
    /\ producers = [i \in Objects |-> [c \in Clients |-> 0]]
    /\ forwards = [i \in Objects |-> [k \in Keys |-> 0]]
    /\ published = [c \in Clients |-> 0]
    /\ live = {}
    /\ room = [c \in Clients |-> 0]
    /\ target = [c \in Clients |-> <<c, 0>>]
    /\ stale = [c \in Clients |-> {}]

\* LEAVE, or JOIN of another room: neither touches the SFU.
Leave(c) ==
    /\ pc[c] = "idle"
    /\ c \in joined \cap Leavers
    /\ joined' = joined \ {c}
    /\ UNCHANGED <<pc, lock, made, registered, producers, forwards, published,
                   live, room, target, stale>>

\* JOIN of the room again, on the same connection.
Rejoin(c) ==
    /\ pc[c] = "idle"
    /\ c \notin joined
    /\ joined' = joined \cup {c}
    /\ UNCHANGED <<pc, lock, made, registered, producers, forwards, published,
                   live, room, target, stale>>

\* SFU_PUBLISH: get_or_create, which waits for the mutex, and the beginning of
\* add_publisher up to its first await.
RecvPublish(c) ==
    /\ pc[c] = "idle"
    /\ c \in joined
    /\ lock = Nobody
    /\ published[c] < MaxPublish
    /\ IF registered = 0
       THEN /\ made < MaxRooms
            /\ made' = made + 1
            /\ registered' = made + 1
       ELSE UNCHANGED <<made, registered>>
    /\ room' = [room EXCEPT ![c] = registered']
    /\ published' = [published EXCEPT ![c] = @ + 1]
    /\ pc' = [pc EXCEPT ![c] = "publishing"]
    /\ UNCHANGED <<joined, lock, producers, forwards, live, target, stale>>

\* Mutant of Negotiated: the old upstream is closed and not taken out.
NegotiatedKeepsOld(c) ==
    /\ pc[c] = "publishing"
    /\ LET i == room[c]
           old == producers[i][c]
       IN  IF old # 0
           THEN /\ live' = (live \cup {<<c, published[c]>>}) \ {<<c, old>>}
                /\ pc' = [pc EXCEPT ![c] = "replacing"]
                /\ UNCHANGED producers
           ELSE /\ producers' = [producers EXCEPT ![i][c] = published[c]]
                /\ live' = live \cup {<<c, published[c]>>}
                /\ pc' = [pc EXCEPT ![c] = "announcing"]
    /\ UNCHANGED <<joined, lock, made, registered, forwards, published, room,
                   target, stale>>

\* The upstream is negotiated and all its tracks are known.  If the peer is
\* already a producer, _drop_producer takes the old upstream out and closes it.
Negotiated(c) ==
    /\ pc[c] = "publishing"
    /\ LET i == room[c]
           old == producers[i][c]
       IN  IF old # 0
           THEN /\ producers' = [producers EXCEPT ![i][c] = 0]
                /\ live' = (live \cup {<<c, published[c]>>}) \ {<<c, old>>}
                /\ pc' = [pc EXCEPT ![c] = "replacing"]
           ELSE /\ producers' = [producers EXCEPT ![i][c] = published[c]]
                /\ live' = live \cup {<<c, published[c]>>}
                /\ pc' = [pc EXCEPT ![c] = "announcing"]
    /\ UNCHANGED <<joined, lock, made, registered, forwards, published, room,
                   target, stale>>

\* The offer is refused: the exception ends the connection's message loop.
NegotiationFails(c) ==
    /\ pc[c] \in {"publishing", "subscribing"}
    /\ pc' = [pc EXCEPT ![c] = "ended"]
    /\ room' = [room EXCEPT ![c] = 0]
    /\ target' = [target EXCEPT ![c] = <<c, 0>>]
    /\ UNCHANGED <<joined, lock, made, registered, producers, forwards,
                   published, live, stale>>

\* The keys a _drop_producer or remove_peer that stands at pc[c] goes on with.
DropKeys(c) ==
    IF pc[c] \in {"replacing", "removing"} THEN Into(room[c], c)
    ELSE IF pc[c] \in {"swapping", "dropping"} THEN stale[c] ELSE {}

\* One turn of `for key in stale: pop(key); close()' with keys still to pop.
PopOne(c, keys, k, step) ==
    /\ k \in keys
    /\ forwards[room[c]][k] # 0
    /\ forwards' = [forwards EXCEPT ![room[c]][k] = 0]
    /\ stale' = [stale EXCEPT ![c] = keys \ {k}]
    /\ pc' = [pc EXCEPT ![c] = step]

\* A publish that replaces an upstream closes the downstreams of the old one.
SwapOne(c) ==
    /\ pc[c] \in {"replacing", "swapping"}
    /\ \E k \in DropKeys(c) : PopOne(c, DropKeys(c), k, "swapping")
    /\ UNCHANGED <<joined, lock, made, registered, producers, published, live,
                   room, target>>

\* pop(key) of a key that another handler has popped since the list was made:
\* a KeyError, which ends the connection's message loop.
SwapFails(c) ==
    /\ pc[c] = "swapping"
    /\ \E k \in stale[c] : forwards[room[c]][k] = 0
    /\ pc' = [pc EXCEPT ![c] = "ended"]
    /\ room' = [room EXCEPT ![c] = 0]
    /\ stale' = [stale EXCEPT ![c] = {}]
    /\ UNCHANGED <<joined, lock, made, registered, producers, forwards,
                   published, live, target>>

\* The new upstream takes the place of the old one.
Swapped(c) ==
    /\ pc[c] \in {"replacing", "swapping"}
    /\ DropKeys(c) = {}
    /\ producers' = [producers EXCEPT ![room[c]][c] = published[c]]
    /\ pc' = [pc EXCEPT ![c] = "announcing"]
    /\ UNCHANGED <<joined, lock, made, registered, forwards, published, live,
                   room, target, stale>>

\* SFU_ANSWER and the list of this object's producers have been sent.
AnnounceProducers(c) ==
    /\ pc[c] = "announcing"
    /\ pc' = [pc EXCEPT ![c] = "idle"]
    /\ room' = [room EXCEPT ![c] = 0]
    /\ UNCHANGED <<joined, lock, made, registered, producers, forwards,
                   published, live, target, stale>>

\* SFU_SUBSCRIBE to another peer (the client leaves itself out).  Without the
\* producer the answer is an error, which changes nothing.
RecvSubscribe(c, p) ==
    /\ pc[c] = "idle"
    /\ c \in joined
    /\ p # c
    /\ registered # 0
    /\ producers[registered][p] # 0
    /\ room' = [room EXCEPT ![c] = registered]
    /\ target' = [target EXCEPT ![c] = <<p, producers[registered][p]>>]
    /\ pc' = [pc EXCEPT ![c] = "subscribing"]
    /\ UNCHANGED <<joined, lock, made, registered, producers, forwards,
                   published, live, stale>>

\* The downstream is filed, whatever has become of its producer meanwhile.
File(c) ==
    /\ forwards' = [forwards EXCEPT
                      ![room[c]][<<c, target[c][1]>>] = target[c][2]]
    /\ pc' = [pc EXCEPT ![c] = "idle"]
    /\ room' = [room EXCEPT ![c] = 0]
    /\ target' = [target EXCEPT ![c] = <<c, 0>>]

\* The downstream is negotiated.  An older one under the key is closed first.
Subscribed(c) ==
    /\ pc[c] = "subscribing"
    /\ IF forwards[room[c]][<<c, target[c][1]>>] = 0
       THEN File(c)
       ELSE /\ pc' = [pc EXCEPT ![c] = "resubscribing"]
            /\ UNCHANGED <<forwards, room, target>>
    /\ UNCHANGED <<joined, lock, made, registered, producers, published, live,
                   stale>>

Resubscribed(c) ==
    /\ pc[c] = "resubscribing"
    /\ File(c)
    /\ UNCHANGED <<joined, lock, made, registered, producers, published, live,
                   stale>>

\* The connection is lost or closed, and its message loop ends.
End(c) ==
    /\ pc[c] = "idle"
    /\ pc' = [pc EXCEPT ![c] = "ended"]
    /\ UNCHANGED <<joined, lock, made, registered, producers, forwards,
                   published, live, room, target, stale>>

\* handle_ws's finally when the SFU has nothing for the connection: no room
\* joined, or no SFU room under its id.  Then cleanup_peer runs.
FinallyNoRoom(c) ==
    /\ pc[c] = "ended"
    /\ c \in joined => lock = Nobody /\ registered = 0
    /\ pc' = [pc EXCEPT ![c] = "done"]
    /\ joined' = joined \ {c}
    /\ UNCHANGED <<lock, made, registered, producers, forwards, published,
                   live, room, target, stale>>

\* remove_peer takes the mutex; the upstream is popped and closed.  If there
\* is none the handler goes straight on, which an action of its own allows.
BeginRemove(c) ==
    /\ pc[c] = "ended"
    /\ c \in joined
    /\ lock = Nobody
    /\ registered # 0
    /\ lock' = c
    /\ room' = [room EXCEPT ![c] = registered]
    /\ live' = live \ {<<c, producers[registered][c]>>}
    /\ producers' = [producers EXCEPT ![registered][c] = 0]
    /\ pc' = [pc EXCEPT ![c] = "removing"]
    /\ UNCHANGED <<joined, made, registered, forwards, published, target,
                   stale>>

\* The downstreams of the lost peer's upstream.
DropOne(c) ==
    /\ pc[c] \in {"removing", "dropping"}
    /\ \E k \in DropKeys(c) : PopOne(c, DropKeys(c), k, "dropping")
    /\ UNCHANGED <<joined, lock, made, registered, producers, published, live,
                   room, target>>

\* Mutant of OwnKeys: the second loop finds nothing.
OwnKeysNone(c) == IF pc[c] = "unsubscribing" THEN stale[c] ELSE {}

\* The keys the second loop of remove_peer goes on with.
OwnKeys(c) ==
    IF pc[c] = "unsubscribing" THEN stale[c] ELSE Outof(room[c], c)

\* The downstreams that the lost peer subscribed to.
UnsubscribeOne(c) ==
    /\ pc[c] \in {"removing", "dropping", "unsubscribing"}
    /\ DropKeys(c) = {}
    /\ \E k \in OwnKeys(c) : PopOne(c, OwnKeys(c), k, "unsubscribing")
    /\ UNCHANGED <<joined, lock, made, registered, producers, published, live,
                   room, target>>

\* The KeyError in remove_peer: the mutex is released, and the exception
\* leaves handle_ws's finally before cleanup_peer.
RemoveFails(c) ==
    /\ pc[c] \in {"dropping", "unsubscribing"}
    /\ \E k \in stale[c] : forwards[room[c]][k] = 0
    /\ pc' = [pc EXCEPT ![c] = "failed"]
    /\ lock' = Nobody
    /\ room' = [room EXCEPT ![c] = 0]
    /\ stale' = [stale EXCEPT ![c] = {}]
    /\ UNCHANGED <<joined, made, registered, producers, forwards, published,
                   live, target>>

\* Mutant of Removed: the mutex is not released.
RemovedKeepsLock(c) ==
    /\ pc[c] \in {"removing", "dropping", "unsubscribing"}
    /\ DropKeys(c) = {}
    /\ OwnKeys(c) = {}
    /\ registered' = IF IsEmpty(room[c], forwards) THEN 0 ELSE registered
    /\ joined' = joined \ {c}
    /\ pc' = [pc EXCEPT ![c] = "done"]
    /\ room' = [room EXCEPT ![c] = 0]
    /\ UNCHANGED <<lock, made, producers, forwards, published, live, target,
                   stale>>

\* The end of remove_peer: an empty room leaves the registry.  Then
\* cleanup_peer takes the connection out of the signaling room.
Removed(c) ==
    /\ pc[c] \in {"removing", "dropping", "unsubscribing"}
    /\ DropKeys(c) = {}
    /\ OwnKeys(c) = {}
    /\ registered' = IF IsEmpty(room[c], forwards) THEN 0 ELSE registered
    /\ lock' = Nobody
    /\ joined' = joined \ {c}
    /\ pc' = [pc EXCEPT ![c] = "done"]
    /\ room' = [room EXCEPT ![c] = 0]
    /\ UNCHANGED <<made, producers, forwards, published, live, target, stale>>

Publishing(c) ==
    \/ Negotiated(c)
    \/ SwapOne(c)
    \/ SwapFails(c)
    \/ Swapped(c)
    \/ AnnounceProducers(c)

Subscribing(c) == Subscribed(c) \/ Resubscribed(c)

Ending(c) ==
    \/ FinallyNoRoom(c)
    \/ BeginRemove(c)
    \/ DropOne(c)
    \/ UnsubscribeOne(c)
    \/ RemoveFails(c)
    \/ Removed(c)

Next ==
    \E c \in Clients :
        \/ Leave(c)
        \/ Rejoin(c)
        \/ RecvPublish(c)
        \/ NegotiationFails(c)
        \/ \E p \in Clients : RecvSubscribe(c, p)
        \/ End(c)
        \/ Publishing(c)
        \/ Subscribing(c)
        \/ Ending(c)

Spec == Init /\ [][Next]_vars

\* A negotiation and a close return, and a released asyncio.Lock wakes the
\* first of its finitely many waiters: a handler that has work goes on.
SfuFairness ==
    \A c \in Clients :
        WF_vars(Publishing(c) \/ Subscribing(c)) /\ WF_vars(Ending(c))

FairSpec == Spec /\ SfuFairness

-----------------------------------------------------------------------------
(* Properties. *)

Offered(p) == registered # 0 /\ producers[registered][p] # 0
Forwarded(k) == registered # 0 /\ forwards[registered][k] # 0

\* What has_producer and SFU_PRODUCERS promise a subscriber can be forwarded:
\* every upstream on record is completely negotiated and still open, also while
\* its peer replaces it or is being removed (add_publisher, _drop_producer).
UpstreamsUsable ==
    \A i \in Objects, p \in Clients :
        producers[i][p] # 0 => <<p, producers[i][p]>> \in live

\* Rooms are collected: a registered room with nothing in it is one that a
\* handler is just filling or tidying, or whose publisher failed and is about
\* to be removed (get_or_create, remove_peer, is_empty).
EmptyRoomIsInUse ==
    registered # 0 /\ IsEmpty(registered, forwards) =>
        \E c \in Clients :
            \/ pc[c] \in {"publishing", "replacing", "swapping", "removing",
                          "dropping", "unsubscribing"} /\ room[c] = registered
            \/ pc[c] = "ended" /\ c \in joined

\* After the end of a connection that stayed in its room, the SFU room offers
\* and forwards nothing on its behalf, whatever the other handlers were doing
\* in the room during the removal (SfuRoom.remove_peer).
DeadPeerGone ==
    \A c \in Clients \ Leavers : pc[c] = "done" /\ registered # 0 =>
        producers[registered][c] = 0 /\ Outof(registered, c) = {}

\* A peer's upstream goes out of the room only by a step of the peer's own
\* handler: no removal of another peer, and no collection of the room, takes a
\* running publisher with it.
OnlyOwnerStopsProducing ==
    [][\A p \in Clients : Offered(p) /\ ~Offered(p)' => pc'[p] # pc[p]]_vars

\* A downstream ends only by a step of its subscriber's or its producer's
\* handler.
OnlyAnEndStopsForwarding ==
    [][\A k \in Keys : Forwarded(k) /\ ~Forwarded(k)' =>
          \E e \in {k[1], k[2]} :
              pc'[e] # pc[e] \/ stale'[e] # stale[e]]_vars

\* The removal of a lost peer ends, one way or the other: the mutex, which is
\* held while connections are closed, is always given back.
RemovalOf(c) == pc[c] = "ended" ~> pc[c] \in {"done", "failed"}
RemovalEnds == \A c \in Clients : RemovalOf(c)

=============================================================================

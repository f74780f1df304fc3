-------------------------- MODULE MC_SignalingRooms --------------------------
(* Small instances of SignalingRooms: connections with peer_ids of their     *)
(* own, and connections that share peer_ids.                                 *)
EXTENDS SignalingRooms, TLC

CONSTANTS s1, s2, s3, a, b, c, r1, r2

MCSockets == {s1, s2, s3}
MCPeers == {a, b, c}
MCRooms == {r1, r2}

\* Every connection has a peer_id of its own.
OwnIds == s1 :> {a} @@ s2 :> {b} @@ s3 :> {c}
\* Sockets that share peer_ids: s1 and s2 may be two connections of one client
\* (before and after a reconnect), and s3 may change its peer_id between JOINs.
SharedIds == s1 :> {a} @@ s2 :> {a} @@ s3 :> {a, b}

\* A lost connection is forgotten: its handler ends.  Sockets with peer_ids of
\* their own are interchangeable, so it is enough to follow one of them.
FirstIsForgotten == Forgotten(s1)

\* Rooms are interchangeable.
RoomSymmetry == Permutations(MCRooms)

==============================================================================

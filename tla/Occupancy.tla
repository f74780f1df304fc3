------------------------------ MODULE Occupancy ------------------------------
(***************************************************************************)
(* What the room registry promises, without its handlers, queues and       *)
(* peer_ids: a connection is in one room at a time.  Entering a room takes *)
(* it out of the one it was in; one connection per room may be ousted by   *)
(* that (it used the same peer_id); otherwise connections exit singly.     *)
(***************************************************************************)
CONSTANTS Sockets, Rooms

VARIABLE occupied    \* pairs <<socket, room>>

Init == occupied = {}

Enter(s, r, ousted) ==
    /\ \A x, y \in occupied :
          x[1] \in ousted /\ y[1] \in ousted /\ x[2] = y[2] => x = y
    /\ occupied' = {x \in occupied : x[1] # s /\ x[1] \notin ousted}
                       \cup {<<s, r>>}

Exit(s) ==
    /\ \E r \in Rooms : <<s, r>> \in occupied
    /\ occupied' = {x \in occupied : x[1] # s}

Next ==
    \E s \in Sockets :
       \/ \E r \in Rooms, ousted \in SUBSET (Sockets \ {s}) : Enter(s, r, ousted)
       \/ Exit(s)

Spec == Init /\ [][Next]_occupied

==============================================================================

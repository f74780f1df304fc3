------------------------------- MODULE Community -------------------------------
(***************************************************************************)
(* The social side of the server: friends and contacts (module Friends)    *)
(* and rooms and messages (module Chat) under one event loop and over one  *)
(* database.  Accepting a friend and matching a contact begin in the one   *)
(* and end in the other, with a DM room and a message in it.               *)
(***************************************************************************)
EXTENDS Friends, Chat, TLC

vars == <<req, pc, friendVars, chatVars>>

\* Account 1 has made the room that is there at the start.
ASSUME FounderAssumption == 1 \in Users

Steps == {"new", "done"} \cup FriendSteps \cup ChatSteps

TypeOK ==
    /\ FriendsTypeOK
    /\ ChatTypeOK
    /\ req \in [Requests -> FriendCalls \cup ChatCalls \cup {NoRequest}]
    /\ pc \in [Requests -> Steps]

\* What two accounts may be to one another when the requests come, and what
\* they have done for it.
Strangers == [rows |-> {}, asked |-> {}]
Waiting(u, v) == [rows |-> {<<u, v, "pending">>}, asked |-> {<<u, v>>}]
Friendly(u, v) == [rows |-> {<<u, v, "accepted">>, <<v, u, "accepted">>},
                   asked |-> {<<u, v>>, <<v, u>>}]
Blocking(u, v) == [rows |-> {<<u, v, "blocked">>}, asked |-> {}]
PastsOf(u, v) == IF u < v THEN {Waiting(u, v), Friendly(u, v), Blocking(u, v)}
                          ELSE {Strangers}
Pasts == {Strangers} \cup UNION {PastsOf(u, v) : u, v \in Users}

\* One room is there already, made by account 1's JOIN of its code, with
\* one message; no request has come yet.
Init ==
    /\ req = [r \in Requests |-> NoRequest]
    /\ pc = [r \in Requests |-> "new"]
    /\ \E past \in Pasts :
          /\ friend = [u \in Users |-> [v \in Users |->
                IF \E s \in Statuses : <<u, v, s>> \in past.rows
                THEN CHOOSE s \in Statuses : <<u, v, s>> \in past.rows
                ELSE "none"]]
          /\ asked = past.asked
    /\ contacts = {}
    /\ seen = [r \in Requests |-> "none"]
    /\ \E c \in Typed :
          /\ owner = [d \in Rooms |-> IF d = c THEN 1 ELSE 0]
          /\ member = [d \in Rooms |-> [v \in Users |->
                         IF d = c /\ v = 1 THEN "active" ELSE "none"]]
          /\ messages = <<[room |-> c, by |-> 1, deleted |-> FALSE]>>
    /\ cursor = [u \in Users |-> [c \in Rooms |-> 0]]
    /\ entered = [r \in Requests |-> {}]
    /\ filed = [r \in Requests |-> {}]

OfFriends(r) ==
    (FriendRequest(r) \/ FriendStatement(r)) /\ UNCHANGED chatVars
OfChat(r) ==
    (ChatRequest(r) \/ ChatStatement(r)) /\ UNCHANGED friendVars

Next == \E r \in Requests : OfFriends(r) \/ OfChat(r)

Spec == Init /\ [][Next]_vars

\* Requests are interchangeable, and so are the codes that are typed.
Symmetry == Permutations(Requests) \cup Permutations(Typed)

===============================================================================

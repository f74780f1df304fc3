-------------------------------- MODULE Friends --------------------------------
(***************************************************************************)
(* Friend requests, blocks and contacts: server/api/friends_handlers.py,   *)
(* friends_by_username_handler.py and contacts_handlers.py over the tables *)
(* friends, a row for each direction, and user_contacts.  A contact is a   *)
(* phone number in the code; here it is the account that has the number.   *)
(* Accepting and matching go on to the DM room of the two (module Chat).   *)
(***************************************************************************)
EXTENDS Handlers

VARIABLES
    friend,      \* friend[u][v]: status of the row (u, v), none: no row
    contacts,    \* <<u, v>>: u has stored the number of v
    seen,        \* seen[r]: what get_friend returned to accept or block
    asked        \* history: <<u, v>> when u ever asked v, accepted a request of
                 \* v's or stored v as a contact

friendVars == <<friend, contacts, seen, asked>>

Statuses == {"none", "pending", "accepted", "blocked", "removed"}

FriendsTypeOK ==
    /\ friend \in [Users -> [Users -> Statuses]]
    /\ contacts \subseteq Users \X Users
    /\ seen \in [Requests -> Statuses]
    /\ asked \subseteq Users \X Users

\* What arrives here: one account about another.
FriendCalls == [kind : {"ask", "by name", "accept", "reject", "block", "remove",
                        "contact"}, from : Users, to : Users]

\* The statements of these handlers, up to those of the DM room.
FriendSteps ==
    {"ask", "ask again", "by name", "insert pending", "accept", "reverse",
     "write reverse", "reject", "block", "write block", "remove",
     "remove theirs", "contact", "match", "match own", "match theirs"}

From(r) == req[r].from
To(r) == req[r].to

\* The rows between the two that r is about: of its sender, and of the other.
Own(r) == friend[From(r)][To(r)]
Theirs(r) == friend[To(r)][From(r)]

SetOwn(r, status) == friend' = [friend EXCEPT ![From(r)][To(r)] = status]
SetTheirs(r, status) == friend' = [friend EXCEPT ![To(r)][From(r)] = status]

-----------------------------------------------------------------------------
\* Requests arrive, each from one account about another.

About(r, kind, first) ==
    \E u, v \in Users :
       /\ u # v
       /\ Arrive(r, [kind |-> kind, from |-> u, to |-> v], first)
       /\ asked' = IF kind \in {"ask", "by name", "accept", "contact"}
                   THEN asked \cup {<<u, v>>} ELSE asked
       /\ UNCHANGED <<friend, contacts, seen>>

RecvAsk(r) == About(r, "ask", "ask")
RecvByName(r) == About(r, "by name", "by name")
RecvAccept(r) == About(r, "accept", "accept")
RecvReject(r) == About(r, "reject", "reject")
RecvBlock(r) == About(r, "block", "block")
RecvRemove(r) == About(r, "remove", "remove")
RecvContact(r) == About(r, "contact", "contact")

-----------------------------------------------------------------------------
\* handle_request_friend: get_friend, then the row is updated or inserted.

AskLookup(r) ==
    /\ Goto(r, "ask", IF Own(r) = "none" THEN "insert pending"
                      ELSE IF Own(r) = "removed" THEN "ask again" ELSE "done")
    /\ UNCHANGED <<req, friend, contacts, seen, asked>>

\* update_status does not look at the status it replaces.
AskAgain(r) ==
    /\ Goto(r, "ask again", "done")
    /\ SetOwn(r, "pending")
    /\ UNCHANGED <<req, contacts, seen, asked>>

\* handle_add_friend_by_username: no difference is made for other statuses.
ByNameLookup(r) ==
    /\ Goto(r, "by name", IF Own(r) \in {"accepted", "pending"} THEN "done"
                                                       ELSE "insert pending")
    /\ UNCHANGED <<req, friend, contacts, seen, asked>>

\* insert_friend: UNIQUE (user_id, friend_user_id) refuses a second row.
InsertPending(r) ==
    /\ Goto(r, "insert pending", "done")
    /\ IF Own(r) = "none" THEN SetOwn(r, "pending") ELSE UNCHANGED friend
    /\ UNCHANGED <<req, contacts, seen, asked>>

-----------------------------------------------------------------------------
\* handle_accept_friend: the sender's row, then the row of the one who accepts.

\* Mutant of AcceptPending: the UPDATE does not ask for status = 'pending'.
AcceptAny(r) ==
    LET row == Theirs(r) # "none"
    IN  /\ Goto(r, "accept", IF row THEN "reverse" ELSE "done")
        /\ IF row THEN SetTheirs(r, "accepted") ELSE UNCHANGED friend
        /\ UNCHANGED <<req, contacts, seen, asked>>

AcceptPending(r) ==
    LET pending == Theirs(r) = "pending"
    IN  /\ Goto(r, "accept", IF pending THEN "reverse" ELSE "done")
        /\ IF pending THEN SetTheirs(r, "accepted") ELSE UNCHANGED friend
        /\ UNCHANGED <<req, contacts, seen, asked>>

ReverseLookup(r) ==
    /\ Goto(r, "reverse", "write reverse")
    /\ seen' = [seen EXCEPT ![r] = Own(r)]
    /\ UNCHANGED <<req, friend, contacts, asked>>

\* An insert that fails is logged, and the request goes on.
WriteReverse(r) ==
    /\ Goto(r, "write reverse", "dm lookup")
    /\ IF seen[r] # "none" \/ Own(r) = "none" THEN SetOwn(r, "accepted")
                                              ELSE UNCHANGED friend
    /\ UNCHANGED <<req, contacts, seen, asked>>

-----------------------------------------------------------------------------
\* handle_reject_friend: update_status of the sender's row, whatever it says.
Reject(r) ==
    /\ Goto(r, "reject", "done")
    /\ IF Theirs(r) # "none" THEN SetTheirs(r, "removed") ELSE UNCHANGED friend
    /\ UNCHANGED <<req, contacts, seen, asked>>

\* handle_block_friend
BlockLookup(r) ==
    /\ Goto(r, "block", "write block")
    /\ seen' = [seen EXCEPT ![r] = Own(r)]
    /\ UNCHANGED <<req, friend, contacts, asked>>

WriteBlock(r) ==
    /\ Goto(r, "write block", "done")
    /\ IF seen[r] # "none" \/ Own(r) = "none" THEN SetOwn(r, "blocked")
                                              ELSE UNCHANGED friend
    /\ UNCHANGED <<req, contacts, seen, asked>>

\* handle_remove_friend: both rows, one after the other.
RemoveOwn(r) ==
    /\ Goto(r, "remove", "remove theirs")
    /\ IF Own(r) # "none" THEN SetOwn(r, "removed") ELSE UNCHANGED friend
    /\ UNCHANGED <<req, contacts, seen, asked>>

RemoveTheirs(r) ==
    /\ Goto(r, "remove theirs", "done")
    /\ IF Theirs(r) # "none" THEN SetTheirs(r, "removed") ELSE UNCHANGED friend
    /\ UNCHANGED <<req, contacts, seen, asked>>

-----------------------------------------------------------------------------
\* handle_upsert_contact, and _attempt_bidirectional_match: two that have each
\* other's number become friends.

UpsertContact(r) ==
    /\ Goto(r, "contact", "match")
    /\ contacts' = contacts \cup {<<From(r), To(r)>>}
    /\ UNCHANGED <<req, friend, seen, asked>>

\* list_owners_with_contact
Match(r) ==
    /\ Goto(r, "match", IF <<To(r), From(r)>> \in contacts THEN "match own"
                                                           ELSE "done")
    /\ UNCHANGED <<req, friend, contacts, seen, asked>>

MatchOwn(r) ==
    /\ Goto(r, "match own", "match theirs")
    /\ IF Own(r) = "none" THEN SetOwn(r, "accepted") ELSE UNCHANGED friend
    /\ UNCHANGED <<req, contacts, seen, asked>>

MatchTheirs(r) ==
    /\ Goto(r, "match theirs", "dm lookup")
    /\ IF Theirs(r) = "none" THEN SetTheirs(r, "accepted") ELSE UNCHANGED friend
    /\ UNCHANGED <<req, contacts, seen, asked>>

FriendRequest(r) ==
    \/ RecvAsk(r) \/ RecvByName(r) \/ RecvAccept(r) \/ RecvReject(r)
    \/ RecvBlock(r) \/ RecvRemove(r) \/ RecvContact(r)
FriendStatement(r) ==
    \/ AskLookup(r) \/ AskAgain(r) \/ ByNameLookup(r) \/ InsertPending(r)
    \/ AcceptPending(r) \/ ReverseLookup(r) \/ WriteReverse(r)
    \/ Reject(r) \/ BlockLookup(r) \/ WriteBlock(r)
    \/ RemoveOwn(r) \/ RemoveTheirs(r)
    \/ UpsertContact(r) \/ Match(r) \/ MatchOwn(r) \/ MatchTheirs(r)

-----------------------------------------------------------------------------
\* Properties

\* Nobody is anybody's friend against their will: a row says accepted only when
\* both have, at some time, asked for it, accepted it or stored the other as a
\* contact, whatever requests of the two run into one another
\* (friends_handlers.py:327-361, contacts_handlers.py:80-99).
AcceptedWasWanted ==
    \A u, v \in Users :
       friend[u][v] = "accepted" => {<<u, v>>, <<v, u>>} \subseteq asked

\* A reject refuses a request that is pending: what a friend or a block of the
\* other's is stays as it is (friends_handlers.py:403 "pending -> removed").
RejectRefusesRequests ==
    [][\A r \in Requests :
          /\ pc[r] = "reject" /\ pc'[r] = "done"
          /\ Theirs(r)' # Theirs(r)
          => Theirs(r) = "pending"]_<<friend, req, pc>>

===============================================================================

----------------------------- MODULE FriendDialogs -----------------------------
(***************************************************************************)
(* The dialogs of the desktop that make friends and rooms: search and ask, *)
(* answer those who asked, invite into a room and create one.  Calls to    *)
(* the server are tasks whose answers come in any order, to dialogs that   *)
(* may have closed meanwhile.  The handlers of the server are one step     *)
(* here; module Friends has their own.                                     *)
(***************************************************************************)
EXTENDS Naturals

CONSTANTS People,      \* other accounts
          Myself,      \* the account logged in
          Known,       \* friends in the list of chats
          MaxDialogs,  \* dialogs opened (bound)
          MaxCalls     \* calls in flight at once (bound)

ASSUME DialogsAssumption == Known \subseteq People /\ Myself \notin People

VARIABLES
    dialog,     \* what is open: [kind, n]; n tells one dialog from the next
    results,    \* people the friend search shows
    selected,   \* currentItem of its list, or nobody
    requests,   \* rows shown: [asker, userId]
    picked,     \* _selected_ids of the new group
    calls,      \* calls in flight: [slot, what, who, whom, n, stage]
    incoming,   \* incoming[p]: status of the row (p, Myself) at the server
    outgoing,   \* outgoing[p]: status of the row (Myself, p)
    creation,   \* the task that creates a room: [at, left, chosen, refused]
    members,    \* members of the room at the server, none: there is no room
    entered     \* the chat that opened after it: none, room or placeholder

dialogVars == <<dialog, results, selected, requests, picked, calls, incoming, outgoing,
                creation, members, entered>>

NoPerson == "nobody"
Shut == "none"
NoCreation == [at |-> "none", left |-> {}, chosen |-> {}, refused |-> {}]
serverVars == <<incoming, outgoing, members>>
groupVars == <<picked, creation, entered>>
shownVars == <<results, selected, requests>>

\* A call takes a free slot, so that two clicks are two calls.
Free == (1 .. MaxCalls) \ {c.slot : c \in calls}
Call(what, who, n) ==
    [slot |-> CHOOSE i \in Free : \A j \in Free : i <= j, what |-> what, who |-> who,
     whom |-> {}, n |-> n, stage |-> "sent"]

-----------------------------------------------------------------------------
(* Dialogs open and close.                                                 *)

\* A new dialog has empty lists; the one of requests asks for its rows.
Open(kind, what) ==
    /\ dialog.kind = Shut /\ dialog.n < MaxDialogs
    /\ dialog' = [kind |-> kind, n |-> dialog.n + 1]
    /\ results' = {} /\ selected' = NoPerson /\ requests' = {} /\ picked' = {}
    /\ IF what = "nothing" THEN UNCHANGED calls
       ELSE Free # {} /\ calls' = calls \cup {Call(what, NoPerson, dialog'.n)}
    /\ UNCHANGED <<serverVars, creation, entered>>

OpenAddFriend == Open("add", "nothing")
OpenPendingRequests == Open("pending", "pending")
OpenNewGroup == Open("group", "nothing")

\* The lists go with their dialog.
Shutting ==
    /\ dialog' = [dialog EXCEPT !.kind = Shut]
    /\ results' = {} /\ selected' = NoPerson /\ requests' = {} /\ picked' = {}

CloseDialog ==
    /\ dialog.kind # Shut
    /\ Shutting
    /\ UNCHANGED <<creation, entered, calls, serverVars>>

Request(what, who) ==
    /\ Free # {}
    /\ calls' = calls \cup {Call(what, who, dialog.n)}

-----------------------------------------------------------------------------
(* What the user does.                                                     *)

SearchClicked ==
    /\ dialog.kind = "add"
    /\ Request("search", NoPerson)
    /\ UNCHANGED <<dialog, shownVars, groupVars, serverVars>>

SelectPerson(p) ==
    /\ dialog.kind = "add" /\ p \in results
    /\ selected' = p
    /\ UNCHANGED <<dialog, results, requests, groupVars, calls, serverVars>>

\* Nothing selected: the click is ignored.
RequestClicked ==
    /\ dialog.kind = "add" /\ selected # NoPerson
    /\ Request("ask", selected)
    /\ UNCHANGED <<dialog, shownVars, groupVars, serverVars>>

\* The buttons of a row call with the user id the row was built with; they
\* stay enabled until the answer.
RowClicked(what, row) ==
    /\ dialog.kind = "pending" /\ row \in requests
    /\ Request(what, row.userId)
    /\ UNCHANGED <<dialog, shownVars, groupVars, serverVars>>

\* A row as the server lists it: the request of p.
FriendProfile(p) == [userId |-> p, friendUserId |-> Myself]

\* The row names the peer of the relation first: of a request that came in,
\* that is the one it was sent to.
RowUserId(friendRow) == friendRow.friendUserId

FriendClicked(p) ==
    /\ dialog.kind = "group" /\ p \in Known
    /\ picked' = IF p \in picked THEN picked \ {p} ELSE picked \cup {p}
    /\ UNCHANGED <<dialog, shownVars, calls, serverVars, creation, entered>>

\* A picture is uploaded first; the room is made whether that works or not.
CreateRoomWithAvatar(at) == [at |-> at, left |-> picked, chosen |-> picked, refused |-> {}]

\* _on_create emits the group before it accepts the dialog.
CreateClicked ==
    /\ dialog.kind = "group" /\ creation = NoCreation
    /\ \E at \in {"upload", "create"} : creation' = CreateRoomWithAvatar(at)
    /\ Shutting
    /\ UNCHANGED <<entered, calls, serverVars>>

-----------------------------------------------------------------------------
(* The server.                                                             *)

Answer(c, stage, whom) ==
    calls' = (calls \ {c}) \cup {[c EXCEPT !.stage = stage, !.whom = whom]}

\* Whose request to me waits for an answer.
ListPendingRequests == {p \in People : incoming[p] = "pending"}

\* Anyone's name may match; handle_search_user leaves the asker out.
SearchUsersByUsername == SUBSET (People \cup {Myself})
HandleSearchUser == {found \ {Myself} : found \in SearchUsersByUsername}

\* The two lists are read when the server comes to the call.
ServeSearch(c) ==
    /\ c.stage = "sent" /\ c.what = "search"
    /\ \E found \in HandleSearchUser : Answer(c, "ok", found)
    /\ UNCHANGED <<dialog, shownVars, groupVars, serverVars>>

ServePending(c) ==
    /\ c.stage = "sent" /\ c.what = "pending"
    /\ Answer(c, "ok", ListPendingRequests)
    /\ UNCHANGED <<dialog, shownVars, groupVars, serverVars>>

\* A relation that exists already is a conflict, unless it was removed.
ServeAsk(c) ==
    /\ c.stage = "sent" /\ c.what = "ask"
    /\ LET new == outgoing[c.who] \in {"none", "removed"}
       IN  /\ Answer(c, IF new THEN "ok" ELSE "conflict", {})
           /\ outgoing' = [outgoing EXCEPT ![c.who] = IF new THEN "pending" ELSE @]
    /\ UNCHANGED <<dialog, shownVars, groupVars, incoming, members>>

\* The id in the path is that of the sender; no row from it is a 404.
ServeAccept(c) ==
    /\ c.stage = "sent" /\ c.what = "accept"
    /\ IF c.who \in People /\ incoming[c.who] = "pending"
       THEN /\ incoming' = [incoming EXCEPT ![c.who] = "accepted"]
            /\ outgoing' = [outgoing EXCEPT ![c.who] = "accepted"]
            /\ Answer(c, "ok", {})
       ELSE Answer(c, "not found", {}) /\ UNCHANGED <<incoming, outgoing>>
    /\ UNCHANGED <<dialog, shownVars, groupVars, members>>

ServeReject(c) ==
    /\ c.stage = "sent" /\ c.what = "reject"
    /\ IF c.who \in People /\ incoming[c.who] # "none"
       THEN incoming' = [incoming EXCEPT ![c.who] = "removed"] /\ Answer(c, "ok", {})
       ELSE Answer(c, "not found", {}) /\ UNCHANGED incoming
    /\ UNCHANGED <<dialog, shownVars, groupVars, outgoing, members>>

SomebodyAsks(p) ==
    /\ incoming[p] \in {"none", "removed"}
    /\ incoming' = [incoming EXCEPT ![p] = "pending"]
    /\ UNCHANGED <<dialog, shownVars, groupVars, calls, outgoing, members>>

-----------------------------------------------------------------------------
(* Answers reach the desktop.                                              *)

Done(c) == c \in calls /\ calls' = calls \ {c}
OfThis(c) == dialog.kind # Shut /\ dialog.n = c.n

\* set_search_results: the list is built again, and nothing is selected.
ShowResults(c) ==
    /\ Done(c) /\ c.what = "search" /\ c.stage # "sent"
    /\ IF OfThis(c) THEN results' = c.whom /\ selected' = NoPerson
                    ELSE UNCHANGED <<results, selected>>
    /\ UNCHANGED <<dialog, requests, groupVars, serverVars>>

\* populate
ShowRows(c) ==
    /\ Done(c) /\ c.what = "pending" /\ c.stage # "sent"
    /\ requests' = IF ~OfThis(c) THEN requests
               ELSE {[asker |-> p, userId |-> RowUserId(FriendProfile(p))] : p \in c.whom}
    /\ UNCHANGED <<dialog, results, selected, groupVars, serverVars>>

\* Both a new request and a conflict close the dialog.
Asked(c) ==
    /\ Done(c) /\ c.what = "ask" /\ c.stage # "sent"
    /\ IF OfThis(c) /\ c.stage \in {"ok", "conflict"}
       THEN Shutting ELSE UNCHANGED <<dialog, shownVars, picked>>
    /\ UNCHANGED <<creation, entered, serverVars>>

RemoveRow(id) == {row \in requests : row.userId # id}

\* A refusal leaves the row and shows a warning.
Resolved(c) ==
    /\ Done(c) /\ c.what \in {"accept", "reject"} /\ c.stage # "sent"
    /\ requests' = IF c.stage = "ok" /\ OfThis(c)
               THEN RemoveRow(c.who) ELSE requests
    /\ UNCHANGED <<dialog, results, selected, groupVars, serverVars>>

\* The network fails before or after the server came to the call.
Lose(c) ==
    /\ c.stage # "failed"
    /\ Answer(c, "failed", {})
    /\ UNCHANGED <<dialog, shownVars, groupVars, serverVars>>

-----------------------------------------------------------------------------
(* _create_room_async: the room, then each of the picked friends.          *)

NothingElse == UNCHANGED <<dialog, shownVars, picked, calls, incoming, outgoing>>

CreateRoomChain ==
    /\ creation.at = "upload"
    /\ creation' = [creation EXCEPT !.at = "create"]
    /\ UNCHANGED <<members, entered>>
    /\ NothingElse

\* The server files the one who creates as a member.
RoomMade == members' = {Myself}

CreateRoom ==
    /\ creation.at = "create"
    /\ RoomMade
    /\ \/ creation' = [creation EXCEPT !.at = "invite"] /\ UNCHANGED entered
       \/ creation' = NoCreation /\ entered' = "placeholder"   \* its answer is lost
    /\ NothingElse

CreateFails ==
    /\ creation.at = "create"
    /\ creation' = NoCreation /\ entered' = "placeholder"
    /\ UNCHANGED members
    /\ NothingElse

InviteOne(p) ==
    /\ creation.at = "invite" /\ p \in creation.left
    /\ members' = members \cup {p}
    /\ creation' = [creation EXCEPT !.left = @ \ {p}]
    /\ UNCHANGED entered
    /\ NothingElse

\* Mutant of AfterRefusal: the first invitation that fails ends them all.
StopsInviting(p) == [creation EXCEPT !.left = {}, !.refused = @ \cup {p}]

\* RoomsClientError: of a refusal, and of the network, where the server may
\* have added the friend nevertheless.
AfterRefusal(p) == [creation EXCEPT !.left = @ \ {p}, !.refused = @ \cup {p}]

InviteFails(p) ==
    /\ creation.at = "invite" /\ p \in creation.left
    /\ creation' = AfterRefusal(p)
    /\ members' \in {members, members \cup {p}}
    /\ UNCHANGED entered
    /\ NothingElse

\* _add_server_room_entry
EnterRoom ==
    /\ creation.at = "invite" /\ creation.left = {}
    /\ creation' = [creation EXCEPT !.at = "entered"]
    /\ entered' = "room"
    /\ UNCHANGED members
    /\ NothingElse

DialogsInit ==
    /\ dialog = [kind |-> Shut, n |-> 0]
    /\ results = {} /\ selected = NoPerson /\ requests = {} /\ picked = {} /\ calls = {}
    /\ incoming = [p \in People |-> "none"] /\ outgoing = [p \in People |-> "none"]
    /\ creation = NoCreation /\ members = {} /\ entered = "none"

DialogsNext ==
    \/ OpenAddFriend \/ OpenPendingRequests \/ OpenNewGroup \/ CloseDialog
    \/ SearchClicked \/ RequestClicked \/ CreateClicked
    \/ \E row \in requests, what \in {"accept", "reject"} : RowClicked(what, row)
    \/ \E p \in People :
          \/ SelectPerson(p) \/ FriendClicked(p) \/ SomebodyAsks(p)
          \/ InviteOne(p) \/ InviteFails(p)
    \/ \E c \in calls :
          \/ ServeSearch(c) \/ ServePending(c) \/ ServeAsk(c) \/ ServeAccept(c)
          \/ ServeReject(c) \/ Lose(c)
          \/ ShowResults(c) \/ ShowRows(c) \/ Asked(c) \/ Resolved(c)
    \/ CreateRoomChain \/ CreateRoom \/ CreateFails \/ EnterRoom

DialogsSpec == DialogsInit /\ [][DialogsNext]_dialogVars

-----------------------------------------------------------------------------
(* Properties.                                                             *)

SearchResults == SUBSET People
CallRows ==
    [slot : 1 .. MaxCalls, what : {"search", "ask", "pending", "accept", "reject"},
     who : People \cup {Myself, NoPerson}, whom : SUBSET People, n : 1 .. MaxDialogs,
     stage : {"sent", "ok", "conflict", "not found", "failed"}]

(* What the dialogs hold; only people that were found can be selected.     *)
DialogsTypeOK ==
    /\ dialog \in [kind : {Shut, "add", "pending", "group"}, n : 0 .. MaxDialogs]
    /\ results \in SearchResults /\ selected \in results \cup {NoPerson}
    /\ requests \subseteq [asker : People, userId : People \cup {Myself}]
    /\ picked \subseteq Known
    /\ calls \subseteq CallRows
    /\ incoming \in [People -> {"none", "pending", "accepted", "removed"}]
    /\ outgoing \in [People -> {"none", "pending", "accepted", "removed"}]
    /\ creation \in [at : {"none", "upload", "create", "invite", "entered"}, left : SUBSET Known,
                     chosen : SUBSET Known, refused : SUBSET Known]
    /\ members \subseteq Known \cup {Myself} /\ entered \in {"none", "room", "placeholder"}

(* A room the desktop enters after it created it has every friend that was *)
(* picked, but those whose own invitation failed, and nobody else.         *)
RoomIsWhole ==
    creation.at = "entered" =>
        /\ creation.chosen \ creation.refused \subseteq members
        /\ members \subseteq creation.chosen \cup {Myself}

(* What the client says of accept_friend: the id is that of the sender.    *)
(* So the server turns an accept down only if the one whose row was        *)
(* clicked asks no longer; in a dialog of one row, there is no doubt who.  *)
AcceptIsOfTheAsker ==
    [][\A c \in calls, row \in requests :
          (/\ c.what = "accept" /\ c.stage = "sent" /\ OfThis(c)
           /\ requests = {row}
           /\ [c EXCEPT !.stage = "not found"] \in calls')
          => incoming[row.asker] # "pending"]_dialogVars

=============================================================================

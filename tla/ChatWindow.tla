----------------------------- MODULE ChatWindow -----------------------------
(***************************************************************************)
(* The conversation part of the desktop window (app/ui/_chat_*_mixin.py,   *)
(* chat_view.py, db/messages_cache.py): one view shared by all chats, the  *)
(* per-chat history kept in memory, the SQLite cache on disk, and the      *)
(* requests to the server that are awaited in between.  The handlers of    *)
(* the window run to completion; a coroutine gives up the thread at each   *)
(* request, so the user may change chat, or account, before the answer is  *)
(* shown.                                                                  *)
(*                                                                         *)
(* A text is the number of its entry in `said'; a text the server stored   *)
(* has the position in `server' as its id.  A room of the server is the    *)
(* set of the accounts that share it: {a} holds the notes a keeps for      *)
(* itself, {a, Bot} its talk with the support bot.  An entry of the view   *)
(* is <<"here", n>> (typed here, with the local clock) or <<"server", n>>  *)
(* (fetched, with the clock of the server).                                *)
(***************************************************************************)
EXTENDS Integers, FiniteSets, Sequences, FiniteSetsExt, SequencesExt

CONSTANTS Accounts,   \* accounts that log in on this desktop
          Friends,    \* accounts they chat with
          Tasks,      \* requests that may be in flight at once (bound)
          MaxSaid     \* texts ever said (bound)

ASSUME AccountsAssumption ==
    Accounts \subseteq Nat \ {0} /\ Friends \subseteq Nat \ {0} /\ Accounts \cap Friends = {}
ASSUME MaxSaidAssumption == MaxSaid \in Nat

Nobody == 0
Bot == 0
Saved == <<"saved", 0>>
BotChat == <<"bot", 1>>
NoChat == <<"none", 0>>
FriendChat(f) == <<"friend", f>>
Chats == {Saved, BotChat} \cup {FriendChat(f) : f \in Friends}

VARIABLES
    me,         \* _current_user_id, and _session_token with it
    active,     \* _active_chat_kind, _active_chat_target_id
    view,       \* the bubbles of _chat_view
    displayed,  \* _displayed_msg_ids
    viewRoom,   \* _active_room_id of the view, a room number of the cache
    history,    \* _dm_history
    cache,      \* table messages_cache: [id, room, text]
    oldest,     \* table sync_state: room number -> min_msg_id, 0 if none
    tasks,      \* the coroutines waiting for the server
    marked,     \* message ids the window told the server it has read
    said,       \* the room each text was said in
    server      \* the texts the server stored, in the order of their ids

vars == <<me, active, view, displayed, viewRoom, history, cache, oldest, tasks,
          marked, said, server>>

-----------------------------------------------------------------------------
(* Rooms, and the numbers the cache gives them.                            *)

SelfId == IF me = Nobody THEN 1 ELSE me

KindRoomLocal(chat) ==
    CASE chat[1] = "saved"  -> SelfId * 100 + 1
      [] chat[1] = "bot"    -> SelfId * 10 + 2
      [] chat[1] = "friend" -> chat[2] * 100 + 3
      [] OTHER              -> chat[2] * 100 + 9

LocalRooms == {a * 100 + 1 : a \in Accounts \cup {1}} \cup {a * 10 + 2 : a \in Accounts \cup {1}}
                 \cup {f * 100 + 3 : f \in Friends}

RoomOf(as, chat) ==
    CASE chat[1] = "saved"  -> {as}
      [] chat[1] = "bot"    -> {as, Bot}
      [] chat[1] = "friend" -> {as, chat[2]}

Here(n) == <<"here", n>>
OnServer(n) == <<"server", n>>

\* The ids of the texts of a room, and the entries a page of ids is shown as.
IdsOf(room) == {i \in DOMAIN server : said[server[i]] = room}
Shown(ids) == {OnServer(server[i]) : i \in ids}

-----------------------------------------------------------------------------
(* The cache on disk.                                                      *)

CacheRows == [id : 0..Len(server), room : LocalRooms, text : 0..Len(said)]

\* INSERT OR IGNORE: the primary key is the message id alone.
InsertMessages(rows) ==
    cache' = cache \cup {r \in rows : \A q \in cache : q.id # r.id}

\* The cursor of the room moves even when the row was ignored; id 0 never counts.
UpdateSyncState(rows) ==
    oldest' = [room \in LocalRooms |->
                 LET ids == {r.id : r \in {q \in rows : q.room = room /\ q.id > 0}}
                     old == IF oldest[room] = 0 THEN {} ELSE {oldest[room]}
                 IN  IF ids \cup old = {} THEN 0 ELSE Min(ids \cup old)]

Rows(ids, room) == {[id |-> i, room |-> room, text |-> server[i]] : i \in ids}

ListMessagesByRoom(room) == {r \in cache : r.room = room}

CacheEntry(r) == IF r.id > 0 THEN OnServer(r.text) ELSE Here(r.text)

\* What a chat shows from the disk when nothing of it is in memory.
LoadLocalHistory(chat) == {CacheEntry(r) : r \in ListMessagesByRoom(KindRoomLocal(chat))}

-----------------------------------------------------------------------------
(* Coroutines.  A task is [step, as, with, ids, text]: what it waits for,  *)
(* the account whose token it captured, the friend (or the account itself) *)
(* it asks for, the ids of the page it was given, the text it posts.       *)

Idle == [step |-> "idle", as |-> Nobody, with |-> 0, ids |-> {}, text |-> 0]
Task(step, as, with, text) == [step |-> step, as |-> as, with |-> with, ids |-> {}, text |-> text]

FreeTasks == {t \in Tasks : tasks[t] = Idle}

\* asyncio.ensure_future: a coroutine without a token returns at once.
Ensure(task) ==
    IF task.as = Nobody THEN UNCHANGED tasks
    ELSE \E t \in FreeTasks : tasks' = [tasks EXCEPT ![t] = task]

Finish(t) == tasks' = [tasks EXCEPT ![t] = Idle]

\* The fetch that belongs to a chat.
FetchOf(chat) ==
    CASE chat[1] = "friend" -> Task("fetch", me, chat[2], 0)
      [] chat[1] = "saved"  -> Task("fetch", me, me, 0)
      [] chat[1] = "bot"    -> Task("fetchBot", me, 0, 0)

ClearView == view' = {} /\ displayed' = {}

-----------------------------------------------------------------------------
(* Actions of the user.                                                    *)

SetActiveRoom(chat) == viewRoom' = KindRoomLocal(chat)

\* _on_chat_selected: start the fetch, then show what is in memory, or else on disk.
Select(chat) ==
    /\ me # Nobody
    /\ Ensure(FetchOf(chat))
    /\ active' = chat
    /\ view' = IF history[chat] # {} THEN history[chat] ELSE LoadLocalHistory(chat)
    /\ displayed' = {}
    /\ SetActiveRoom(chat)
    /\ UNCHANGED <<me, history, cache, oldest, marked, said, server>>

\* _append_dm_message: into memory, onto the disk without an id, and onto the
\* screen if its chat is the one shown.
AppendDm(chat, n) ==
    LET row == [id |-> 0, room |-> KindRoomLocal(chat), text |-> n]
    IN  /\ history' = [history EXCEPT ![chat] = @ \cup {Here(n)}]
        /\ InsertMessages({row})
        /\ view' = IF active = chat THEN view \cup {Here(n)} ELSE view

\* _on_send_clicked: a note is posted over REST and a question goes to the bot;
\* the mesh and the messages client of the other chats are not injected.
Send ==
    LET n == Len(said) + 1
    IN  /\ me # Nobody /\ active # NoChat
        /\ Len(said) < MaxSaid
        /\ said' = Append(said, RoomOf(me, active))
        /\ AppendDm(active, n)
        /\ CASE active[1] = "bot"   -> Ensure(Task("postBot", me, 0, n))
             [] active[1] = "saved" -> Ensure(Task("postNote", me, me, n))
             [] OTHER               -> UNCHANGED tasks
        /\ UNCHANGED <<me, active, displayed, viewRoom, oldest, marked, server>>

MinDisplayedMsgId == Min(displayed)

\* _on_lazy_load_requested: older rows of the room of the view from the disk, or,
\* when there is nothing older, the fetch of the chat that is open.
LazyLoad ==
    LET cursor == IF displayed # {} THEN MinDisplayedMsgId ELSE oldest[viewRoom]
        rows == {r \in ListMessagesByRoom(viewRoom) : r.id < cursor}
        new == {r \in rows : r.id \notin displayed}
    IN  /\ me # Nobody /\ viewRoom # 0
        /\ IF cursor <= 1
             THEN Ensure(FetchOf(active)) /\ UNCHANGED <<view, displayed>>
             ELSE /\ rows # {}
                  /\ view' = view \cup {CacheEntry(r) : r \in new}
                  /\ displayed' = displayed \cup {r.id : r \in {q \in new : q.id > 0}}
                  /\ UNCHANGED tasks
        /\ UNCHANGED <<me, active, viewRoom, history, cache, oldest, marked, said, server>>

\* _on_chat_clear: the screen and the memory, not the disk.
Clear ==
    /\ me # Nobody /\ active # NoChat
    /\ ClearView
    /\ history' = [history EXCEPT ![active] = {}]
    /\ UNCHANGED <<me, active, viewRoom, cache, oldest, tasks, marked, said, server>>

\* _on_chat_leave: the entry leaves the list and the screen is cleared; the chat
\* stays the active one.
Leave ==
    /\ me # Nobody /\ active # NoChat
    /\ ClearView
    /\ UNCHANGED <<me, active, viewRoom, history, cache, oldest, tasks, marked, said, server>>

Login(a) ==
    /\ me = Nobody
    /\ me' = a
    /\ UNCHANGED <<active, view, displayed, viewRoom, history, cache, oldest, tasks,
                   marked, said, server>>

\* _perform_logout_and_relogin forgets the token and the user, nothing else.
Logout ==
    /\ me # Nobody
    /\ me' = Nobody
    /\ UNCHANGED <<active, view, displayed, viewRoom, history, cache, oldest, tasks,
                   marked, said, server>>

\* The program ends, or dies, and is started again: what is on disk remains.
Restart ==
    /\ me' = Nobody /\ active' = NoChat /\ viewRoom' = 0
    /\ ClearView
    /\ history' = [c \in Chats |-> {}]
    /\ tasks' = [t \in Tasks |-> Idle]
    /\ UNCHANGED <<cache, oldest, marked, said, server>>

-----------------------------------------------------------------------------
(* The server.                                                             *)

\* A friend writes from its own desktop.
FriendWrites(a, f) ==
    /\ Len(said) < MaxSaid
    /\ said' = Append(said, {a, f})
    /\ server' = Append(server, Len(said) + 1)
    /\ UNCHANGED <<me, active, view, displayed, viewRoom, history, cache, oldest, tasks, marked>>

\* Room and page are read for the account of the token: the page is of the room
\* that account shares with `with'.
AnswerFetch(t) ==
    /\ tasks[t].step \in {"fetch", "fetchBot"}
    /\ LET room == IF tasks[t].step = "fetchBot" THEN {tasks[t].as, Bot}
                                                 ELSE {tasks[t].as, tasks[t].with}
       IN  tasks' = [tasks EXCEPT ![t].ids = IdsOf(room),
                                  ![t].step = IF @ = "fetchBot" THEN "showBot" ELSE "show"]
    /\ UNCHANGED <<me, active, view, displayed, viewRoom, history, cache, oldest, marked, said, server>>

\* Any request may fail: the coroutine returns without an effect.
Fail(t) ==
    /\ tasks[t].step \in {"fetch", "fetchBot", "postNote"}
    /\ Finish(t)
    /\ UNCHANGED <<me, active, view, displayed, viewRoom, history, cache, oldest, marked, said, server>>

AnswerNote(t) ==
    /\ tasks[t].step = "postNote"
    /\ server' = Append(server, tasks[t].text)
    /\ Finish(t)
    /\ UNCHANGED <<me, active, view, displayed, viewRoom, history, cache, oldest, marked, said>>

\* handle_bot_chat stores the question and the reply, less what the database refuses,
\* or it refuses the question and stores nothing.
AnswerBot(t) ==
    LET reply == Len(said) + 1
    IN  /\ tasks[t].step = "postBot"
        /\ \/ /\ Len(said) < MaxSaid
              /\ said' = Append(said, {tasks[t].as, Bot})
              /\ \E stored \in {<<>>, <<tasks[t].text>>, <<tasks[t].text, reply>>} :
                    /\ server' = server \o stored
                    /\ tasks' = [tasks EXCEPT ![t].step = "replied", ![t].text = reply,
                                             ![t].ids = Len(server) + 1 .. Len(server) + Len(stored)]
           \/ /\ tasks' = [tasks EXCEPT ![t].step = "replied", ![t].text = 0]
              /\ UNCHANGED <<said, server>>
        /\ UNCHANGED <<me, active, view, displayed, viewRoom, history, cache, oldest, marked>>

-----------------------------------------------------------------------------
(* The answers reach the window.                                           *)

\* Is the chat that is open the one the page belongs to?  Every page passes for
\* the saved chat.
ActiveMatch(with) == active = FriendChat(with) \/ active = Saved

\* The newest message of a page is reported; without a token nothing is sent.
PostMarkRead(ids) ==
    marked' = IF ids # {} /\ me # Nobody THEN marked \cup {Max(ids)} ELSE marked

\* Mutant of ShowPage: the newest message is marked read before the open chat is looked at.
ShowPageMarksFirst(t) ==
    LET ids == tasks[t].ids
        chat == IF active = Saved THEN Saved ELSE FriendChat(tasks[t].with)
        rows == Rows(ids, KindRoomLocal(chat))
    IN  /\ tasks[t].step = "show"
        /\ PostMarkRead(ids)
        /\ IF ActiveMatch(tasks[t].with)
             THEN /\ view' = Shown(ids) /\ displayed' = {}
                  /\ InsertMessages(rows) /\ UpdateSyncState(rows)
             ELSE UNCHANGED <<view, displayed, cache, oldest>>
        /\ Finish(t)
        /\ UNCHANGED <<me, active, viewRoom, history, said, server>>

\* _fetch_dm_history after its last await: clear, show the page, file it under the
\* number of the active chat, and mark the newest message read.
ShowPage(t) ==
    LET ids == tasks[t].ids
        chat == IF active = Saved THEN Saved ELSE FriendChat(tasks[t].with)
        rows == Rows(ids, KindRoomLocal(chat))
    IN  /\ tasks[t].step = "show"
        /\ IF ActiveMatch(tasks[t].with)
             THEN /\ view' = Shown(ids) /\ displayed' = {}
                  /\ InsertMessages(rows) /\ UpdateSyncState(rows)
                  /\ PostMarkRead(ids)
             ELSE UNCHANGED <<view, displayed, cache, oldest, marked>>
        /\ Finish(t)
        /\ UNCHANGED <<me, active, viewRoom, history, said, server>>

\* Mutant of Merged: the page replaces what is in memory.
PageOnly(page) == page

\* The merge of _fetch_bot_history keeps what the server does not have.
Merged(page) == page \cup history[BotChat]

ShowBotPage(t) ==
    LET page == Shown(tasks[t].ids)
        new == {i \in tasks[t].ids : OnServer(server[i]) \notin history[BotChat]}
        rows == Rows(new, KindRoomLocal(BotChat))
    IN  /\ tasks[t].step = "showBot"
        /\ IF active = BotChat
             THEN /\ InsertMessages(rows) /\ UpdateSyncState(rows)
                  /\ IF new # {} \/ history[BotChat] = {}
                       THEN /\ view' = Merged(page) /\ displayed' = {}
                            /\ history' = [history EXCEPT ![BotChat] = Merged(page)]
                       ELSE UNCHANGED <<view, displayed, history>>
             ELSE UNCHANGED <<view, displayed, cache, oldest, history>>
        /\ Finish(t)
        /\ UNCHANGED <<me, active, viewRoom, marked, said, server>>

\* _send_bot_message after its request: both rows are cached under the account that
\* is logged in now, and the reply, or a warning, is appended to the bot chat.
ShowReply(t) ==
    LET rows == Rows(tasks[t].ids, KindRoomLocal(BotChat))
        warned == [id |-> 0, room |-> KindRoomLocal(BotChat), text |-> tasks[t].text]
    IN  /\ tasks[t].step = "replied"
        /\ InsertMessages(rows \cup {warned}) /\ UpdateSyncState(rows)
        /\ history' = [history EXCEPT ![BotChat] = @ \cup {Here(tasks[t].text)}]
        /\ view' = IF active = BotChat THEN view \cup {Here(tasks[t].text)} ELSE view
        /\ Finish(t)
        /\ UNCHANGED <<me, active, displayed, viewRoom, marked, said, server>>

-----------------------------------------------------------------------------

Init ==
    /\ me = Nobody /\ active = NoChat /\ viewRoom = 0
    /\ view = {} /\ displayed = {} /\ marked = {}
    /\ history = [c \in Chats |-> {}]
    /\ cache = {} /\ oldest = [room \in LocalRooms |-> 0]
    /\ tasks = [t \in Tasks |-> Idle]
    /\ said = <<>> /\ server = <<>>

Next ==
    \/ \E c \in Chats : Select(c)
    \/ Send \/ LazyLoad \/ Clear \/ Leave
    \/ \E a \in Accounts : Login(a)
    \/ Logout \/ Restart
    \/ \E a \in Accounts, f \in Friends : FriendWrites(a, f)
    \/ \E t \in Tasks : \/ AnswerFetch(t) \/ Fail(t) \/ AnswerNote(t) \/ AnswerBot(t)
                        \/ ShowPage(t) \/ ShowBotPage(t) \/ ShowReply(t)

Spec == Init /\ [][Next]_vars

-----------------------------------------------------------------------------
(* Properties.                                                             *)

Entries == {<<origin, n>> : origin \in {"here", "server"}, n \in 0..MaxSaid}

TypeOK ==
    /\ me \in Accounts \cup {Nobody}
    /\ active \in Chats \cup {NoChat}
    /\ view \subseteq Entries
    /\ displayed \cup marked \subseteq DOMAIN server
    /\ viewRoom \in LocalRooms \cup {0}
    /\ history \in [Chats -> SUBSET Entries]
    /\ cache \subseteq CacheRows
    /\ oldest \in [LocalRooms -> 0..Len(server)]
    /\ Range(server) \subseteq 1..Len(said)

(* The merge of _fetch_bot_history never loses an entry of the bot chat, be  *)
(* it a warning or a reply the server could not store: an entry goes only    *)
(* when the user clears the chat or the program ends.                        *)
BotKeepsWhatWasSaid ==
    [][history[BotChat] \subseteq history'[BotChat] \/ history'[BotChat] = {}]_vars

(* The window tells the server that a message was read only at the moment    *)
(* it is put on the screen: a page that comes after the user has opened      *)
(* another chat marks nothing (_fetch_dm_history, _mark_room_read).          *)
ReadWasOnScreen ==
    [][\A i \in marked' \ marked : OnServer(server[i]) \in view']_vars

(* "active chat retain 시점 chat_view re-populate" (_chat_helper_mixin.py:238): *)
(* a page is shown if its chat is still the open one, so the saved notes of   *)
(* an account are not mixed with its talks.                                   *)
SavedChatApart ==
    active = Saved => \A e \in view : e[2] # 0 => Cardinality(said[e[2]]) = 1

=============================================================================

------------------------------ MODULE ChatList ------------------------------
(***************************************************************************)
(* The list of chats of the desktop: its entries, the part of them that a  *)
(* tab, a folder and a search leave on the screen, and the counts of       *)
(* unread messages, which an answer of the server may change long after    *)
(* the entries it was asked for were replaced.                             *)
(***************************************************************************)
EXTENDS Naturals, Sequences, FiniteSets, SequencesExt, Ranks

CONSTANTS ListFriends, ListRooms,   \* chats with friends and in rooms
          NamedSo,                  \* the chats whose name has the word searched for
          ListTabs,                 \* tabs the user turns to
          FolderSets,               \* contents a folder may have: [included, excluded]
          MaxClock,                 \* messages and changes of the list (bound)
          MaxFills                  \* times the list is built anew (bound)

SupportBot == "bot"
SavedNotes == "saved"
NoneOpen == "none"
ListChats == {SupportBot, SavedNotes} \cup ListFriends \cup ListRooms

ASSUME ListAssumption ==
    /\ {MaxClock, MaxFills} \subseteq Nat
    /\ IsFiniteSet(ListFriends) /\ IsFiniteSet(ListRooms)
    /\ ListFriends \cap ListRooms = {}
    /\ {SupportBot, SavedNotes} \cap (ListFriends \cup ListRooms) = {}

VARIABLES
    entries,    \* _entries: [chat, pinned, ts, unread, has, fill]
    onScreen,   \* the chats of the QListWidget, from the top
    tab,        \* _active_tab
    folder,     \* _active_folder
    userFolder, \* _user_folders of the panel, here one folder or none
    search,     \* a word is searched for
    open,       \* the active chat of the window
    asked,      \* entries an unread request holds: <<chat, fill>>
    fills,      \* times entries were made anew
    tabBefore,  \* the tab when a dialog opened over the window, none: no dialog
    listClock

listVars == <<entries, onScreen, tab, folder, userFolder, search, open, asked, fills,
              tabBefore, listClock>>

NoFolder == [included |-> {}, excluded |-> ListChats]
Entry(chat, pinned, ts) ==
    [chat |-> chat, pinned |-> pinned, ts |-> ts, unread |-> 0,
     has |-> chat \in NamedSo, fill |-> fills]

\* pinned first, then the latest; sorted() keeps the order of equals.
Before(s, i, j) ==
    LET a == s[i]
        b == s[j]
    IN  IF a.pinned # b.pinned THEN a.pinned
        ELSE IF a.ts # b.ts THEN a.ts > b.ts ELSE i < j

Sorted(s) ==
    LET D == DOMAIN s
        places == InOrder(D, {p \in D \X D : Before(s, p[1], p[2])})
    IN  [n \in D |-> s[places[n]]]

OnTab(chat, t) ==
    CASE t = "rooms" -> chat \in ListFriends
      [] t = "bots" -> chat = SupportBot
      [] OTHER -> TRUE

InFolder(e, f, contents) ==
    CASE f = "all" -> TRUE
      [] f = "unread" -> e.unread > 0
      [] OTHER -> /\ e.chat \notin contents.excluded
                  /\ contents.included = {} \/ e.chat \in contents.included

\* _matches_tab
MatchesTab(e) == OnTab(e.chat, tab') /\ InFolder(e, folder', userFolder')

\* _render
Matching ==
    OnlyAt(entries', {i \in DOMAIN entries' :
                         MatchesTab(entries'[i]) /\ (search' => entries'[i].has)})
Render == onScreen' = [i \in DOMAIN Matching |-> Matching[i].chat]

SetEntries(new) == entries' = Sorted(new)
Filters == <<tab, folder, userFolder, search>>
TickList == listClock < MaxClock /\ listClock' = listClock + 1

-----------------------------------------------------------------------------
(* What the user does.                                                     *)

\* set_active_tab goes back to all folders.
SetTab(t) ==
    /\ tab' = t /\ folder' = "all"
    /\ UNCHANGED <<entries, userFolder, search, open, asked, fills, tabBefore, listClock>>
    /\ Render

SetFolder(f) ==
    /\ folder' = f
    /\ UNCHANGED <<entries, tab, userFolder, search, open, asked, fills, tabBefore, listClock>>
    /\ Render

\* set_user_folders, after a save or the list of a login.
SetUserFolder(contents) ==
    /\ userFolder' = contents
    /\ UNCHANGED <<entries, tab, folder, search, open, asked, fills, tabBefore, listClock>>
    /\ Render

Search ==
    /\ search' = ~search
    /\ UNCHANGED <<entries, tab, folder, userFolder, open, asked, fills, tabBefore, listClock>>
    /\ Render

\* set_current_chat: its unread count goes, and with it perhaps its row.
Read(s, chat) == [i \in DOMAIN s |-> IF s[i].chat = chat THEN [s[i] EXCEPT !.unread = 0] ELSE s[i]]

SetCurrentChat(chat) ==
    /\ entries' = Read(entries, chat)
    /\ IF entries' = entries THEN UNCHANGED onScreen ELSE Render

\* _on_item_clicked, or a dialog that opens a chat.
OpenChat(chat) ==
    /\ open' = chat
    /\ UNCHANGED <<Filters, asked, fills, tabBefore, listClock>>
    /\ SetCurrentChat(chat)

\* _on_drawer_saved
OpenSaved ==
    /\ tab' = "friends" /\ folder' = "all" /\ open' = SavedNotes
    /\ entries' = Read(entries, SavedNotes)
    /\ UNCHANGED <<userFolder, search, asked, fills, tabBefore, listClock>>
    /\ Render

\* _add_server_room_entry
AddRoom(r) ==
    /\ TickList
    /\ \A i \in DOMAIN entries : entries[i].chat # r
    /\ SetEntries(<<Entry(r, FALSE, listClock')>> \o entries)
    /\ open' = r
    /\ UNCHANGED <<Filters, asked, fills, tabBefore>>
    /\ Render

\* _on_chat_leave; the chat stays the active one.
LeaveChat ==
    /\ open # NoneOpen
    /\ SetEntries(OnlyAt(entries, {i \in DOMAIN entries : entries[i].chat # open}))
    /\ UNCHANGED <<Filters, open, asked, fills, tabBefore, listClock>>
    /\ Render

\* _exec_dialog_centered: a dialog covers the list, and closing it goes back
\* to the tab of then, whatever happened to the list meanwhile.
OpenOverlay ==
    /\ tabBefore = "none"
    /\ tabBefore' = tab
    /\ UNCHANGED <<entries, onScreen, Filters, open, asked, fills, listClock>>

CloseOverlay ==
    /\ tabBefore # "none"
    /\ tab' = tabBefore /\ folder' = "all" /\ tabBefore' = "none"
    /\ UNCHANGED <<entries, userFolder, search, open, asked, fills, listClock>>
    /\ Render

-----------------------------------------------------------------------------
(* What arrives.                                                           *)

\* _refresh_chat_list_panel: the bot, the friends and the rooms, made anew.
Refresh(friends, rooms) ==
    /\ TickList /\ fills < MaxFills
    /\ fills' = fills + 1
    /\ LET chats == <<SupportBot>> \o SetToSeq(friends) \o SetToSeq(rooms)
           new(chat) == Entry(chat, chat = SupportBot, IF chat = SupportBot THEN listClock' ELSE 0)
       IN  SetEntries([i \in DOMAIN chats |-> [new(chats[i]) EXCEPT !.fill = fills']])
    /\ open' = IF open = NoneOpen THEN SupportBot ELSE open
    /\ UNCHANGED <<Filters, asked, tabBefore>>
    /\ Render

\* Mutant of Resorted: a new message leaves its chat where it was.
NotResorted(s) == s

\* Where a list goes when one of its entries changed.
Resorted(s) == Sorted(s)

\* bump_entry
Bump(chat, isSelf, has) ==
    /\ TickList
    /\ \E i \in DOMAIN entries : entries[i].chat = chat
    /\ entries' = Resorted([i \in DOMAIN entries |->
            IF entries[i].chat # chat THEN entries[i]
            ELSE [entries[i] EXCEPT !.ts = listClock', !.has = has,
                        !.unread = IF isSelf \/ open = chat THEN @ ELSE 1]])
    /\ UNCHANGED <<Filters, open, asked, fills, tabBefore>>
    /\ Render

\* _fetch_unread_counts: the entries are read, the server is asked.
AskUnread ==
    /\ asked = {}
    /\ asked' = {<<entries[i].chat, entries[i].fill>> :
                    i \in {j \in DOMAIN entries : entries[j].chat \notin ListRooms}}
    /\ UNCHANGED <<entries, onScreen, Filters, open, fills, tabBefore, listClock>>

\* An answer changes the entries that were read, in the list or not.
AnswerUnread(counts) ==
    /\ asked # {}
    /\ asked' = {}
    /\ entries' = [i \in DOMAIN entries |->
            IF <<entries[i].chat, entries[i].fill>> \in asked
            THEN [entries[i] EXCEPT !.unread = IF entries[i].chat \in counts THEN 1 ELSE 0]
            ELSE entries[i]]
    /\ UNCHANGED <<Filters, open, fills, tabBefore, listClock>>
    /\ Render

LoseUnread ==
    /\ asked # {}
    /\ asked' = {}
    /\ UNCHANGED <<entries, onScreen, Filters, open, fills, tabBefore, listClock>>

\* ChatListPanel.__init__: every chat is shown.
PanelInit == tab = "friends" /\ folder = "all" /\ userFolder = NoFolder /\ search = FALSE

\* _init_chat_list_panel
ListInit ==
    /\ PanelInit /\ fills = 0 /\ listClock = 0
    /\ entries = <<Entry(SupportBot, TRUE, 0), Entry(SavedNotes, TRUE, 0)>>
    /\ onScreen = <<SupportBot, SavedNotes>>
    /\ tabBefore = "none"
    /\ open = SupportBot /\ asked = {}

ListNext ==
    \/ \E t \in ListTabs : SetTab(t)
    \/ \E f \in {"all", "unread", "mine"} : SetFolder(f)
    \/ \E contents \in FolderSets : SetUserFolder(contents)
    \/ Search \/ OpenOverlay \/ CloseOverlay \/ OpenSaved \/ LeaveChat \/ AskUnread \/ LoseUnread
    \/ \E chat \in ListChats :
          OpenChat(chat) \/ \E isSelf, has \in BOOLEAN : Bump(chat, isSelf, has)
    \/ \E r \in ListRooms : AddRoom(r)
    \/ \E friends \in SUBSET ListFriends, rooms \in SUBSET ListRooms : Refresh(friends, rooms)
    \/ \E counts \in SUBSET (ListChats \ ListRooms) : AnswerUnread(counts)

ListSpec == ListInit /\ [][ListNext]_listVars

-----------------------------------------------------------------------------
(* Properties.                                                             *)

\* ChatListEntry
ListEntries == [chat : ListChats, pinned : BOOLEAN, ts : 0..MaxClock, unread : 0..1,
                has : BOOLEAN, fill : 0..MaxFills]

(* Type invariant.                                                         *)
ListTypeOK ==
    /\ entries \in Seq(ListEntries) /\ onScreen \in Seq(ListChats)
    /\ \A i, j \in DOMAIN entries : entries[i].chat = entries[j].chat => i = j
    /\ tabBefore \in ListTabs \cup {"none", "friends"} /\ open \in ListChats \cup {NoneOpen}

Position(chat) == CHOOSE i \in DOMAIN entries : entries[i].chat = chat

(* The rows on the screen are those the tab, the folder and the search ask *)
(* for, no more and no fewer, with the pinned chats first and the latest   *)
(* message above older ones, whatever arrived since they were drawn.       *)
ShownIsCurrent ==
    /\ \A i \in DOMAIN entries :
          LET e == entries[i]
          IN  (\E n \in DOMAIN onScreen : onScreen[n] = e.chat)
              <=> (OnTab(e.chat, tab) /\ InFolder(e, folder, userFolder) /\ (search => e.has))
    /\ \A n \in DOMAIN onScreen : \E i \in DOMAIN entries : entries[i].chat = onScreen[n]
    /\ \A m, n \in DOMAIN onScreen :
          m < n => LET a == entries[Position(onScreen[m])]
                       b == entries[Position(onScreen[n])]
                   IN  IF a.pinned = b.pinned THEN a.ts >= b.ts ELSE a.pinned

=============================================================================

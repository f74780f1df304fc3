------------------------------ MODULE Folders ------------------------------
(***************************************************************************)
(* Folders of chats: a desktop keeps a list of its own, changed at once,   *)
(* and tells the server of each change in a thread of its own, so requests *)
(* arrive in any order.  The server saves a folder and its chats in one    *)
(* transaction and lists them in several statements.                       *)
(*                                                                         *)
(* The name of a folder is the number of the save that gave it.            *)
(***************************************************************************)
EXTENDS Naturals, Sequences

CONSTANTS FolderIds, FolderChats,
          Workers,      \* requests that may be under way at once (bound)
          MaxSaves      \* saves of a user (bound)

ASSUME FoldersAssumption == MaxSaves \in Nat

VARIABLES
    rows,       \* tables folders and folder_chats: a folder, or NoRow
    holder,     \* the transaction that holds the row of a folder
    worker,     \* FolderWorker threads and the handlers that serve them
    myFolders,  \* _user_folders of the window, which its side bar and list show
    editing,    \* the open FolderEditDialog
    listing,    \* FolderListWorker, started at login
    saves       \* what the user asked for (ghost): [folder, chats]

folderVars == <<rows, holder, worker, myFolders, editing, listing, saves>>

NoRow == [name |-> 0, chats |-> {}]
Unheld == "free"
NoRequest == [at |-> "idle", folder |-> "none", save |-> 0, draft |-> NoRow]
NoDialog == [folder |-> "none", chats |-> {}]

\* A thread with a request, and the draft of the transaction that serves it.
FolderWorker(at, f, save) == [at |-> at, folder |-> f, save |-> save, draft |-> NoRow]

\* set_folder_entries: side bar and list show what the window has.
SetFolderEntries(folders) == myFolders' = folders

\* FolderEditDialog, of a folder and the chats it has.
FolderEditDialog(f, chats) == editing' = [folder |-> f, chats |-> chats]

\* _on_save: a folder that has no id yet gets one, and is no edit.
IsNew(f) == \A i \in DOMAIN saves : saves[i].folder # f

-----------------------------------------------------------------------------
(* The dialogs.                                                            *)

\* _on_folder_create_requested: uuid4 gives a new id when the folder is saved.
OpenCreate(f) ==
    /\ editing = NoDialog
    /\ myFolders[f] = NoRow /\ IsNew(f)
    /\ FolderEditDialog(f, {})
    /\ UNCHANGED <<rows, holder, worker, myFolders, listing, saves>>

\* _on_folder_edit_requested
OpenEdit(f) ==
    /\ editing = NoDialog
    /\ myFolders[f] # NoRow
    /\ FolderEditDialog(f, myFolders[f].chats)
    /\ UNCHANGED <<rows, holder, worker, myFolders, listing, saves>>

\* add_included_chats; a chat may be picked, never taken back.
PickChat(c) ==
    /\ editing # NoDialog
    /\ editing' = [editing EXCEPT !.chats = @ \cup {c}]
    /\ UNCHANGED <<rows, holder, worker, myFolders, listing, saves>>

\* _on_folder_saved: the window's own list, then a thread with a POST or a PATCH.
SaveFolder(w) ==
    /\ editing # NoDialog /\ Len(saves) < MaxSaves
    /\ worker[w] = NoRequest
    /\ saves' = Append(saves, editing)
    /\ LET f == editing.folder
           save == Len(saves) + 1
       IN  /\ SetFolderEntries([myFolders EXCEPT ![f] = [name |-> save, chats |-> editing.chats]])
           /\ worker' = [worker EXCEPT ![w] = FolderWorker(IF IsNew(f) THEN "post" ELSE "patch", f, save)]
    /\ editing' = NoDialog
    /\ UNCHANGED <<rows, holder, listing>>

\* handle_delete_folder, one statement; folder_chats follow by their foreign key.
DeleteFolder(f) ==
    /\ rows[f] # NoRow /\ holder[f] = Unheld
    /\ rows' = [rows EXCEPT ![f] = NoRow]
    /\ UNCHANGED <<holder, worker, myFolders, editing, listing, saves>>

-----------------------------------------------------------------------------
(* The transactions.                                                       *)

EndRequest(w) == worker' = [worker EXCEPT ![w] = NoRequest]
Unlocked(w) == holder' = [f \in FolderIds |-> IF holder[f] = w THEN Unheld ELSE holder[f]]
Writes(w) == worker[w].at \in {"clear", "insert"}

\* insert_folder_with_chats: the row of the folder.
InsertFolder(w) ==
    /\ worker[w].at = "post"
    /\ LET f == worker[w].folder
       IN  /\ rows[f] = NoRow /\ holder[f] = Unheld
           /\ holder' = [holder EXCEPT ![f] = w]
           /\ worker' = [worker EXCEPT ![w].at = "insert",
                                       ![w].draft = [name |-> worker[w].save, chats |-> {}]]
    /\ UNCHANGED <<rows, myFolders, editing, listing, saves>>

\* update_folder_with_chats: without a row, 404.
FindFolder(w) ==
    /\ worker[w].at = "patch"
    /\ IF rows[worker[w].folder] = NoRow THEN EndRequest(w)
       ELSE worker' = [worker EXCEPT ![w].at = "update"]
    /\ UNCHANGED <<rows, holder, myFolders, editing, listing, saves>>

\* UPDATE takes the row, if it is still there.
UpdateFolder(w) ==
    /\ worker[w].at = "update"
    /\ LET f == worker[w].folder
           here == rows[f] # NoRow
       IN  /\ holder[f] = Unheld
           /\ holder' = IF here THEN [holder EXCEPT ![f] = w] ELSE holder
           /\ worker' = [worker EXCEPT ![w].at = "clear", ![w].draft =
                            IF here THEN [rows[f] EXCEPT !.name = worker[w].save] ELSE NoRow]
    /\ UNCHANGED <<rows, myFolders, editing, listing, saves>>

ClearChats(w) ==
    /\ worker[w].at = "clear"
    /\ worker' = [worker EXCEPT ![w].at = "insert", ![w].draft.chats = {}]
    /\ UNCHANGED <<rows, holder, myFolders, editing, listing, saves>>

\* INSERT IGNORE; the foreign key refuses a chat of a folder that is gone.
InsertChat(w, c) ==
    /\ worker[w].at = "insert" /\ worker[w].draft # NoRow
    /\ c \in saves[worker[w].save].chats \ worker[w].draft.chats
    /\ worker' = [worker EXCEPT ![w].draft.chats = @ \cup {c}]
    /\ UNCHANGED <<rows, holder, myFolders, editing, listing, saves>>

CommitFolder(w) ==
    /\ worker[w].at = "insert"
    /\ worker[w].draft.chats = saves[worker[w].save].chats
    /\ rows' = IF worker[w].draft = NoRow THEN rows
               ELSE [rows EXCEPT ![worker[w].folder] = worker[w].draft]
    /\ EndRequest(w) /\ Unlocked(w)
    /\ UNCHANGED <<myFolders, editing, listing, saves>>

\* Mutant of AfterRollback: every statement commits on its own.
KeptSoFar(w) ==
    IF worker[w].draft = NoRow THEN rows
    ELSE [rows EXCEPT ![worker[w].folder] = worker[w].draft]

\* What a transaction that failed leaves.
AfterRollback(w) == rows

\* A statement fails: ROLLBACK, and 500 to a worker that only logs it.
RollbackFolder(w) ==
    /\ Writes(w)
    /\ rows' = AfterRollback(w)
    /\ EndRequest(w) /\ Unlocked(w)
    /\ UNCHANGED <<myFolders, editing, listing, saves>>

\* A request never gets there, or its thread gives up on it before it is served.
LoseRequest(w) ==
    /\ worker[w].at \in {"post", "patch"}
    /\ EndRequest(w)
    /\ UNCHANGED <<rows, holder, myFolders, editing, listing, saves>>

-----------------------------------------------------------------------------
(* The list a login asks for.                                              *)

\* list_folders: the rows.
ListFolders ==
    /\ listing.at = "asked"
    /\ listing' = [at |-> "chats", found |-> rows, left |-> {f \in FolderIds : rows[f] # NoRow}]
    /\ UNCHANGED <<rows, holder, worker, myFolders, editing, saves>>

\* list_folder_chats: of one folder, by a later statement.
ListFolderChats(f) ==
    /\ listing.at = "chats" /\ f \in listing.left
    /\ listing' = [listing EXCEPT !.left = @ \ {f}, !.found[f].chats = rows[f].chats]
    /\ UNCHANGED <<rows, holder, worker, myFolders, editing, saves>>

\* handle_list_folders answers when the chats of every folder were read.
ListComplete == listing.at = "chats" /\ listing.left = {}

\* _on_folder_list_finished: the answer replaces the window's own list.
ShowFolders ==
    /\ ListComplete
    /\ SetFolderEntries(listing.found)
    /\ listing' = [listing EXCEPT !.at = "shown"]
    /\ UNCHANGED <<rows, holder, worker, editing, saves>>

FoldersInit ==
    /\ rows = [f \in FolderIds |-> NoRow] /\ myFolders = rows
    /\ holder = [f \in FolderIds |-> Unheld] /\ worker = [w \in Workers |-> NoRequest]
    /\ editing = NoDialog /\ saves = <<>>
    /\ listing = [at |-> "asked", found |-> rows, left |-> {}]

FoldersNext ==
    \/ \E f \in FolderIds : OpenCreate(f) \/ OpenEdit(f) \/ DeleteFolder(f) \/ ListFolderChats(f)
    \/ \E c \in FolderChats : PickChat(c)
    \/ \E w \in Workers :
          \/ SaveFolder(w) \/ LoseRequest(w)
          \/ InsertFolder(w) \/ FindFolder(w) \/ UpdateFolder(w) \/ ClearChats(w)
          \/ \E c \in FolderChats : InsertChat(w, c)
          \/ CommitFolder(w) \/ RollbackFolder(w)
    \/ ListFolders \/ ShowFolders

FoldersSpec == FoldersInit /\ [][FoldersNext]_folderVars

-----------------------------------------------------------------------------
(* Properties.                                                             *)

\* Rows of folders, with their rows of folder_chats.
FolderRows == [name : 1..MaxSaves, chats : SUBSET FolderChats]

(* Type invariant.  A transaction that holds a row is at work on it.       *)
FoldersTypeOK ==
    /\ {rows, myFolders} \subseteq [FolderIds -> {NoRow} \cup FolderRows]
    /\ \A f \in FolderIds : holder[f] # Unheld => Writes(holder[f]) /\ worker[holder[f]].folder = f
    /\ saves \in Seq([folder : FolderIds, chats : SUBSET FolderChats])

(* The folder the server keeps is one the user saved, its name with its    *)
(* chats, whichever requests overlapped, failed or came late: a folder     *)
(* without its chats would show every chat there is.                       *)
FoldersAreWhole ==
    \A f \in FolderIds :
        rows[f] # NoRow => saves[rows[f].name] = [folder |-> f, chats |-> rows[f].chats]

=============================================================================

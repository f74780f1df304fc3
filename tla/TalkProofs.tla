------------------------------ MODULE TalkProofs ------------------------------
(***************************************************************************)
(* Proofs about the parts of the desktop that MC_Talk runs side by side,   *)
(* each for its own specification and for any values of its constants.     *)
(***************************************************************************)
EXTENDS MC_Talk, ListProofs, TLAPS

-----------------------------------------------------------------------------
(***************************************************************************)
(* Folders.  A transaction builds its draft from the save it was started   *)
(* for; nothing but such a draft becomes a row.                            *)
(***************************************************************************)

Stages == {"idle", "post", "patch", "update", "clear", "insert"}
FolderRequests ==
    [at : Stages, folder : FolderIds \cup {"none"}, save : Nat, draft : {NoRow} \cup FolderRows]

\* A request is for a save the user made, and its draft has the name of it.
ServesItsSave(w) ==
    worker[w].at # "idle" =>
       /\ worker[w].folder \in FolderIds /\ worker[w].save \in 1 .. Len(saves)
       /\ saves[worker[w].save].folder = worker[w].folder
       /\ Writes(w) /\ worker[w].draft # NoRow => worker[w].draft.name = worker[w].save

FoldersInv ==
    /\ FoldersTypeOK /\ FoldersAreWhole
    /\ Len(saves) <= MaxSaves
    /\ \A f \in FolderIds : rows[f] # NoRow => rows[f].name \in 1 .. Len(saves)
    /\ editing = NoDialog \/ editing \in [folder : FolderIds, chats : SUBSET FolderChats]
    /\ worker \in [Workers -> FolderRequests]
    /\ \A w \in Workers : ServesItsSave(w)
    /\ holder \in [FolderIds -> Workers \cup {Unheld}]
    /\ listing \in [at : {"asked", "chats", "shown"}, found : [FolderIds -> {NoRow} \cup FolderRows],
                    left : SUBSET FolderIds]
    /\ \A f \in listing.left : listing.found[f] # NoRow

\* At first there is no folder and no request.
LEMMA InitFolders == FoldersInit => FoldersInv
  BY FoldersAssumption
     DEF FoldersInit, FoldersInv, FoldersTypeOK, FoldersAreWhole, FolderRequests, ServesItsSave,
         NoRequest, NoRow, Stages, Unheld

\* A dialog that opens, or a chat that is picked, changes nothing but the dialog.
LEMMA DialogSteps ==
    ASSUME FoldersInv,
           \/ \E f \in FolderIds : OpenCreate(f) \/ OpenEdit(f)
           \/ \E c \in FolderChats : PickChat(c)
    PROVE  FoldersInv'
<1>1. UNCHANGED <<rows, holder, worker, myFolders, listing, saves>>
  BY DEF OpenCreate, OpenEdit, PickChat
<1>2. editing' = NoDialog \/ editing' \in [folder : FolderIds, chats : SUBSET FolderChats]
  <2>1. CASE \E f \in FolderIds : OpenCreate(f)
    BY <2>1 DEF OpenCreate, FolderEditDialog
  <2>2. CASE \E f \in FolderIds : OpenEdit(f)
    BY <2>2 DEF OpenEdit, FolderEditDialog, FoldersInv, FoldersTypeOK, FolderRows, NoRow
  <2>3. CASE \E c \in FolderChats : PickChat(c)
    BY <2>3 DEF PickChat, FoldersInv
  <2>. QED  BY <2>1, <2>2, <2>3
<1>3. FoldersTypeOK' /\ FoldersAreWhole'
  BY <1>1 DEF FoldersInv, FoldersTypeOK, FoldersAreWhole, Writes
<1>4. \A w \in Workers : ServesItsSave(w)'
  BY <1>1 DEF FoldersInv, ServesItsSave, Writes
<1>. QED  BY <1>1, <1>2, <1>3, <1>4 DEF FoldersInv

\* The list of a login is read and shown.
LEMMA ListingSteps ==
    ASSUME FoldersInv, ListFolders \/ ShowFolders \/ \E f \in FolderIds : ListFolderChats(f)
    PROVE  FoldersInv'
<1>1. UNCHANGED <<rows, holder, worker, editing, saves>>
  BY DEF ListFolders, ShowFolders, ListFolderChats
<1>2. /\ myFolders' \in [FolderIds -> {NoRow} \cup FolderRows]
      /\ rows \in [FolderIds -> {NoRow} \cup FolderRows]
  BY DEF ListFolders, ShowFolders, ListFolderChats, SetFolderEntries, FoldersInv, FoldersTypeOK
<1>3. /\ listing' \in [at : {"asked", "chats", "shown"}, found : [FolderIds -> {NoRow} \cup FolderRows],
                       left : SUBSET FolderIds]
      /\ \A f \in listing'.left : listing'.found[f] # NoRow
  <2>1. CASE ListFolders
    BY <1>2, <2>1 DEF ListFolders
  <2>2. CASE ShowFolders
    BY <2>2 DEF ShowFolders, FoldersInv
  <2>3. ASSUME NEW f \in FolderIds, ListFolderChats(f)
        PROVE  <1>3!1 /\ <1>3!2
    <3>1. listing' = [listing EXCEPT !.left = @ \ {f}, !.found[f].chats = rows[f].chats] /\ f \in listing.left
      BY <2>3 DEF ListFolderChats
    <3>2. listing.found[f] \in FolderRows
      BY <3>1 DEF FoldersInv
    <3>3. rows[f].chats \in SUBSET FolderChats
      BY <1>2 DEF FolderRows, NoRow
    <3>4. [listing.found[f] EXCEPT !.chats = rows[f].chats] \in FolderRows
      BY <3>2, <3>3 DEF FolderRows
    <3>5. /\ listing'.at = listing.at /\ listing'.left = listing.left \ {f}
          /\ listing'.found = [listing.found EXCEPT ![f] = [listing.found[f] EXCEPT !.chats = rows[f].chats]]
          /\ listing' \in [at : {"asked", "chats", "shown"}, found : [FolderIds -> {NoRow} \cup FolderRows],
                           left : SUBSET FolderIds]
      BY <3>1, <3>4 DEF FoldersInv
    <3>. QED  BY <3>5 DEF FoldersInv
  <2>. QED  BY <2>1, <2>2, <2>3
<1>4. FoldersTypeOK' /\ FoldersAreWhole'
  BY <1>1, <1>2 DEF FoldersInv, FoldersTypeOK, FoldersAreWhole, Writes
<1>5. \A w \in Workers : ServesItsSave(w)'
  BY <1>1 DEF FoldersInv, ServesItsSave, Writes
<1>. QED  BY <1>1, <1>3, <1>4, <1>5 DEF FoldersInv

\* A row goes.
LEMMA DeleteStep ==
    ASSUME FoldersInv, NEW f \in FolderIds, DeleteFolder(f)
    PROVE  FoldersInv'
<1>1. /\ UNCHANGED <<holder, worker, myFolders, editing, listing, saves>>
      /\ rows' = [rows EXCEPT ![f] = NoRow]
  BY DEF DeleteFolder
<1>2. FoldersTypeOK' /\ FoldersAreWhole'
  BY <1>1 DEF FoldersInv, FoldersTypeOK, FoldersAreWhole, Writes
<1>3. \A w \in Workers : ServesItsSave(w)'
  BY <1>1 DEF FoldersInv, ServesItsSave, Writes
<1>. QED  BY <1>1, <1>2, <1>3 DEF FoldersInv

\* What is saved has the next number, which is the name of no row yet.
LEMMA SaveStep ==
    ASSUME FoldersInv, NEW w \in Workers, SaveFolder(w)
    PROVE  FoldersInv'
<1>1. editing \in [folder : FolderIds, chats : SUBSET FolderChats] /\ Len(saves) < MaxSaves
  BY DEF SaveFolder, FoldersInv
<1>2. PICK f \in FolderIds, n \in Nat : f = editing.folder /\ n = Len(saves) + 1
  BY <1>1 DEF FoldersInv, FoldersTypeOK
<1>3. PICK at \in {"post", "patch"} : worker' = [worker EXCEPT ![w] = FolderWorker(at, f, n)]
  BY <1>2 DEF SaveFolder
<1>4. /\ saves' = Append(saves, editing) /\ editing' = NoDialog /\ UNCHANGED <<rows, holder, listing>>
      /\ myFolders' = [myFolders EXCEPT ![f] = [name |-> n, chats |-> editing.chats]]
      /\ worker[w] = NoRequest
  BY <1>2 DEF SaveFolder, SetFolderEntries
<1>5. /\ saves' \in Seq([folder : FolderIds, chats : SUBSET FolderChats]) /\ Len(saves') = n
      /\ saves'[n] = editing /\ \A i \in 1 .. Len(saves) : saves'[i] = saves[i]
      /\ n <= MaxSaves /\ n \in 1 .. MaxSaves /\ Len(saves) \in Nat
  BY <1>1, <1>2, <1>4, FoldersAssumption DEF FoldersInv, FoldersTypeOK
<1>6. FolderWorker(at, f, n) \in FolderRequests
  BY <1>3 DEF FolderWorker, FolderRequests, Stages
<1>7. worker' \in [Workers -> FolderRequests] /\ worker'[w] = FolderWorker(at, f, n)
      /\ \A v \in Workers \ {w} : worker'[v] = worker[v]
  BY <1>3, <1>6 DEF FoldersInv
<1>8. FoldersTypeOK'
  <2>1. rows' \in [FolderIds -> {NoRow} \cup FolderRows] /\ myFolders' \in [FolderIds -> {NoRow} \cup FolderRows]
    <3>1. [name |-> n, chats |-> editing.chats] \in FolderRows
      BY <1>1, <1>5 DEF FolderRows
    <3>. QED  BY <1>4, <3>1 DEF FoldersInv, FoldersTypeOK
  <2>2. ASSUME NEW g \in FolderIds, holder'[g] # Unheld
        PROVE  Writes(holder[g])' /\ worker'[holder'[g]].folder = g
    <3>1. PICK v \in Workers : v = holder[g]
      BY <1>4, <2>2 DEF FoldersInv
    <3>2. Writes(v) /\ worker[v].folder = g
      BY <1>4, <2>2, <3>1 DEF FoldersInv, FoldersTypeOK
    <3>3. v # w
      BY <1>4, <3>2 DEF Writes, NoRequest
    <3>. QED  BY <1>4, <1>7, <3>1, <3>2, <3>3 DEF Writes
  <2>. QED  BY <1>5, <2>1, <2>2 DEF FoldersTypeOK
<1>9. FoldersAreWhole'
  BY <1>2, <1>4, <1>5 DEF FoldersInv, FoldersTypeOK, FoldersAreWhole, FolderRows
<1>10. ASSUME NEW v \in Workers PROVE ServesItsSave(v)'
  <2>1. CASE v = w
    BY <1>2, <1>3, <1>5, <1>7, <2>1 DEF ServesItsSave, FolderWorker, Writes
  <2>2. CASE v # w
    BY <1>2, <1>5, <1>7, <2>2 DEF FoldersInv, ServesItsSave, Writes
  <2>. QED  BY <2>1, <2>2
<1>. QED  BY <1>4, <1>5, <1>7, <1>8, <1>9, <1>10 DEF FoldersInv

\* A request that goes on with its save, or ends, and what becomes of the rows.
LEMMA RequestGoesOn ==
    ASSUME FoldersInv, NEW w \in Workers, NEW r \in FolderRequests, worker' = [worker EXCEPT ![w] = r],
           UNCHANGED <<myFolders, editing, listing, saves>>,
           r.at # "idle" =>
              /\ r.folder \in FolderIds /\ r.save \in 1 .. Len(saves)
              /\ saves[r.save].folder = r.folder
              /\ r.at \in {"clear", "insert"} /\ r.draft # NoRow => r.draft.name = r.save,
           holder' \in [FolderIds -> Workers \cup {Unheld}],
           \A f \in FolderIds :
              \/ holder'[f] = Unheld
              \/ holder'[f] = w /\ r.at \in {"clear", "insert"} /\ r.folder = f
              \/ holder'[f] # w /\ holder'[f] = holder[f],
           rows' \in [FolderIds -> {NoRow} \cup FolderRows], FoldersAreWhole',
           \A f \in FolderIds : rows'[f] # NoRow => rows'[f].name \in 1 .. Len(saves)
    PROVE  FoldersInv'
<1>1. worker' \in [Workers -> FolderRequests] /\ worker'[w] = r
      /\ \A v \in Workers \ {w} : worker'[v] = worker[v]
  BY DEF FoldersInv
<1>2. FoldersTypeOK'
  <2>1. ASSUME NEW g \in FolderIds, holder'[g] # Unheld
        PROVE  Writes(holder[g])' /\ worker'[holder'[g]].folder = g
    <3>1. CASE holder'[g] = w /\ r.at \in {"clear", "insert"} /\ r.folder = g
      BY <1>1, <3>1 DEF Writes
    <3>2. CASE holder'[g] # w /\ holder'[g] = holder[g]
      <4>1. PICK v \in Workers : v = holder[g]
        BY <2>1, <3>2 DEF FoldersInv
      <4>2. Writes(v) /\ worker[v].folder = g
        BY <2>1, <3>2, <4>1 DEF FoldersInv, FoldersTypeOK
      <4>. QED  BY <1>1, <3>2, <4>1, <4>2 DEF Writes
    <3>. QED  BY <2>1, <3>1, <3>2
  <2>. QED  BY <2>1 DEF FoldersInv, FoldersTypeOK
<1>3. ASSUME NEW v \in Workers PROVE ServesItsSave(v)'
  BY <1>1 DEF FoldersInv, ServesItsSave, Writes
<1>. QED  BY <1>1, <1>2, <1>3 DEF FoldersInv

\* Every step of a request keeps it so.
LEMMA RequestSteps ==
    ASSUME FoldersInv, NEW w \in Workers,
           \/ InsertFolder(w) \/ FindFolder(w) \/ UpdateFolder(w) \/ ClearChats(w)
           \/ \E c \in FolderChats : InsertChat(w, c)
           \/ CommitFolder(w) \/ RollbackFolder(w) \/ LoseRequest(w)
    PROVE  FoldersInv'
<1>1. /\ worker \in [Workers -> FolderRequests] /\ worker[w] \in FolderRequests
      /\ rows \in [FolderIds -> {NoRow} \cup FolderRows]
      /\ holder \in [FolderIds -> Workers \cup {Unheld}]
      /\ Len(saves) \in Nat /\ Len(saves) <= MaxSaves /\ MaxSaves \in Nat
      /\ \A i \in 1 .. Len(saves) : saves[i] \in [folder : FolderIds, chats : SUBSET FolderChats]
  <2>1. saves \in Seq([folder : FolderIds, chats : SUBSET FolderChats]) /\ rows \in [FolderIds -> {NoRow} \cup FolderRows]
    BY DEF FoldersInv, FoldersTypeOK
  <2>2. Len(saves) \in Nat
        /\ \A i \in 1 .. Len(saves) : saves[i] \in [folder : FolderIds, chats : SUBSET FolderChats]
    <3>. DEFINE S == [folder : FolderIds, chats : SUBSET FolderChats]
    <3>1. saves \in Seq(S)
      BY <2>1
    <3>. HIDE DEF S
    <3>2. Len(saves) \in Nat /\ \A i \in 1 .. Len(saves) : saves[i] \in S
      BY <3>1
    <3>. QED  BY <3>2 DEF S
  <2>. QED  BY <2>1, <2>2, FoldersAssumption DEF FoldersInv
<1>2. worker[w].at # "idle"
  BY DEF InsertFolder, FindFolder, UpdateFolder, ClearChats, InsertChat, CommitFolder, RollbackFolder,
         LoseRequest, Writes
<1>3. PICK f \in FolderIds, n \in 1 .. Len(saves) : f = worker[w].folder /\ n = worker[w].save
  BY <1>2 DEF FoldersInv, ServesItsSave
<1>4. saves[n].folder = f /\ n \in 1 .. MaxSaves /\ n \in Nat /\ n # 0
      /\ (Writes(w) /\ worker[w].draft # NoRow => worker[w].draft.name = n)
  BY <1>1, <1>2, <1>3 DEF FoldersInv, ServesItsSave
<1>5. \A g \in FolderIds : holder[g] = w => holder[g] = Unheld \/ (Writes(w) /\ g = f)
  BY <1>3 DEF FoldersInv, FoldersTypeOK
<1>6. NoRequest \in FolderRequests /\ NoRequest.at = "idle"
  BY DEF NoRequest, FolderRequests, Stages
<1>7. Unlocked(w) => /\ holder' \in [FolderIds -> Workers \cup {Unheld}]
                     /\ \A g \in FolderIds : holder'[g] = Unheld \/ (holder'[g] # w /\ holder'[g] = holder[g])
  BY <1>1 DEF Unlocked
<1>8. rows' = rows /\ saves' = saves =>
         /\ FoldersAreWhole'
         /\ \A g \in FolderIds : rows'[g] # NoRow => rows'[g].name \in 1 .. Len(saves)
  BY DEF FoldersInv, FoldersAreWhole
<1>9. CASE InsertFolder(w)
  <2>. DEFINE r == [worker[w] EXCEPT !.at = "insert", !.draft = [name |-> n, chats |-> {}]]
  <2>1. worker' = [worker EXCEPT ![w] = r] /\ UNCHANGED <<rows, myFolders, editing, listing, saves>>
        /\ holder' = [holder EXCEPT ![f] = w]
    BY <1>1, <1>3, <1>9 DEF InsertFolder
  <2>2. r \in FolderRequests /\ r.at = "insert" /\ r.folder = f /\ r.save = n /\ r.draft.name = n
    BY <1>1, <1>3, <1>4 DEF FolderRequests, Stages, FolderRows
  <2>3. holder' \in [FolderIds -> Workers \cup {Unheld}] /\ holder'[f] = w
        /\ \A g \in FolderIds \ {f} : holder'[g] = holder[g]
    BY <1>1, <2>1
  <2>4. ~Writes(w)
    BY <1>9 DEF InsertFolder, Writes
  <2>. HIDE DEF r
  <2>5. \A g \in FolderIds : \/ holder'[g] = Unheld
                             \/ holder'[g] = w /\ r.at \in {"clear", "insert"} /\ r.folder = g
                             \/ holder'[g] # w /\ holder'[g] = holder[g]
    <3>1. ASSUME NEW g \in FolderIds, g # f, holder[g] = w PROVE holder[g] = Unheld
      BY <1>5, <2>4, <3>1
    <3>2. ASSUME NEW g \in FolderIds
          PROVE  \/ holder'[g] = Unheld
                 \/ holder'[g] = w /\ r.at \in {"clear", "insert"} /\ r.folder = g
                 \/ holder'[g] # w /\ holder'[g] = holder[g]
      <4>1. CASE g = f
        BY <2>2, <2>3, <4>1
      <4>2. CASE g # f
        <5>1. holder'[g] = holder[g]
          BY <2>3, <3>2, <4>2
        <5>. QED  BY <3>1, <3>2, <4>2, <5>1
      <4>. QED  BY <4>1, <4>2
    <3>. QED  BY <3>2
  <2>6. /\ rows' \in [FolderIds -> {NoRow} \cup FolderRows] /\ FoldersAreWhole'
        /\ \A g \in FolderIds : rows'[g] # NoRow => rows'[g].name \in 1 .. Len(saves)
        /\ UNCHANGED <<myFolders, editing, listing, saves>>
    BY <1>1, <1>8, <2>1
  <2>7. /\ r.folder \in FolderIds /\ r.save \in 1 .. Len(saves) /\ saves[r.save].folder = r.folder
        /\ r.draft # NoRow => r.draft.name = r.save
        /\ holder' \in [FolderIds -> Workers \cup {Unheld}]
    BY <1>1, <1>3, <1>4, <2>1, <2>2, <2>3
  <2>8. worker' = [worker EXCEPT ![w] = r] /\ r \in FolderRequests
    BY <2>1, <2>2, <2>3
  <2>. QED  BY <2>5, <2>6, <2>7, <2>8, RequestGoesOn
<1>10. CASE FindFolder(w)
  <2>1. ~Writes(w)
    BY <1>10 DEF FindFolder, Writes
  <2>2. UNCHANGED <<rows, holder, myFolders, editing, listing, saves>>
    BY <1>10 DEF FindFolder
  <2>3. \A g \in FolderIds : \/ holder'[g] = Unheld \/ (holder'[g] # w /\ holder'[g] = holder[g])
    BY <1>5, <2>1, <2>2
  <2>4. CASE EndRequest(w)
    BY <1>1, <1>6, <1>8, <2>2, <2>3, <2>4, RequestGoesOn DEF EndRequest
  <2>5. CASE worker' = [worker EXCEPT ![w].at = "update"]
    <3>. DEFINE r == [worker[w] EXCEPT !.at = "update"]
    <3>1. worker' = [worker EXCEPT ![w] = r] /\ r \in FolderRequests /\ r.at = "update" /\ r.folder = f /\ r.save = n
      BY <1>1, <1>3, <2>5 DEF FolderRequests, Stages
    <3>. HIDE DEF r
    <3>. QED  BY <1>1, <1>3, <1>4, <1>8, <2>2, <2>3, <3>1, RequestGoesOn
  <2>. QED  BY <1>10, <2>4, <2>5 DEF FindFolder
<1>11. CASE UpdateFolder(w)
  <2>. DEFINE d == IF rows[f] # NoRow THEN [rows[f] EXCEPT !.name = n] ELSE NoRow
              r == [worker[w] EXCEPT !.at = "clear", !.draft = d]
  <2>1. worker' = [worker EXCEPT ![w] = r] /\ UNCHANGED <<rows, myFolders, editing, listing, saves>>
        /\ (holder' = [holder EXCEPT ![f] = w] \/ holder' = holder)
    BY <1>1, <1>3, <1>11 DEF UpdateFolder
  <2>2. d \in {NoRow} \cup FolderRows /\ (d # NoRow => d.name = n)
    BY <1>1, <1>4 DEF FolderRows
  <2>3. r \in FolderRequests /\ r.at = "clear" /\ r.folder = f /\ r.save = n /\ r.draft = d
    BY <1>1, <1>3, <2>2 DEF FolderRequests, Stages
  <2>4. ~Writes(w)
    BY <1>11 DEF UpdateFolder, Writes
  <2>. HIDE DEF r, d
  <2>5. holder' \in [FolderIds -> Workers \cup {Unheld}]
        /\ \A g \in FolderIds : \/ holder'[g] = Unheld
                                \/ holder'[g] = w /\ r.at \in {"clear", "insert"} /\ r.folder = g
                                \/ holder'[g] # w /\ holder'[g] = holder[g]
    BY <1>1, <1>5, <2>1, <2>3, <2>4
  <2>6. /\ rows' \in [FolderIds -> {NoRow} \cup FolderRows] /\ FoldersAreWhole'
        /\ \A g \in FolderIds : rows'[g] # NoRow => rows'[g].name \in 1 .. Len(saves)
        /\ UNCHANGED <<myFolders, editing, listing, saves>>
    BY <1>1, <1>8, <2>1
  <2>7. /\ r.folder \in FolderIds /\ r.save \in 1 .. Len(saves) /\ saves[r.save].folder = r.folder
        /\ r.draft # NoRow => r.draft.name = r.save
    BY <1>1, <1>3, <1>4, <2>2, <2>3
  <2>8. worker' = [worker EXCEPT ![w] = r] /\ r \in FolderRequests
    BY <2>1, <2>3
  <2>. QED  BY <2>5, <2>6, <2>7, <2>8, RequestGoesOn
<1>12. CASE ClearChats(w)
  <2>. DEFINE d == [worker[w].draft EXCEPT !.chats = {}]
              r == [worker[w] EXCEPT !.at = "insert", !.draft = d]
  <2>1. worker' = [worker EXCEPT ![w] = r] /\ UNCHANGED <<rows, holder, myFolders, editing, listing, saves>>
        /\ Writes(w)
    BY <1>1, <1>12 DEF ClearChats, Writes
  <2>2. d \in {NoRow} \cup FolderRows /\ (d # NoRow => d.name = n)
    <3>1. worker[w].draft \in {NoRow} \cup FolderRows
      BY <1>1 DEF FolderRequests
    <3>2. CASE worker[w].draft = NoRow
      <4>1. ASSUME NEW z, z \in [name : {0}, chats : {{}}] PROVE [z EXCEPT !.chats = {}] = z
        BY <4>1
      <4>2. NoRow \in [name : {0}, chats : {{}}]
        BY DEF NoRow
      <4>. QED  BY <3>2, <4>1, <4>2
    <3>3. CASE worker[w].draft # NoRow
      BY <1>4, <2>1, <3>1, <3>3 DEF FolderRows
    <3>. QED  BY <3>2, <3>3
  <2>3. r \in FolderRequests /\ r.at = "insert" /\ r.folder = f /\ r.save = n /\ r.draft = d
    BY <1>1, <1>3, <2>2 DEF FolderRequests, Stages
  <2>. HIDE DEF r, d
  <2>4. \A g \in FolderIds : \/ holder'[g] = Unheld
                             \/ holder'[g] = w /\ r.at \in {"clear", "insert"} /\ r.folder = g
                             \/ holder'[g] # w /\ holder'[g] = holder[g]
    <3>1. ASSUME NEW g \in FolderIds
          PROVE  \/ holder'[g] = Unheld
                 \/ holder'[g] = w /\ r.at \in {"clear", "insert"} /\ r.folder = g
                 \/ holder'[g] # w /\ holder'[g] = holder[g]
      <4>1. holder'[g] = holder[g]
        BY <2>1
      <4>2. holder[g] = w => holder[g] = Unheld \/ g = f
        BY <1>5, <3>1
      <4>. QED  BY <2>3, <4>1, <4>2
    <3>. QED  BY <3>1
  <2>5. /\ rows' \in [FolderIds -> {NoRow} \cup FolderRows] /\ FoldersAreWhole'
        /\ \A g \in FolderIds : rows'[g] # NoRow => rows'[g].name \in 1 .. Len(saves)
        /\ UNCHANGED <<myFolders, editing, listing, saves>>
    BY <1>1, <1>8, <2>1
  <2>6. /\ r.folder \in FolderIds /\ r.save \in 1 .. Len(saves) /\ saves[r.save].folder = r.folder
        /\ r.draft # NoRow => r.draft.name = r.save
        /\ holder' \in [FolderIds -> Workers \cup {Unheld}]
    BY <1>1, <1>3, <1>4, <2>1, <2>2, <2>3
  <2>7. worker' = [worker EXCEPT ![w] = r] /\ r \in FolderRequests
    BY <2>1, <2>2, <2>3
  <2>. QED  BY <2>4, <2>5, <2>6, <2>7, RequestGoesOn
<1>13. ASSUME NEW c \in FolderChats, InsertChat(w, c) PROVE FoldersInv'
  <2>. DEFINE d == [worker[w].draft EXCEPT !.chats = @ \cup {c}]
              r == [worker[w] EXCEPT !.draft = d]
  <2>1. worker' = [worker EXCEPT ![w] = r] /\ UNCHANGED <<rows, holder, myFolders, editing, listing, saves>>
        /\ Writes(w) /\ worker[w].draft # NoRow /\ worker[w].at = "insert"
    BY <1>1, <1>13 DEF InsertChat, Writes
  <2>2. d \in FolderRows /\ d.name = n
    BY <1>1, <1>4, <2>1 DEF FolderRequests, FolderRows
  <2>3. r \in FolderRequests /\ r.at = "insert" /\ r.folder = f /\ r.save = n /\ r.draft = d
    BY <1>1, <1>3, <2>1, <2>2 DEF FolderRequests, Stages
  <2>. HIDE DEF r, d
  <2>4. \A g \in FolderIds : \/ holder'[g] = Unheld
                             \/ holder'[g] = w /\ r.at \in {"clear", "insert"} /\ r.folder = g
                             \/ holder'[g] # w /\ holder'[g] = holder[g]
    BY <1>5, <2>1, <2>3
  <2>5. /\ rows' \in [FolderIds -> {NoRow} \cup FolderRows] /\ FoldersAreWhole'
        /\ \A g \in FolderIds : rows'[g] # NoRow => rows'[g].name \in 1 .. Len(saves)
        /\ UNCHANGED <<myFolders, editing, listing, saves>>
    BY <1>1, <1>8, <2>1
  <2>6. /\ r.folder \in FolderIds /\ r.save \in 1 .. Len(saves) /\ saves[r.save].folder = r.folder
        /\ r.draft # NoRow => r.draft.name = r.save
        /\ holder' \in [FolderIds -> Workers \cup {Unheld}]
    BY <1>1, <1>3, <1>4, <2>1, <2>2, <2>3
  <2>7. worker' = [worker EXCEPT ![w] = r] /\ r \in FolderRequests
    BY <2>1, <2>2, <2>3
  <2>. QED  BY <2>4, <2>5, <2>6, <2>7, RequestGoesOn
<1>14. CASE CommitFolder(w)
  <2>1. /\ EndRequest(w) /\ Unlocked(w) /\ UNCHANGED <<myFolders, editing, listing, saves>>
        /\ worker[w].draft.chats = saves[n].chats /\ Writes(w)
        /\ rows' = IF worker[w].draft = NoRow THEN rows ELSE [rows EXCEPT ![f] = worker[w].draft]
    BY <1>3, <1>14 DEF CommitFolder, Writes
  <2>2. CASE worker[w].draft = NoRow
    BY <1>1, <1>6, <1>7, <1>8, <2>1, <2>2, RequestGoesOn DEF EndRequest
  <2>3. CASE worker[w].draft # NoRow
    <3>1. worker[w].draft \in FolderRows /\ worker[w].draft.name = n
      BY <1>1, <1>4, <2>1, <2>3 DEF FolderRequests
    <3>2. rows' \in [FolderIds -> {NoRow} \cup FolderRows]
          /\ rows'[f] = worker[w].draft /\ \A g \in FolderIds \ {f} : rows'[g] = rows[g]
      BY <1>1, <2>1, <2>3, <3>1
    <3>3. saves[n] = [folder |-> f, chats |-> worker[w].draft.chats]
      BY <1>1, <1>4, <2>1
    <3>4. FoldersAreWhole'
      <4>1. ASSUME NEW g \in FolderIds, rows'[g] # NoRow
            PROVE  saves'[rows'[g].name] = [folder |-> g, chats |-> rows'[g].chats]
        BY <2>1, <3>1, <3>2, <3>3, <4>1 DEF FoldersInv, FoldersAreWhole
      <4>. QED  BY <4>1 DEF FoldersAreWhole
    <3>5. \A g \in FolderIds : rows'[g] # NoRow => rows'[g].name \in 1 .. Len(saves)
      BY <3>1, <3>2 DEF FoldersInv
    <3>. QED  BY <1>1, <1>6, <1>7, <2>1, <3>2, <3>4, <3>5, RequestGoesOn DEF EndRequest
  <2>. QED  BY <2>2, <2>3
<1>15. CASE RollbackFolder(w)
  BY <1>1, <1>6, <1>7, <1>8, <1>15, RequestGoesOn DEF RollbackFolder, AfterRollback, EndRequest
<1>16. CASE LoseRequest(w)
  <2>1. ~Writes(w) /\ UNCHANGED <<rows, holder, myFolders, editing, listing, saves>> /\ EndRequest(w)
    BY <1>16 DEF LoseRequest, Writes
  <2>2. \A g \in FolderIds : \/ holder'[g] = Unheld \/ (holder'[g] # w /\ holder'[g] = holder[g])
    BY <1>5, <2>1
  <2>. QED  BY <1>1, <1>6, <1>8, <2>1, <2>2, RequestGoesOn DEF EndRequest
<1>. QED  BY <1>9, <1>10, <1>11, <1>12, <1>13, <1>14, <1>15, <1>16

\* Every step keeps the folders whole.
LEMMA NextFolders == FoldersInv /\ [FoldersNext]_folderVars => FoldersInv'
<1>1. SUFFICES ASSUME FoldersInv, [FoldersNext]_folderVars PROVE FoldersInv'
  OBVIOUS
<1>2. CASE UNCHANGED folderVars
  <2>1. UNCHANGED <<rows, holder, worker, myFolders, editing, listing, saves>>
    BY <1>2 DEF folderVars
  <2>2. FoldersTypeOK' /\ FoldersAreWhole'
    BY <1>1, <2>1 DEF FoldersInv, FoldersTypeOK, FoldersAreWhole, Writes
  <2>3. \A w \in Workers : ServesItsSave(w)'
    BY <1>1, <2>1 DEF FoldersInv, ServesItsSave, Writes
  <2>. QED  BY <1>1, <2>1, <2>2, <2>3 DEF FoldersInv
<1>. QED  BY <1>1, <1>2, DialogSteps, ListingSteps, DeleteStep, SaveStep, RequestSteps DEF FoldersNext

\* The tables, the requests and what the window shows keep their types, and a
\* transaction that holds a row is at work on it (folders_repo).
THEOREM FoldersTyped == FoldersSpec => []FoldersTypeOK
<1>1. FoldersInv => FoldersTypeOK
  BY DEF FoldersInv
<1>. QED  BY <1>1, InitFolders, NextFolders, PTL DEF FoldersSpec

\* The server keeps folders only as the user saved them, a name with its chats, in
\* whatever order the requests of a desktop arrive, overlap or fail
\* (insert_folder_with_chats, update_folder_with_chats).
THEOREM WholeFolders == FoldersSpec => []FoldersAreWhole
<1>1. FoldersInv => FoldersAreWhole
  BY DEF FoldersInv
<1>. QED  BY <1>1, InitFolders, NextFolders, PTL DEF FoldersSpec

-----------------------------------------------------------------------------
(***************************************************************************)
(* Updating.  The program is taken from its place only when a backup       *)
(* directory of this update waits for it, and its place is written only    *)
(* when it is empty; what an earlier update kept in a backup stays there.  *)
(***************************************************************************)

Programs == {"old", "new"}

UpdateInv ==
    /\ ProgramSurvives
    /\ system \in DetectPlatform
    /\ task \in {"unpack", "xcopy"} => system = "win32"
    /\ task = "move" => moved = "empty"
    /\ task \in {"extract", "verify"} /\ system # "win32" => moved \in Programs \/ saved \cap Programs # {}

\* At first the program is in its place.
LEMMA InitUpdater == UpdaterInit => UpdateInv
  BY DEF UpdaterInit, UpdateInv, ProgramSurvives, Programs

\* What the dialog, the download and the platforms that refuse do to the files.
LEMMA StepsBesideThePrograms ==
    ASSUME UpdateInv, UNCHANGED <<installed, moved, saved, system>>,
           task' \in {task, "idle", "download", "downloading", "apply"}
                     \/ (task' = "mkdir") \/ (task' \in {"unpack", "xcopy"} /\ system = "win32")
                     \/ (task = "move" /\ task' = "move")
    PROVE  UpdateInv'
  BY DEF UpdateInv, ProgramSurvives

\* Every step of the updater keeps it so.
LEMMA NextUpdater == UpdateInv /\ [UpdaterNext]_updateVars => UpdateInv'
<1>. SUFFICES ASSUME UpdateInv, [UpdaterNext]_updateVars PROVE UpdateInv'
  OBVIOUS
<1>1. ASSUME \/ Check \/ CheckFails \/ (\E v \in Versions : CheckAnswers(v))
             \/ UpdateLater \/ UpdateNow \/ CancelUpdates
             \/ WriteChunks \/ StreamEnds \/ ComparesHash \/ DownloadFails
             \/ UNCHANGED updateVars
      PROVE  UpdateInv'
  BY <1>1, StepsBesideThePrograms
     DEF Check, CheckFails, CheckAnswers, OnNewVersion, UpdateLater, UpdateNow, CancelUpdates, WriteChunks,
         StreamEnds, ComparesHash, DownloadFails, CheckUnchanged, updateVars, fileVars, dialogUpVars
<1>2. CASE StartApply \/ Unpack \/ Killed
  BY <1>2, StepsBesideThePrograms
     DEF UpdateInv, StartApply, Unpack, Killed, DetectPlatform, CheckUnchanged, fileVars, dialogUpVars
<1>3. CASE MakeBackup
  BY <1>3 DEF UpdateInv, ProgramSurvives, MakeBackup, AfterMkdir, CheckUnchanged, Programs
<1>4. CASE MoveAway
  BY <1>4 DEF UpdateInv, ProgramSurvives, MoveAway, CheckUnchanged, Programs
<1>5. CASE Extract \/ Verified
  BY <1>5 DEF UpdateInv, ProgramSurvives, Extract, Verified, CheckUnchanged, Programs
<1>6. CASE ApplyFails
  BY <1>6 DEF UpdateInv, ProgramSurvives, ApplyFails, CheckUnchanged, Programs
<1>7. CASE CopyOver
  BY <1>7 DEF UpdateInv, ProgramSurvives, CopyOver, CheckUnchanged, Programs
<1>. QED  BY <1>1, <1>2, <1>3, <1>4, <1>5, <1>6, <1>7 DEF UpdaterNext

\* Whatever fails and whenever the process ends, on every system but Windows
\* a whole program is in its place or in a backup beside it (apply_update).
THEOREM ProgramKept == UpdaterSpec => []ProgramSurvives
<1>1. UpdateInv => ProgramSurvives
  BY DEF UpdateInv
<1>. QED  BY <1>1, InitUpdater, NextUpdater, PTL DEF UpdaterSpec

-----------------------------------------------------------------------------
(***************************************************************************)
(* Dialogs of friends and rooms.  Whoever was picked for a room is still   *)
(* to be invited, or was refused, or is a member of it.                    *)
(***************************************************************************)

Creations == [at : {"none", "upload", "create", "invite", "entered"}, left : SUBSET Known,
              chosen : SUBSET Known, refused : SUBSET Known]

RoomInv ==
    /\ picked \subseteq Known /\ creation \in Creations
    /\ creation.at \in {"upload", "create"} => creation.left = creation.chosen
    /\ creation.at = "entered" => creation.left = {}
    /\ creation.at \in {"invite", "entered"} =>
          /\ creation.chosen \ (creation.left \cup creation.refused) \subseteq members
          /\ creation.left \subseteq creation.chosen
          /\ members \subseteq creation.chosen \cup {Myself}

\* At first no room is being created.
LEMMA InitDialogs == DialogsInit => RoomInv
  BY DEF DialogsInit, RoomInv, Creations, NoCreation

\* Steps that neither create a room nor pick a friend.
LEMMA StepsBesideTheRoom ==
    ASSUME RoomInv, UNCHANGED <<creation, members>>, picked' \in {picked, {}}
    PROVE  RoomInv'
  BY DEF RoomInv

\* Every step of the dialogs keeps it so.
LEMMA NextDialogs == RoomInv /\ [DialogsNext]_dialogVars => RoomInv'
<1>. SUFFICES ASSUME RoomInv, [DialogsNext]_dialogVars PROVE RoomInv'
  OBVIOUS
<1>1. CASE OpenAddFriend \/ OpenPendingRequests \/ OpenNewGroup \/ CloseDialog \/ SearchClicked \/ RequestClicked
           \/ UNCHANGED dialogVars
  BY <1>1, StepsBesideTheRoom
     DEF OpenAddFriend, OpenPendingRequests, OpenNewGroup, Open, CloseDialog, Shutting, SearchClicked,
         RequestClicked, dialogVars, groupVars, serverVars
<1>2. ASSUME NEW row \in requests, NEW what \in {"accept", "reject"}, RowClicked(what, row) PROVE RoomInv'
  BY <1>2, StepsBesideTheRoom DEF RowClicked, groupVars, serverVars
<1>3. ASSUME NEW p \in People, SelectPerson(p) \/ SomebodyAsks(p) PROVE RoomInv'
  BY <1>3, StepsBesideTheRoom DEF SelectPerson, SomebodyAsks, groupVars, serverVars
<1>4. ASSUME NEW c \in calls,
             \/ ServeSearch(c) \/ ServePending(c) \/ ServeAsk(c) \/ ServeAccept(c)
             \/ ServeReject(c) \/ Lose(c)
             \/ ShowResults(c) \/ ShowRows(c) \/ Asked(c) \/ Resolved(c)
      PROVE  RoomInv'
  BY <1>4, StepsBesideTheRoom
     DEF ServeSearch, ServePending, ServeAsk, ServeAccept, ServeReject, Lose, ShowResults, ShowRows, Asked,
         Resolved, Shutting, groupVars, serverVars
<1>5. ASSUME NEW p \in People, FriendClicked(p) PROVE RoomInv'
  BY <1>5 DEF RoomInv, FriendClicked, serverVars
<1>6. CASE CreateClicked
  BY <1>6 DEF RoomInv, Creations, CreateClicked, CreateRoomWithAvatar, Shutting, serverVars
<1>7. CASE CreateRoomChain
  BY <1>7 DEF RoomInv, Creations, CreateRoomChain, NothingElse
<1>8. CASE CreateRoom \/ CreateFails
  BY <1>8 DEF RoomInv, Creations, CreateRoom, CreateFails, RoomMade, NoCreation, NothingElse
<1>9. ASSUME NEW p \in People, InviteOne(p) \/ InviteFails(p) PROVE RoomInv'
  <2>1. /\ creation \in Creations /\ creation.at = "invite" /\ p \in creation.left /\ p \in Known
        /\ picked' = picked
    BY <1>9 DEF RoomInv, Creations, InviteOne, InviteFails, NothingElse
  <2>2. CASE InviteOne(p)
    BY <2>1, <2>2 DEF RoomInv, Creations, InviteOne
  <2>3. CASE InviteFails(p)
    BY <2>1, <2>3 DEF RoomInv, Creations, InviteFails, AfterRefusal
  <2>. QED  BY <1>9, <2>2, <2>3
<1>10. CASE EnterRoom
  BY <1>10 DEF RoomInv, Creations, EnterRoom, NothingElse
<1>. QED  BY <1>1, <1>2, <1>3, <1>4, <1>5, <1>6, <1>7, <1>8, <1>9, <1>10 DEF DialogsNext

\* A room the desktop enters after it created it has every friend that was
\* picked, but those whose own invitation failed, and nobody else.
THEOREM RoomsAreWhole == DialogsSpec => []RoomIsWhole
<1>1. RoomInv => RoomIsWhole
  BY DEF RoomInv, RoomIsWhole
<1>. QED  BY <1>1, InitDialogs, NextDialogs, PTL DEF DialogsSpec

-----------------------------------------------------------------------------
(***************************************************************************)
(* Alerts.  Whatever OBS says it did waits in the inbox of a socket, and   *)
(* stays true there: done only grows, so a late answer is no lie.          *)
(***************************************************************************)

Truths(d) ==
    {m \in [op : {"hello", "identified", "event", "response"}, id : Nat, ok : BOOLEAN] :
        m.op = "response" /\ m.ok => m.id \in d}

\* A socket, when d was done and n requests were sent.
SocketRows(d, n) ==
    [state : {"greeting", "identified", "closed"}, inbox : Seq(Truths(d)), requests : Seq(0 .. n)]

AlertsInv ==
    /\ AlertsTypeOK /\ SuccessWasDone
    /\ sockets \in Seq(SocketRows(done, requested))
    /\ chat \in [StreamPlatforms -> {"off", "joining", "on"}]
    /\ chatted \in [StreamPlatforms -> {0, 1}] /\ isConnected \in BOOLEAN
    /\ alert \in [StreamPlatforms -> [sock : Nat, id : Nat]]
    /\ \A p \in StreamPlatforms : alert[p] = Quiet \/ alert[p].sock \in DOMAIN sockets

\* What was true stays true when more is done and more was asked.
LEMMA StaysTrue ==
    ASSUME NEW d, NEW e, d \subseteq e, NEW m \in Nat, NEW n \in Nat, m <= n,
           NEW s \in Seq(SocketRows(d, m))
    PROVE  s \in Seq(SocketRows(e, n))
<1>1. Truths(d) \subseteq Truths(e) /\ 0 .. m \subseteq 0 .. n
  BY DEF Truths
<1>2. SocketRows(d, m) \subseteq SocketRows(e, n)
  <2>. DEFINE D == Truths(d)  E == Truths(e)
  <2>1. D \subseteq E /\ 0 .. m \subseteq 0 .. n
    BY <1>1
  <2>. HIDE DEF D, E
  <2>2. Seq(D) \subseteq Seq(E) /\ Seq(0 .. m) \subseteq Seq(0 .. n)
    BY <2>1
  <2>. QED  BY <2>2 DEF SocketRows, D, E
<1>. DEFINE R == SocketRows(d, m)  Q == SocketRows(e, n)
<1>3. s \in Seq(R) /\ R \subseteq Q
  BY <1>2
<1>. HIDE DEF R, Q
<1>4. s \in Seq(Q)
  BY <1>3
<1>. QED  BY <1>4 DEF Q

\* One socket of a sequence of them is replaced.
LEMMA ReplaceSocket ==
    ASSUME NEW d, NEW q \in Nat, NEW s \in Seq(SocketRows(d, q)), NEW n \in DOMAIN s,
           NEW r \in SocketRows(d, q)
    PROVE  [s EXCEPT ![n] = r] \in Seq(SocketRows(d, q)) /\ DOMAIN [s EXCEPT ![n] = r] = DOMAIN s
<1>. DEFINE R == SocketRows(d, q)
<1>1. s \in Seq(R) /\ r \in R /\ n \in 1 .. Len(s)
  OBVIOUS
<1>. HIDE DEF R
<1>2. [s EXCEPT ![n] = r] \in Seq(R) /\ DOMAIN [s EXCEPT ![n] = r] = DOMAIN s
  BY <1>1
<1>. QED  BY <1>2 DEF R

\* What is known of one socket of them.
LEMMA OneSocket ==
    ASSUME NEW d, NEW q \in Nat, NEW s \in Seq(SocketRows(d, q)), NEW n \in DOMAIN s
    PROVE  /\ s[n] \in SocketRows(d, q)
           /\ s[n].inbox \in Seq(Truths(d)) /\ s[n].requests \in Seq(0 .. q)
<1>. DEFINE R == SocketRows(d, q)
<1>1. s \in Seq(R) /\ n \in 1 .. Len(s)
  OBVIOUS
<1>. HIDE DEF R
<1>2. s[n] \in R
  BY <1>1
<1>. QED  BY <1>2 DEF R, SocketRows

\* OBS puts a message that is true into the inbox of a socket.
LEMMA AnswersTrue ==
    ASSUME NEW d, NEW q \in Nat, NEW s \in Seq(SocketRows(d, q)), NEW n \in DOMAIN s, NEW m \in Truths(d)
    PROVE  Answers(s, n, m) \in Seq(SocketRows(d, q)) /\ DOMAIN Answers(s, n, m) = DOMAIN s
<1>. DEFINE r == [s[n] EXCEPT !.inbox = Append(s[n].inbox, m)]
<1>1. s[n] \in SocketRows(d, q) /\ s[n].inbox \in Seq(Truths(d))
  BY OneSocket
<1>2. Append(s[n].inbox, m) \in Seq(Truths(d))
  BY <1>1, AppendProperties
<1>3. r \in SocketRows(d, q)
  BY <1>1, <1>2 DEF SocketRows
<1>4. Answers(s, n, m) = [s EXCEPT ![n] = r]
  BY DEF Answers
<1>. HIDE DEF r
<1>. QED  BY <1>3, <1>4, ReplaceSocket

\* A socket that is closed keeps what is under way; so does one that is identified.
LEMMA StateChanges ==
    ASSUME NEW d, NEW q \in Nat, NEW s \in Seq(SocketRows(d, q)), NEW n \in DOMAIN s,
           NEW t \in {"identified", "closed"}
    PROVE  [s EXCEPT ![n].state = t] \in Seq(SocketRows(d, q)) /\ DOMAIN [s EXCEPT ![n].state = t] = DOMAIN s
<1>. DEFINE r == [s[n] EXCEPT !.state = t]
<1>1. s[n] \in SocketRows(d, q)
  BY OneSocket
<1>3. r \in SocketRows(d, q)
  BY <1>1 DEF SocketRows
<1>4. [s EXCEPT ![n].state = t] = [s EXCEPT ![n] = r]
  OBVIOUS
<1>. HIDE DEF r
<1>. QED  BY <1>3, <1>4, ReplaceSocket

\* _safe_close and disconnect close the socket of the client, if it has one.
LEMMA CloseSocket ==
    ASSUME NEW d, NEW q \in Nat, NEW s \in Seq(SocketRows(d, q)), NEW n \in {NoSocket} \cup DOMAIN s
    PROVE  Closed(s, n) \in Seq(SocketRows(d, q)) /\ DOMAIN Closed(s, n) = DOMAIN s
  BY StateChanges DEF Closed

\* The first message of an inbox is taken, and it is true.
LEMMA ReadInbox ==
    ASSUME NEW d, NEW q \in Nat, NEW s \in Seq(SocketRows(d, q)), NEW n \in DOMAIN s, s[n].inbox # <<>>
    PROVE  /\ Head(s[n].inbox) \in Truths(d)
           /\ [s EXCEPT ![n].inbox = Tail(@)] \in Seq(SocketRows(d, q))
           /\ DOMAIN [s EXCEPT ![n].inbox = Tail(@)] = DOMAIN s
<1>. DEFINE r == [s[n] EXCEPT !.inbox = Tail(s[n].inbox)]
<1>1. s[n] \in SocketRows(d, q) /\ s[n].inbox \in Seq(Truths(d))
  BY OneSocket
<1>2. Tail(s[n].inbox) \in Seq(Truths(d)) /\ Head(s[n].inbox) \in Truths(d)
  BY <1>1, HeadTailProperties
<1>3. r \in SocketRows(d, q)
  BY <1>1, <1>2 DEF SocketRows
<1>4. [s EXCEPT ![n].inbox = Tail(@)] = [s EXCEPT ![n] = r]
  OBVIOUS
<1>. HIDE DEF r
<1>. QED  BY <1>2, <1>3, <1>4, ReplaceSocket

\* OBS takes the first request of a socket, which was sent.
LEMMA TakeRequest ==
    ASSUME NEW d, NEW q \in Nat, NEW s \in Seq(SocketRows(d, q)), NEW n \in DOMAIN s, s[n].requests # <<>>
    PROVE  /\ Head(s[n].requests) \in 0 .. q
           /\ [s EXCEPT ![n].requests = Tail(@)] \in Seq(SocketRows(d, q))
           /\ DOMAIN [s EXCEPT ![n].requests = Tail(@)] = DOMAIN s
<1>. DEFINE r == [s[n] EXCEPT !.requests = Tail(s[n].requests)]
<1>1. s[n] \in SocketRows(d, q) /\ s[n].requests \in Seq(0 .. q)
  BY OneSocket
<1>2. Tail(s[n].requests) \in Seq(0 .. q) /\ Head(s[n].requests) \in 0 .. q
  BY <1>1, HeadTailProperties
<1>3. r \in SocketRows(d, q)
  BY <1>1, <1>2 DEF SocketRows
<1>4. [s EXCEPT ![n].requests = Tail(@)] = [s EXCEPT ![n] = r]
  OBVIOUS
<1>. HIDE DEF r
<1>. QED  BY <1>2, <1>3, <1>4, ReplaceSocket

\* A request is sent on a socket.
LEMMA SendRequest ==
    ASSUME NEW d, NEW q \in Nat, NEW s \in Seq(SocketRows(d, q)), NEW n \in DOMAIN s, NEW i \in 0 .. q
    PROVE  /\ [s EXCEPT ![n].requests = Append(@, i)] \in Seq(SocketRows(d, q))
           /\ DOMAIN [s EXCEPT ![n].requests = Append(@, i)] = DOMAIN s
<1>. DEFINE r == [s[n] EXCEPT !.requests = Append(s[n].requests, i)]
<1>1. s[n] \in SocketRows(d, q) /\ s[n].requests \in Seq(0 .. q)
  BY OneSocket
<1>2. Append(s[n].requests, i) \in Seq(0 .. q)
  BY <1>1, AppendProperties
<1>3. r \in SocketRows(d, q)
  BY <1>1, <1>2 DEF SocketRows
<1>4. [s EXCEPT ![n].requests = Append(@, i)] = [s EXCEPT ![n] = r]
  OBVIOUS
<1>. HIDE DEF r
<1>. QED  BY <1>3, <1>4, ReplaceSocket

\* At first there is no socket.
LEMMA InitAlerts == AlertsInit => AlertsInv
<1>. SUFFICES ASSUME AlertsInit PROVE AlertsInv
  OBVIOUS
<1>1. MaxRequests \in Nat /\ MaxEvents \in Nat
  BY AlertsAssumption
<1>2. AlertsTypeOK /\ SuccessWasDone
  BY <1>1 DEF AlertsInit, AlertsTypeOK, SuccessWasDone, Quiet, NoSocket
<1>. DEFINE R == SocketRows(done, requested)
<1>. HIDE DEF R
<1>3. sockets \in Seq(R)
  BY DEF AlertsInit
<1>4. /\ chat \in [StreamPlatforms -> {"off", "joining", "on"}]
      /\ chatted \in [StreamPlatforms -> {0, 1}] /\ isConnected \in BOOLEAN
  BY DEF AlertsInit
<1>5. /\ alert \in [StreamPlatforms -> [sock : Nat, id : Nat]]
      /\ \A p \in StreamPlatforms : alert[p] = Quiet
  BY DEF AlertsInit, Quiet, NoSocket
<1>. QED  BY <1>2, <1>3, <1>4, <1>5 DEF AlertsInv, R

\* Steps that leave every request and every loop as they are.
LEMMA SocketsGoOn ==
    ASSUME AlertsInv, done \subseteq done', done' \subseteq 1 .. requested, UNCHANGED <<requested, chat, chatted, alert>>,
           reported' \subseteq done',
           sockets' \in Seq(SocketRows(done', requested)), DOMAIN sockets \subseteq DOMAIN sockets',
           ws' \in {NoSocket} \cup DOMAIN sockets', connecting' \in {NoSocket} \cup DOMAIN sockets',
           isConnected' \in BOOLEAN, events' \in 0 .. MaxEvents
    PROVE  AlertsInv'
<1>. DEFINE R == SocketRows(done', requested)
<1>1. sockets' \in Seq(R)
  OBVIOUS
<1>. HIDE DEF R
<1>2. AlertsTypeOK' /\ SuccessWasDone'
  BY DEF AlertsInv, AlertsTypeOK, SuccessWasDone
<1>. QED  BY <1>1, <1>2 DEF AlertsInv, R

\* The loops of the platforms.
LEMMA ChatSteps ==
    ASSUME AlertsInv, NEW p \in StreamPlatforms, JoinChat(p) \/ JoinedChat(p) \/ Chatter(p) \/ EndChat(p) \/ GiveUp(p)
    PROVE  AlertsInv'
<1>1. UNCHANGED <<ws, isConnected, sockets, connecting, requested, events, done, reported>>
  BY DEF JoinChat, JoinedChat, Chatter, EndChat, GiveUp, obsVars
<1>2. /\ chat' \in [StreamPlatforms -> {"off", "joining", "on"}]
      /\ chatted' \in [StreamPlatforms -> {0, 1}]
      /\ alert' \in [StreamPlatforms -> [sock : Nat, id : Nat]]
  <2>1. chat' \in [StreamPlatforms -> {"off", "joining", "on"}]
    BY DEF AlertsInv, JoinChat, JoinedChat, Greeted, Chatter, EndChat, GiveUp
  <2>2. chatted' \in [StreamPlatforms -> {0, 1}]
    BY DEF AlertsInv, JoinChat, JoinedChat, Chatter, EndChat, LoopReads, GiveUp, EndAlert
  <2>3. alert' = alert \/ alert' = [alert EXCEPT ![p] = Quiet]
    BY DEF JoinChat, JoinedChat, Chatter, EndChat, GiveUp, EndAlert, obsVars
  <2>4. Quiet \in [sock : Nat, id : Nat]
    BY DEF Quiet, NoSocket
  <2>5. alert' \in [StreamPlatforms -> [sock : Nat, id : Nat]]
    BY <2>3, <2>4 DEF AlertsInv
  <2>. QED  BY <2>1, <2>2, <2>5
<1>3. \A o \in StreamPlatforms : /\ alert'[o] = Quiet \/ (alert'[o] = alert[o] /\ (chatted'[o] = chatted[o] \/ chatted'[o] = 1))
  BY DEF AlertsInv, JoinChat, JoinedChat, Greeted, Chatter, EndChat, LoopReads, GiveUp, EndAlert, obsVars
<1>4. AlertsTypeOK' /\ SuccessWasDone'
  BY <1>1, <1>2, <1>3 DEF AlertsInv, AlertsTypeOK, SuccessWasDone, Quiet
<1>5. \A o \in StreamPlatforms : alert'[o] = Quiet \/ alert'[o].sock \in DOMAIN sockets'
  BY <1>1, <1>3 DEF AlertsInv
<1>. DEFINE R == SocketRows(done, requested)
<1>6. sockets \in Seq(R)
  BY DEF AlertsInv
<1>. HIDE DEF R
<1>7. sockets' \in Seq(R)
  BY <1>1, <1>6
<1>. QED  BY <1>1, <1>2, <1>4, <1>5, <1>7 DEF AlertsInv, R

\* The connection to OBS.
LEMMA ConnectionSteps ==
    ASSUME AlertsInv, Dial \/ DialFails \/ Handshake \/ HandshakeFails \/ Disconnect
    PROVE  AlertsInv'
<1>1. /\ UNCHANGED <<requested, events, done, reported, chat, chatted, alert>>
      /\ done \subseteq 1 .. requested /\ reported \subseteq done /\ requested \in Nat /\ events \in 0 .. MaxEvents
      /\ ws \in {NoSocket} \cup DOMAIN sockets /\ connecting \in {NoSocket} \cup DOMAIN sockets
      /\ isConnected \in BOOLEAN /\ sockets \in Seq(SocketRows(done, requested))
  BY DEF AlertsInv, AlertsTypeOK, SuccessWasDone, Dial, DialFails, Handshake, HandshakeFails, Disconnect, chatVars
<1>2. CASE Dial
  <2>. DEFINE R == SocketRows(done, requested)
              hello == <<Message("hello", 0, TRUE)>>
              r == [state |-> "greeting", inbox |-> hello, requests |-> <<>>]
  <2>1. Message("hello", 0, TRUE) \in Truths(done)
    BY DEF Message, Truths
  <2>2. hello \in Seq(Truths(done))
    <3>. DEFINE T == Truths(done)  m == Message("hello", 0, TRUE)
    <3>1. m \in T
      BY <2>1
    <3>. HIDE DEF T, m
    <3>2. <<m>> \in Seq(T)
      BY <3>1
    <3>. QED  BY <3>2 DEF T, m
  <2>. HIDE DEF hello
  <2>3. r \in R
    BY <2>2 DEF SocketRows
  <2>4. sockets' = Append(sockets, r) /\ ws' = Len(sockets') /\ connecting' = ws' /\ isConnected' = isConnected
    BY <1>2 DEF Dial, hello
  <2>5. sockets \in Seq(R)
    BY <1>1
  <2>. HIDE DEF R, r
  <2>6. sockets' \in Seq(R) /\ Len(sockets') = Len(sockets) + 1
    BY <2>3, <2>4, <2>5, AppendProperties
  <2>7. DOMAIN sockets \subseteq DOMAIN sockets' /\ ws' \in DOMAIN sockets'
    BY <2>4, <2>5, <2>6
  <2>8. sockets' \in Seq(SocketRows(done', requested))
    BY <1>1, <2>6 DEF R
  <2>. QED  BY <1>1, <2>4, <2>7, <2>8, SocketsGoOn
<1>3. CASE DialFails
  <2>1. sockets' = sockets /\ ws' = NoSocket /\ isConnected' = isConnected /\ connecting' = connecting
    BY <1>3 DEF DialFails
  <2>. QED  BY <1>1, <2>1, SocketsGoOn
<1>4. CASE SafeClose
  <2>1. /\ sockets' = Closed(sockets, ws) /\ ws' = NoSocket /\ isConnected' = FALSE /\ connecting' = NoSocket
    BY <1>4 DEF SafeClose
  <2>2. sockets' \in Seq(SocketRows(done, requested)) /\ DOMAIN sockets' = DOMAIN sockets
    BY <1>1, <2>1, CloseSocket
  <2>. QED  BY <1>1, <2>1, <2>2, SocketsGoOn
<1>5. CASE Disconnect
  <2>1. /\ sockets' = Closed(sockets, ws) /\ ws' = NoSocket /\ isConnected' = FALSE /\ connecting' = connecting
    BY <1>5 DEF Disconnect
  <2>2. sockets' \in Seq(SocketRows(done, requested)) /\ DOMAIN sockets' = DOMAIN sockets
    BY <1>1, <2>1, CloseSocket
  <2>. QED  BY <1>1, <2>1, <2>2, SocketsGoOn
<1>6. CASE Handshake /\ ~SafeClose
  <2>. DEFINE rest == [sockets EXCEPT ![connecting].inbox = Tail(@)]
  <2>1. /\ connecting \in DOMAIN sockets /\ sockets[connecting].inbox # <<>> /\ ws = connecting
        /\ \/ sockets' = [rest EXCEPT ![ws].requests = Append(@, 0)] /\ UNCHANGED <<ws, isConnected, connecting>>
           \/ sockets' = rest /\ isConnected' = TRUE /\ connecting' = NoSocket /\ UNCHANGED ws
    BY <1>1, <1>6 DEF Handshake, Inbox
  <2>2. rest \in Seq(SocketRows(done, requested)) /\ DOMAIN rest = DOMAIN sockets
    BY <1>1, <2>1, ReadInbox
  <2>. HIDE DEF rest
  <2>3. /\ [rest EXCEPT ![ws].requests = Append(@, 0)] \in Seq(SocketRows(done, requested))
        /\ DOMAIN [rest EXCEPT ![ws].requests = Append(@, 0)] = DOMAIN sockets
    <3>1. 0 \in 0 .. requested /\ ws \in DOMAIN rest
      BY <1>1, <2>1, <2>2
    <3>. QED  BY <1>1, <2>2, <3>1, SendRequest
  <2>4. sockets' \in Seq(SocketRows(done, requested)) /\ DOMAIN sockets' = DOMAIN sockets
    BY <2>1, <2>2, <2>3
  <2>5. ws' \in {NoSocket} \cup DOMAIN sockets' /\ connecting' \in {NoSocket} \cup DOMAIN sockets' /\ isConnected' \in BOOLEAN
    BY <1>1, <2>1, <2>4
  <2>. QED  BY <1>1, <2>4, <2>5, SocketsGoOn
<1>. QED  BY <1>2, <1>3, <1>4, <1>5, <1>6 DEF HandshakeFails

\* What OBS does with a socket.
LEMMA ObsSteps ==
    ASSUME AlertsInv, NEW n \in DOMAIN sockets, Announce(n) \/ Drop(n) \/ \E ok \in BOOLEAN : ServeObs(n, ok)
    PROVE  AlertsInv'
<1>1. /\ UNCHANGED <<requested, reported, chat, chatted, alert, ws, isConnected, connecting>>
      /\ done \subseteq 1 .. requested /\ reported \subseteq done /\ requested \in Nat /\ events \in 0 .. MaxEvents
      /\ ws \in {NoSocket} \cup DOMAIN sockets /\ connecting \in {NoSocket} \cup DOMAIN sockets
      /\ isConnected \in BOOLEAN /\ sockets \in Seq(SocketRows(done, requested)) /\ MaxEvents \in Nat
  <2>1. MaxEvents \in Nat
    BY AlertsAssumption
  <2>2. UNCHANGED <<requested, reported, chat, chatted, alert, ws, isConnected, connecting>>
    BY DEF Announce, Drop, ServeObs, chatVars
  <2>. QED  BY <2>1, <2>2 DEF AlertsInv, AlertsTypeOK, SuccessWasDone
<1>2. CASE Announce(n)
  <2>. DEFINE m == Message("event", 0, TRUE)
  <2>1. sockets' = Answers(sockets, n, m) /\ events' \in 0 .. MaxEvents /\ done' = done
    BY <1>1, <1>2 DEF Announce
  <2>2. m \in Truths(done)
    BY DEF Message, Truths
  <2>. HIDE DEF m
  <2>3. sockets' \in Seq(SocketRows(done, requested)) /\ DOMAIN sockets' = DOMAIN sockets
    BY <1>1, <2>1, <2>2, AnswersTrue
  <2>. QED  BY <1>1, <2>1, <2>3, SocketsGoOn
<1>3. CASE Drop(n)
  <2>1. sockets' = Closed(sockets, n) /\ events' = events /\ done' = done
    BY <1>3 DEF Drop
  <2>2. sockets' \in Seq(SocketRows(done, requested)) /\ DOMAIN sockets' = DOMAIN sockets
    BY <1>1, <2>1, CloseSocket
  <2>. QED  BY <1>1, <2>1, <2>2, SocketsGoOn
<1>4. ASSUME NEW ok \in BOOLEAN, ServeObs(n, ok) PROVE AlertsInv'
  <2>. DEFINE rest == [sockets EXCEPT ![n].requests = Tail(@)]
              id == Head(sockets[n].requests)
  <2>1. events' = events /\ sockets[n].requests # <<>>
    BY <1>4 DEF ServeObs
  <2>2. id \in 0 .. requested /\ rest \in Seq(SocketRows(done, requested)) /\ DOMAIN rest = DOMAIN sockets
    BY <1>1, <2>1, TakeRequest
  <2>3. \/ done' = done /\ \/ sockets' = [Answers(rest, n, Message("identified", 0, TRUE)) EXCEPT ![n].state = "identified"]
                           \/ sockets' = Closed(rest, n)
        \/ /\ id # 0 /\ sockets' = Answers(rest, n, Message("response", id, ok))
           /\ done' = IF ok THEN done \cup {id} ELSE done
    BY <1>4 DEF ServeObs
  <2>. HIDE DEF rest, id
  <2>4. CASE done' = done /\ sockets' = [Answers(rest, n, Message("identified", 0, TRUE)) EXCEPT ![n].state = "identified"]
    <3>. DEFINE m == Message("identified", 0, TRUE)
                told == Answers(rest, n, m)
    <3>1. m \in Truths(done) /\ n \in DOMAIN rest
      BY <2>2 DEF Message, Truths
    <3>. HIDE DEF m
    <3>2. told \in Seq(SocketRows(done, requested)) /\ DOMAIN told = DOMAIN sockets
      BY <1>1, <2>2, <3>1, AnswersTrue
    <3>3. sockets' = [told EXCEPT ![n].state = "identified"]
      BY <2>4 DEF m
    <3>. HIDE DEF told
    <3>4. sockets' \in Seq(SocketRows(done, requested)) /\ DOMAIN sockets' = DOMAIN sockets
      BY <1>1, <3>2, <3>3, StateChanges
    <3>. QED  BY <1>1, <2>1, <2>4, <3>4, SocketsGoOn
  <2>5. CASE done' = done /\ sockets' = Closed(rest, n)
    <3>1. sockets' \in Seq(SocketRows(done, requested)) /\ DOMAIN sockets' = DOMAIN sockets
      BY <1>1, <2>2, <2>5, CloseSocket
    <3>. QED  BY <1>1, <2>1, <2>5, <3>1, SocketsGoOn
  <2>6. CASE /\ id # 0 /\ sockets' = Answers(rest, n, Message("response", id, ok))
             /\ done' = IF ok THEN done \cup {id} ELSE done
    <3>. DEFINE d == IF ok THEN done \cup {id} ELSE done
    <3>1. done' = d /\ done \subseteq d /\ d \subseteq 1 .. requested
      BY <1>1, <2>2, <2>6
    <3>2. Message("response", id, ok) \in Truths(d) /\ n \in DOMAIN rest
      BY <1>1, <2>2 DEF Message, Truths
    <3>. HIDE DEF d
    <3>3. rest \in Seq(SocketRows(d, requested))
      <4>1. requested \in Nat /\ requested <= requested
        BY <1>1
      <4>. QED  BY <2>2, <3>1, <4>1, StaysTrue
    <3>4. sockets' \in Seq(SocketRows(d, requested)) /\ DOMAIN sockets' = DOMAIN sockets
      BY <1>1, <2>2, <2>6, <3>2, <3>3, AnswersTrue
    <3>5. sockets' \in Seq(SocketRows(done', requested))
      BY <3>1, <3>4
    <3>6. done \subseteq done' /\ done' \subseteq 1 .. requested /\ reported' \subseteq done'
      BY <1>1, <3>1
    <3>. QED  BY <1>1, <2>1, <3>4, <3>5, <3>6, SocketsGoOn
  <2>. QED  BY <2>3, <2>4, <2>5, <2>6
<1>. QED  BY <1>2, <1>3, <1>4

\* A loop sends a request, or finds no connection for it.
LEMMA SendAlertKeeps ==
    ASSUME AlertsInv, NEW p \in StreamPlatforms, SendAlert(p)
    PROVE  AlertsInv'
<1>1. /\ UNCHANGED <<chat, ws, isConnected, connecting, events, done, reported>>
      /\ done \subseteq 1 .. requested /\ requested \in 0 .. MaxRequests /\ MaxRequests \in Nat
      /\ ws \in {NoSocket} \cup DOMAIN sockets /\ sockets \in Seq(SocketRows(done, requested))
      /\ chatted[p] = 1 /\ alert[p] = Quiet /\ chatted \in [StreamPlatforms -> {0, 1}]
      /\ alert \in [StreamPlatforms -> [sock : Nat, id : Nat]]
  <2>1. MaxRequests \in Nat
    BY AlertsAssumption
  <2>2. UNCHANGED <<chat, ws, isConnected, connecting, events, done, reported>> /\ chatted[p] = 1 /\ alert[p] = Quiet
    BY DEF SendAlert, Dispatch
  <2>. QED  BY <2>1, <2>2 DEF AlertsInv, AlertsTypeOK
<1>2. /\ requested' \in {requested, requested + 1} /\ requested' \in 0 .. MaxRequests
      /\ sockets' \in Seq(SocketRows(done, requested')) /\ DOMAIN sockets' = DOMAIN sockets
      /\ \/ chatted' = [chatted EXCEPT ![p] = 0] /\ alert' = alert
         \/ chatted' = chatted /\ ws \in DOMAIN sockets /\ alert' = [alert EXCEPT ![p] = [sock |-> ws, id |-> requested']]
  <2>1. CASE ~isConnected \/ ws = NoSocket \/ sockets[ws].state = "closed"
    <3>1. sockets' = sockets /\ requested' = requested /\ alert' = alert /\ chatted' = [chatted EXCEPT ![p] = 0]
      BY <2>1 DEF SendAlert, LoopReads
    <3>. QED  BY <1>1, <3>1
  <2>2. CASE ~(~isConnected \/ ws = NoSocket \/ sockets[ws].state = "closed")
    <3>1. /\ requested < MaxRequests /\ requested' = requested + 1 /\ ws \in DOMAIN sockets
          /\ sockets' = [sockets EXCEPT ![ws].requests = Append(@, requested')]
      BY <1>1, <2>2 DEF SendAlert
    <3>2. \/ chatted' = [chatted EXCEPT ![p] = 0] /\ alert' = alert
          \/ chatted' = chatted /\ alert' = [alert EXCEPT ![p] = [sock |-> ws, id |-> requested']]
      BY <2>2 DEF SendAlert, LoopReads
    <3>. DEFINE q == requested + 1
    <3>3. q \in Nat /\ requested \in Nat /\ requested <= q /\ q \in 0 .. q /\ done \subseteq done /\ q \in 0 .. MaxRequests
      BY <1>1, <3>1
    <3>4. requested' = q
      BY <3>1
    <3>. HIDE DEF q
    <3>5. sockets \in Seq(SocketRows(done, q))
      BY <1>1, <3>3, StaysTrue
    <3>6. PICK i \in 0 .. q : i = q
      BY <3>3
    <3>7. /\ [sockets EXCEPT ![ws].requests = Append(@, i)] \in Seq(SocketRows(done, q))
          /\ DOMAIN [sockets EXCEPT ![ws].requests = Append(@, i)] = DOMAIN sockets
      BY <3>1, <3>3, <3>5, SendRequest
    <3>8. sockets' = [sockets EXCEPT ![ws].requests = Append(@, i)]
      BY <3>1, <3>4, <3>6
    <3>. QED  BY <3>1, <3>2, <3>3, <3>4, <3>7, <3>8
  <2>. QED  BY <2>1, <2>2
<1>3. /\ chatted' \in [StreamPlatforms -> {0, 1}]
      /\ alert' \in [StreamPlatforms -> [sock : Nat, id : Nat]]
      /\ \A o \in StreamPlatforms : /\ alert'[o] = Quiet \/ alert'[o].sock \in DOMAIN sockets'
                                    /\ alert'[o] # Quiet => chatted'[o] = 1
  <2>1. /\ \A o \in StreamPlatforms : /\ alert[o] = Quiet \/ alert[o].sock \in DOMAIN sockets
                                      /\ alert[o] # Quiet => chatted[o] = 1
        /\ DOMAIN sockets \subseteq Nat
    BY <1>1 DEF AlertsInv, AlertsTypeOK
  <2>2. CASE chatted' = [chatted EXCEPT ![p] = 0] /\ alert' = alert
    BY <1>1, <1>2, <2>1, <2>2
  <2>3. CASE chatted' = chatted /\ ws \in DOMAIN sockets /\ alert' = [alert EXCEPT ![p] = [sock |-> ws, id |-> requested']]
    <3>1. [sock |-> ws, id |-> requested'] \in [sock : Nat, id : Nat]
      BY <1>1, <1>2, <2>1, <2>3
    <3>2. alert' \in [StreamPlatforms -> [sock : Nat, id : Nat]] /\ alert'[p].sock = ws
          /\ \A o \in StreamPlatforms \ {p} : alert'[o] = alert[o]
      BY <1>1, <2>3, <3>1
    <3>. QED  BY <1>1, <1>2, <2>1, <2>3, <3>2
  <2>. QED  BY <1>2, <2>2, <2>3
<1>4. AlertsTypeOK' /\ SuccessWasDone'
  <2>1. done' \subseteq 1 .. requested'
    BY <1>1, <1>2
  <2>2. \A o \in StreamPlatforms : alert'[o].sock \in {NoSocket} \cup DOMAIN sockets'
    BY <1>3 DEF Quiet
  <2>. QED  BY <1>1, <1>2, <1>3, <2>1, <2>2 DEF AlertsInv, AlertsTypeOK, SuccessWasDone
<1>. DEFINE R == SocketRows(done', requested')
<1>5. sockets' \in Seq(R)
  BY <1>1, <1>2
<1>. HIDE DEF R
<1>. QED  BY <1>1, <1>3, <1>4, <1>5 DEF AlertsInv, R

\* A loop takes the next message for its answer, and believes it only if it is one.
LEMMA TakeAnswerKeeps ==
    ASSUME AlertsInv, NEW p \in StreamPlatforms, TakeAnswer(p)
    PROVE  AlertsInv'
<1>. DEFINE n == alert[p].sock
            m == Head(sockets[n].inbox)
<1>1. /\ UNCHANGED <<chat, ws, isConnected, connecting, requested, events, done>>
      /\ chatted' = [chatted EXCEPT ![p] = 0] /\ alert' = [alert EXCEPT ![p] = Quiet]
      /\ reported' = IF IsSuccess(m, alert[p].id) THEN reported \cup {alert[p].id} ELSE reported
      /\ sockets' = [sockets EXCEPT ![n].inbox = Tail(@)] /\ sockets[n].inbox # <<>>
      /\ alert[p] # Quiet
  BY DEF TakeAnswer, EndAlert, LoopReads, Inbox
<1>2. n \in DOMAIN sockets /\ sockets \in Seq(SocketRows(done, requested)) /\ requested \in Nat
  BY <1>1 DEF AlertsInv, AlertsTypeOK
<1>. HIDE DEF n
<1>3. m \in Truths(done) /\ sockets' \in Seq(SocketRows(done, requested)) /\ DOMAIN sockets' = DOMAIN sockets
  BY <1>1, <1>2, ReadInbox
<1>. HIDE DEF m
<1>4. SuccessWasDone'
  BY <1>1, <1>3 DEF AlertsInv, SuccessWasDone, IsSuccess, Truths
<1>5. /\ chatted' \in [StreamPlatforms -> {0, 1}]
      /\ alert' \in [StreamPlatforms -> [sock : Nat, id : Nat]]
  BY <1>1 DEF AlertsInv, Quiet, NoSocket
<1>6. \A o \in StreamPlatforms : /\ alert'[o] = Quiet \/ alert'[o].sock \in DOMAIN sockets'
                                 /\ alert'[o] # Quiet => chatted'[o] = 1
                                 /\ alert'[o].sock \in {NoSocket} \cup DOMAIN sockets'
  BY <1>1, <1>3 DEF AlertsInv, AlertsTypeOK, Quiet
<1>7. AlertsTypeOK'
  BY <1>1, <1>3, <1>6 DEF AlertsInv, AlertsTypeOK
<1>. DEFINE R == SocketRows(done', requested')
<1>8. sockets' \in Seq(R)
  BY <1>1, <1>3
<1>. HIDE DEF R
<1>. QED  BY <1>1, <1>4, <1>5, <1>6, <1>7, <1>8 DEF AlertsInv, R

\* Every step keeps it so.
LEMMA NextAlerts == AlertsInv /\ [AlertsNext]_alertVars => AlertsInv'
<1>. SUFFICES ASSUME AlertsInv, [AlertsNext]_alertVars PROVE AlertsInv'
  OBVIOUS
<1>1. ASSUME NEW p \in StreamPlatforms,
             JoinChat(p) \/ JoinedChat(p) \/ Chatter(p) \/ EndChat(p) \/ SendAlert(p) \/ TakeAnswer(p) \/ GiveUp(p)
      PROVE  AlertsInv'
  BY <1>1, ChatSteps, SendAlertKeeps, TakeAnswerKeeps
<1>2. CASE Dial \/ DialFails \/ Handshake \/ HandshakeFails \/ Disconnect
  BY <1>2, ConnectionSteps
<1>3. ASSUME NEW n \in DOMAIN sockets, Announce(n) \/ Drop(n) \/ \E ok \in BOOLEAN : ServeObs(n, ok)
      PROVE  AlertsInv'
  BY <1>3, ObsSteps
<1>4. CASE UNCHANGED alertVars
  <2>1. UNCHANGED <<chat, chatted, ws, isConnected, sockets, connecting, alert, requested, events, done, reported>>
    BY <1>4 DEF alertVars
  <2>2. /\ done' \subseteq 1 .. requested /\ reported' \subseteq done'
        /\ sockets' \in Seq(SocketRows(done', requested)) /\ events' \in 0 .. MaxEvents
        /\ ws' \in {NoSocket} \cup DOMAIN sockets' /\ connecting' \in {NoSocket} \cup DOMAIN sockets'
        /\ isConnected' \in BOOLEAN
    BY <2>1 DEF AlertsInv, AlertsTypeOK, SuccessWasDone
  <2>. QED  BY <2>1, <2>2, SocketsGoOn
<1>. QED  BY <1>1, <1>2, <1>3, <1>4 DEF AlertsNext

\* The client of OBS and the loops of the chats hold only what they should.
THEOREM AlertsTyped == AlertsSpec => []AlertsTypeOK
<1>1. AlertsInv => AlertsTypeOK
  BY DEF AlertsInv
<1>. QED  BY <1>1, InitAlerts, NextAlerts, PTL DEF AlertsSpec

\* An alert reported as shown was shown (_send_request): late answers, events and
\* answers to a request that was given up are never taken for one's own.
THEOREM ReportedWasDone == AlertsSpec => []SuccessWasDone
<1>1. AlertsInv => SuccessWasDone
  BY DEF AlertsInv
<1>. QED  BY <1>1, InitAlerts, NextAlerts, PTL DEF AlertsSpec

-----------------------------------------------------------------------------
(***************************************************************************)
(* ChatList.  The list is sorted whenever what it is sorted by changes,    *)
(* and the rows are drawn whenever what they are drawn from changes.       *)
(***************************************************************************)

\* Pinned chats first, then the latest.
StandsAbove(a, b) == IF a.pinned = b.pinned THEN a.ts >= b.ts ELSE a.pinned

OneEach(s) == \A i, j \in 1 .. Len(s) : s[i].chat = s[j].chat => i = j

IsList(s) ==
    /\ s \in Seq(ListEntries) /\ OneEach(s)
    /\ \A i, j \in 1 .. Len(s) : i < j => StandsAbove(s[i], s[j])

\* What a row is drawn for, under tab t, folder f of contents u, and search q.
Wanted(e, t, f, u, q) == OnTab(e.chat, t) /\ InFolder(e, f, u) /\ (q => e.has)

Places(s, t, f, u, q) == {i \in DOMAIN s : Wanted(s[i], t, f, u, q)}

Drawn(s, t, f, u, q) ==
    LET kept == OnlyAt(s, Places(s, t, f, u, q)) IN [i \in DOMAIN kept |-> kept[i].chat]

ListInv ==
    /\ IsList(entries)
    /\ onScreen = Drawn(entries, tab, folder, userFolder, search)
    /\ listClock \in 0 .. MaxClock /\ fills \in 0 .. MaxFills
    /\ open \in ListChats \cup {NoneOpen}
    /\ tab \in ListTabs \cup {"friends"} /\ tabBefore \in ListTabs \cup {"none", "friends"}

\* A list of entries and its places.
LEMMA EntriesOf ==
    ASSUME NEW s \in Seq(ListEntries)
    PROVE  /\ Len(s) \in Nat /\ DOMAIN s = 1 .. Len(s)
           /\ \A i \in 1 .. Len(s) :
                 /\ s[i] \in ListEntries
                 /\ s[i].chat \in ListChats /\ s[i].ts \in Nat /\ s[i].pinned \in BOOLEAN
<1>1. Len(s) \in Nat /\ DOMAIN s = 1 .. Len(s) /\ \A i \in 1 .. Len(s) : s[i] \in ListEntries
  <2>. DEFINE E == ListEntries
  <2>1. s \in Seq(E)
    OBVIOUS
  <2>. HIDE DEF E
  <2>2. Len(s) \in Nat /\ DOMAIN s = 1 .. Len(s) /\ \A i \in 1 .. Len(s) : s[i] \in E
    BY <2>1
  <2>. QED  BY <2>2 DEF E
<1>2. \A e \in ListEntries : e.chat \in ListChats /\ e.ts \in Nat /\ e.pinned \in BOOLEAN
  BY ListAssumption DEF ListEntries
<1>. QED  BY <1>1, <1>2

\* `Before' puts the places of a list in one order.
LEMMA PlacesInOrder ==
    ASSUME NEW s \in Seq(ListEntries), NEW R,
           \A i, j \in DOMAIN s : <<i, j>> \in R <=> Before(s, i, j)
    PROVE  Orders(DOMAIN s, R)
<1>. DEFINE n == Len(s)
<1>1. /\ n \in Nat /\ DOMAIN s = 1 .. n
      /\ \A i \in 1 .. n : s[i].ts \in Nat /\ s[i].pinned \in BOOLEAN
  BY EntriesOf
<1>. HIDE DEF n
<1>2. \A i \in 1 .. n : ~Before(s, i, i)
  BY <1>1 DEF Before
<1>3. ASSUME NEW i \in 1 .. n, NEW j \in 1 .. n, NEW k \in 1 .. n, Before(s, i, j), Before(s, j, k)
      PROVE  Before(s, i, k)
  <2>1. s[i].ts \in Nat /\ s[j].ts \in Nat /\ s[k].ts \in Nat /\ i \in Nat /\ j \in Nat /\ k \in Nat
    BY <1>1
  <2>2. s[i].pinned \in BOOLEAN /\ s[j].pinned \in BOOLEAN /\ s[k].pinned \in BOOLEAN
    BY <1>1
  <2>. QED  BY ONLY <1>3, <2>1, <2>2 DEF Before
<1>4. ASSUME NEW i \in 1 .. n, NEW j \in 1 .. n PROVE i = j \/ Before(s, i, j) \/ Before(s, j, i)
  <2>1. s[i].ts \in Nat /\ s[j].ts \in Nat /\ i \in Nat /\ j \in Nat
    BY <1>1
  <2>2. s[i].pinned \in BOOLEAN /\ s[j].pinned \in BOOLEAN
    BY <1>1
  <2>. QED  BY ONLY <2>1, <2>2 DEF Before
<1>5. \A i, j \in 1 .. n : <<i, j>> \in R <=> Before(s, i, j)
  BY <1>1
<1>. QED  BY ONLY <1>1, <1>2, <1>3, <1>4, <1>5 DEF Orders

\* Sorting a list of different chats gives one.
LEMMA SortedIsList ==
    ASSUME NEW s \in Seq(ListEntries), OneEach(s)
    PROVE  IsList(Sorted(s))
<1>. DEFINE D == DOMAIN s
            R == {p \in D \X D : Before(s, p[1], p[2])}
            places == InOrder(D, R)
            n == Len(s)
            r == Sorted(s)
<1>1. n \in Nat /\ D = 1 .. n /\ \A i \in 1 .. n : s[i] \in ListEntries
  BY EntriesOf
<1>2. \A i, j \in D : <<i, j>> \in R <=> Before(s, i, j)
  OBVIOUS
<1>3. r = [i \in D |-> s[places[i]]]
  BY DEF Sorted
<1>. HIDE DEF R, places, n, r, D
<1>4. Orders(D, R)
  BY <1>2, PlacesInOrder DEF D
<1>5. IsFiniteSet(D) /\ Cardinality(D) = n
  BY <1>1, FS_Interval
<1>6. /\ places \in [1 .. n -> D]
      /\ \A i, j \in 1 .. n : i < j => <<places[i], places[j]>> \in R
      /\ \A i, j \in 1 .. n : places[i] = places[j] => i = j
  BY <1>4, <1>5, Sorting DEF places
<1>7. DOMAIN r = 1 .. n /\ \A i \in 1 .. n : places[i] \in 1 .. n /\ r[i] = s[places[i]]
  BY <1>1, <1>3, <1>6
<1>8. r \in Seq(ListEntries) /\ Len(r) = n
  <2>. DEFINE E == ListEntries
  <2>1. r \in [1 .. n -> E]
    BY <1>1, <1>3, <1>7
  <2>. HIDE DEF E
  <2>2. r \in Seq(E) /\ Len(r) = n
    BY ONLY <1>1, <2>1
  <2>. QED  BY <2>2 DEF E
<1>9. OneEach(r)
  <2>1. \A i, j \in 1 .. n : s[i].chat = s[j].chat => i = j
    BY DEF OneEach, n
  <2>2. ASSUME NEW i \in 1 .. n, NEW j \in 1 .. n, r[i].chat = r[j].chat PROVE i = j
    <3>1. places[i] \in 1 .. n /\ places[j] \in 1 .. n
      BY <1>7
    <3>2. r[i] = s[places[i]] /\ r[j] = s[places[j]]
      BY <1>7
    <3>3. places[i] = places[j]
      BY <2>1, <2>2, <3>1, <3>2
    <3>. QED  BY <1>6, <3>3
  <2>. QED  BY <1>8, <2>2 DEF OneEach
<1>10. ASSUME NEW i \in 1 .. n, NEW j \in 1 .. n, i < j PROVE StandsAbove(r[i], r[j])
  <2>1. places[i] \in D /\ places[j] \in D /\ <<places[i], places[j]>> \in R
    BY <1>1, <1>6, <1>7, <1>10
  <2>2. Before(s, places[i], places[j])
    BY <1>2, <2>1
  <2>3. /\ s[places[i]].ts \in Nat /\ s[places[j]].ts \in Nat
        /\ s[places[i]].pinned \in BOOLEAN /\ s[places[j]].pinned \in BOOLEAN
    BY <1>7, EntriesOf DEF n
  <2>4. StandsAbove(s[places[i]], s[places[j]])
    BY ONLY <2>2, <2>3 DEF Before, StandsAbove
  <2>. QED  BY <1>7, <2>4
<1>. QED  BY <1>8, <1>9, <1>10 DEF IsList, r

\* What is left of a list when some entries go has still one of each chat.
LEMMA LeftHasOneEach ==
    ASSUME NEW s \in Seq(ListEntries), OneEach(s), NEW K, K \subseteq DOMAIN s
    PROVE  OnlyAt(s, K) \in Seq(ListEntries) /\ OneEach(OnlyAt(s, K))
<1>. DEFINE a == Ascending(K)
            r == OnlyAt(s, K)
            c == Len(r)
<1>1. K \subseteq 1 .. Len(s)
  BY EntriesOf
<1>2. /\ c \in Nat /\ r \in Seq(ListEntries) /\ a \in [1 .. c -> K]
      /\ \A n \in 1 .. c : r[n] = s[a[n]]
      /\ \A i \in K : \E n \in 1 .. c : a[n] = i
      /\ \A m, n \in 1 .. c : m < n => a[m] < a[n]
  BY <1>1, Filtering
<1>3. Len(s) \in Nat
  BY EntriesOf
<1>. HIDE DEF a, r, c
<1>4. ASSUME NEW m \in 1 .. c, NEW n \in 1 .. c, r[m].chat = r[n].chat PROVE m = n
  <2>1. a[m] \in K /\ a[n] \in K /\ a[m] \in 1 .. Len(s) /\ a[n] \in 1 .. Len(s)
    BY <1>1, <1>2
  <2>2. r[m] = s[a[m]] /\ r[n] = s[a[n]]
    BY <1>2
  <2>3. a[m] = a[n]
    BY <1>4, <2>1, <2>2 DEF OneEach
  <2>4. ~(m < n) /\ ~(n < m)
    BY <1>2, <1>3, <2>1, <2>3
  <2>. QED  BY <1>2, <2>4
<1>. QED  BY <1>2, <1>4 DEF OneEach, r, c

\* The rows r show what is wanted of the list s, and nothing else, in its order.
Shows(r, s, t, f, u, q) ==
    /\ r \in Seq(ListChats) /\ Len(r) \in Nat /\ DOMAIN r = 1 .. Len(r)
    /\ \A i \in 1 .. Len(s) :
          Wanted(s[i], t, f, u, q) => \E n \in 1 .. Len(r) : r[n] = s[i].chat
    /\ \A n \in 1 .. Len(r) : \E i \in 1 .. Len(s) :
          Wanted(s[i], t, f, u, q) /\ r[n] = s[i].chat
    /\ \A m, n \in 1 .. Len(r) : m < n =>
          \E i, j \in 1 .. Len(s) : i < j /\ r[m] = s[i].chat /\ r[n] = s[j].chat

\* So do the rows that are drawn.
LEMMA WhatIsDrawn ==
    ASSUME NEW s \in Seq(ListEntries), NEW t, NEW f, NEW u, NEW q
    PROVE  Shows(Drawn(s, t, f, u, q), s, t, f, u, q)
<1>. DEFINE K == Places(s, t, f, u, q)
            a == Ascending(K)
            k == OnlyAt(s, K)
            c == Len(k)
            r == Drawn(s, t, f, u, q)
<1>1. DOMAIN s = 1 .. Len(s) /\ \A i \in 1 .. Len(s) : s[i].chat \in ListChats
  BY EntriesOf
<1>2. /\ K \subseteq 1 .. Len(s)
      /\ \A i \in 1 .. Len(s) : Wanted(s[i], t, f, u, q) <=> i \in K
  BY <1>1 DEF Places
<1>. HIDE DEF K
<1>3. /\ c \in Nat /\ k \in Seq(ListEntries) /\ a \in [1 .. c -> K]
      /\ \A n \in 1 .. c : k[n] = s[a[n]]
      /\ \A i \in K : \E n \in 1 .. c : a[n] = i
      /\ \A m, n \in 1 .. c : m < n => a[m] < a[n]
  BY <1>2, Filtering
<1>4. r = [n \in 1 .. c |-> k[n].chat]
  <2>1. DOMAIN k = 1 .. c
    BY <1>3, EntriesOf
  <2>. QED  BY <2>1 DEF Drawn, K
<1>. HIDE DEF a, k, c, r
<1>5. \A n \in 1 .. c : a[n] \in K /\ a[n] \in 1 .. Len(s) /\ r[n] = s[a[n]].chat
  BY <1>2, <1>3, <1>4
<1>6. r \in Seq(ListChats) /\ Len(r) = c /\ DOMAIN r = 1 .. c
  <2>1. r \in [1 .. c -> ListChats]
    BY <1>1, <1>4, <1>5
  <2>. HIDE DEF ListChats
  <2>. QED  BY ONLY <1>3, <2>1
<1>7. ASSUME NEW i \in 1 .. Len(s), Wanted(s[i], t, f, u, q)
      PROVE  \E n \in 1 .. c : r[n] = s[i].chat
  <2>1. PICK n \in 1 .. c : a[n] = i
    BY <1>2, <1>3, <1>7
  <2>. QED  BY <1>5, <2>1
<1>8. ASSUME NEW n \in 1 .. c
      PROVE  \E i \in 1 .. Len(s) : Wanted(s[i], t, f, u, q) /\ r[n] = s[i].chat
  <2>1. a[n] \in 1 .. Len(s) /\ Wanted(s[a[n]], t, f, u, q) /\ r[n] = s[a[n]].chat
    BY <1>2, <1>5
  <2>. QED  BY <2>1
<1>9. ASSUME NEW m \in 1 .. c, NEW n \in 1 .. c, m < n
      PROVE  \E i, j \in 1 .. Len(s) : i < j /\ r[m] = s[i].chat /\ r[n] = s[j].chat
  <2>1. a[m] \in 1 .. Len(s) /\ r[m] = s[a[m]].chat
    BY <1>5
  <2>2. a[n] \in 1 .. Len(s) /\ r[n] = s[a[n]].chat
    BY <1>5
  <2>3. a[m] < a[n]
    BY <1>3, <1>9
  <2>. QED  BY <2>1, <2>2, <2>3
<1>. QED  BY <1>3, <1>6, <1>7, <1>8, <1>9 DEF r, Shows

\* Rows that are drawn of the list are current.
LEMMA DrawnIsCurrent == ListInv => ShownIsCurrent
<1>. SUFFICES ASSUME ListInv PROVE ShownIsCurrent
  OBVIOUS
<1>. DEFINE l == Len(entries)
            c == Len(onScreen)
            wanted(e) == Wanted(e, tab, folder, userFolder, search)
<1>1. /\ l \in Nat /\ DOMAIN entries = 1 .. l
      /\ \A i \in 1 .. l : entries[i].ts \in Nat /\ entries[i].pinned \in BOOLEAN
      /\ \A i, j \in 1 .. l : entries[i].chat = entries[j].chat => i = j
      /\ \A i, j \in 1 .. l : i < j => StandsAbove(entries[i], entries[j])
  BY EntriesOf DEF ListInv, IsList, OneEach
<1>2. /\ DOMAIN onScreen = 1 .. c
      /\ \A i \in 1 .. l : wanted(entries[i]) => \E n \in 1 .. c : onScreen[n] = entries[i].chat
      /\ \A n \in 1 .. c : \E i \in 1 .. l : wanted(entries[i]) /\ onScreen[n] = entries[i].chat
      /\ \A m, n \in 1 .. c : m < n =>
            \E i, j \in 1 .. l : i < j /\ onScreen[m] = entries[i].chat /\ onScreen[n] = entries[j].chat
  <2>1. entries \in Seq(ListEntries) /\ onScreen = Drawn(entries, tab, folder, userFolder, search)
    BY DEF ListInv, IsList
  <2>2. Shows(onScreen, entries, tab, folder, userFolder, search)
    BY <2>1, WhatIsDrawn
  <2>. QED  BY ONLY <2>2 DEF Shows
<1>. HIDE DEF l, c
<1>3. ASSUME NEW i \in 1 .. l
      PROVE  (\E n \in 1 .. c : onScreen[n] = entries[i].chat) <=> wanted(entries[i])
  <2>. HIDE DEF wanted
  <2>1. ASSUME NEW n \in 1 .. c, onScreen[n] = entries[i].chat PROVE wanted(entries[i])
    <3>1. PICK j \in 1 .. l : wanted(entries[j]) /\ onScreen[n] = entries[j].chat
      BY <1>2
    <3>2. i = j
      BY <1>1, <2>1, <3>1
    <3>. QED  BY <3>1, <3>2
  <2>. QED  BY <1>2, <2>1
<1>4. ASSUME NEW i \in 1 .. l PROVE Position(entries[i].chat) = i
  BY <1>1 DEF Position
<1>5. ASSUME NEW m \in 1 .. c, NEW n \in 1 .. c, m < n
      PROVE  LET a == entries[Position(onScreen[m])]
                 b == entries[Position(onScreen[n])]
             IN  IF a.pinned = b.pinned THEN a.ts >= b.ts ELSE a.pinned
  <2>1. PICK i \in 1 .. l, j \in 1 .. l :
           i < j /\ onScreen[m] = entries[i].chat /\ onScreen[n] = entries[j].chat
    BY <1>2, <1>5
  <2>2. Position(onScreen[m]) = i /\ Position(onScreen[n]) = j
    BY <1>4, <2>1
  <2>3. StandsAbove(entries[i], entries[j])
    BY <1>1, <2>1
  <2>. QED  BY <2>2, <2>3 DEF StandsAbove
<1>6. \A n \in 1 .. c : \E i \in 1 .. l : entries[i].chat = onScreen[n]
  <2>. HIDE DEF wanted
  <2>. QED  BY <1>2
<1>. QED  BY <1>1, <1>2, <1>3, <1>5, <1>6 DEF ShownIsCurrent, Wanted

\* When the rows are drawn, they are those of the list as it is then.
LEMMA RenderDraws ==
    ASSUME Render
    PROVE  onScreen' = Drawn(entries', tab', folder', userFolder', search')
BY DEF Render, Matching, MatchesTab, Drawn, Places, Wanted

\* A new entry of the list.
LEMMA NewEntry ==
    ASSUME NEW c \in ListChats, NEW p \in BOOLEAN, NEW t \in 0 .. MaxClock,
           NEW k \in 0 .. MaxFills, fills \in 0 .. MaxFills
    PROVE  /\ Entry(c, p, t) \in ListEntries /\ Entry(c, p, t).chat = c
           /\ [Entry(c, p, t) EXCEPT !.fill = k] \in ListEntries
           /\ [Entry(c, p, t) EXCEPT !.fill = k].chat = c
<1>. DEFINE X == c \in NamedSo
<1>0. X \in BOOLEAN
  OBVIOUS
<1>. HIDE DEF X
<1>1. PICK h \in BOOLEAN : h = X
  BY <1>0
<1>2. Entry(c, p, t) =
         [chat |-> c, pinned |-> p, ts |-> t, unread |-> 0, has |-> h, fill |-> fills]
  BY <1>1 DEF Entry, X
<1>3. [Entry(c, p, t) EXCEPT !.fill = k] =
         [chat |-> c, pinned |-> p, ts |-> t, unread |-> 0, has |-> h, fill |-> k]
  BY <1>2
<1>4. 0 \in 0 .. 1
  OBVIOUS
<1>. QED  BY ONLY c \in ListChats, p \in BOOLEAN, t \in 0 .. MaxClock, k \in 0 .. MaxFills,
                  fills \in 0 .. MaxFills, h \in BOOLEAN, <1>2, <1>3, <1>4 DEF ListEntries

\* Entries that change in what the list is not sorted by leave it sorted.
LEMMA RewrittenIsList ==
    ASSUME NEW s, IsList(s), NEW r \in Seq(ListEntries), Len(r) = Len(s),
           \A i \in 1 .. Len(s) : /\ r[i].chat = s[i].chat
                                  /\ r[i].pinned = s[i].pinned /\ r[i].ts = s[i].ts
    PROVE  IsList(r)
<1>1. OneEach(r)
  BY DEF IsList, OneEach
<1>2. \A i, j \in 1 .. Len(r) : i < j => StandsAbove(r[i], r[j])
  BY DEF IsList, StandsAbove
<1>. QED  BY <1>1, <1>2 DEF IsList

\* Each of a set of chats once.
LEMMA InSomeOrder ==
    ASSUME NEW S, IsFiniteSet(S)
    PROVE  LET s == SetToSeq(S)
           IN  /\ s \in Seq(S) /\ Len(s) \in Nat
               /\ \A i, j \in 1 .. Len(s) : s[i] = s[j] => i = j
<1>. DEFINE c == Cardinality(S)
            s == SetToSeq(S)
<1>1. c \in Nat /\ \E f : f \in Bijection(1 .. c, S)
  BY FS_CardinalityType DEF ExistsBijection
<1>2. \E f \in [1 .. c -> S] : IsInjective(f)
  BY <1>1 DEF Bijection, Injection
<1>3. s \in [1 .. c -> S] /\ IsInjective(s)
  BY <1>2 DEF SetToSeq
<1>. HIDE DEF c, s
<1>4. s \in Seq(S) /\ Len(s) = c
  BY ONLY <1>1, <1>3
<1>5. \A i, j \in 1 .. c : s[i] = s[j] => i = j
  BY <1>3 DEF IsInjective
<1>. QED  BY <1>1, <1>4, <1>5 DEF s

\* The list of the bot, the friends and the rooms has each chat once.
LEMMA ChatsOfRefresh ==
    ASSUME NEW F \in SUBSET ListFriends, NEW G \in SUBSET ListRooms
    PROVE  LET chats == <<SupportBot>> \o SetToSeq(F) \o SetToSeq(G)
           IN  /\ chats \in Seq(ListChats) /\ Len(chats) \in Nat /\ DOMAIN chats = 1 .. Len(chats)
               /\ \A i, j \in 1 .. Len(chats) : chats[i] = chats[j] => i = j
<1>. DEFINE f == SetToSeq(F)
            g == SetToSeq(G)
            b == <<SupportBot>> \o f
            chats == b \o g
<1>1. /\ f \in Seq(F) /\ Len(f) \in Nat
      /\ \A i, j \in 1 .. Len(f) : f[i] = f[j] => i = j
  <2>1. IsFiniteSet(F)
    BY ListAssumption, FS_Subset
  <2>. QED  BY <2>1, InSomeOrder
<1>2. /\ g \in Seq(G) /\ Len(g) \in Nat
      /\ \A i, j \in 1 .. Len(g) : g[i] = g[j] => i = j
  <2>1. IsFiniteSet(G)
    BY ListAssumption, FS_Subset
  <2>. QED  BY <2>1, InSomeOrder
<1>3. /\ F \subseteq ListChats /\ G \subseteq ListChats /\ SupportBot \in ListChats
      /\ SupportBot \notin F /\ SupportBot \notin G /\ F \cap G = {}
  BY ListAssumption DEF ListChats
<1>. HIDE DEF f, g, ListChats
<1>4. f \in Seq(ListChats) /\ g \in Seq(ListChats)
  BY ONLY <1>1, <1>2, <1>3
<1>5. /\ b \in Seq(ListChats) /\ Len(b) = Len(f) + 1 /\ b[1] = SupportBot
      /\ \A i \in 2 .. Len(b) : i - 1 \in 1 .. Len(f) /\ b[i] = f[i - 1]
  <2>. DEFINE o == <<SupportBot>>
  <2>1. o \in Seq(ListChats) /\ Len(o) = 1 /\ o[1] = SupportBot
    BY <1>3
  <2>. HIDE DEF o
  <2>2. b = o \o f
    BY DEF o
  <2>. HIDE DEF b
  <2>3. /\ b \in Seq(ListChats) /\ Len(b) = Len(o) + Len(f)
        /\ \A i \in 1 .. Len(o) : b[i] = o[i]
        /\ \A i \in Len(o) + 1 .. Len(b) : /\ i - Len(o) \in 1 .. Len(f)
                                            /\ b[i] = f[i - Len(o)]
    BY <1>4, <2>1, <2>2, Joined
  <2>. QED  BY <1>1, <2>1, <2>3
<1>. HIDE DEF b
<1>6. /\ chats \in Seq(ListChats) /\ Len(chats) = Len(b) + Len(g)
      /\ \A i \in 1 .. Len(b) : chats[i] = b[i]
      /\ \A i \in Len(b) + 1 .. Len(chats) : /\ i - Len(b) \in 1 .. Len(g)
                                              /\ chats[i] = g[i - Len(b)]
  BY <1>4, <1>5, Joined
<1>. HIDE DEF chats
<1>7. \A i \in 2 .. Len(b) : chats[i] = f[i - 1] /\ chats[i] \in F
  <2>1. \A i \in 1 .. Len(f) : f[i] \in F
    BY <1>1
  <2>. QED  BY <1>1, <1>5, <1>6, <2>1
<1>8. \A i \in Len(b) + 1 .. Len(chats) : chats[i] \in G
  <2>1. \A i \in 1 .. Len(g) : g[i] \in G
    BY <1>2
  <2>. QED  BY <1>6, <2>1
<1>9. chats[1] = SupportBot /\ Len(b) \in Nat /\ Len(chats) \in Nat
  BY <1>1, <1>2, <1>5, <1>6
<1>10. ASSUME NEW i \in 1 .. Len(chats), NEW j \in 1 .. Len(chats), chats[i] = chats[j] PROVE i = j
  <2>1. i \in Nat /\ j \in Nat
    BY <1>9
  <2>2. CASE i = 1
    <3>1. j \notin 2 .. Len(b) /\ j \notin Len(b) + 1 .. Len(chats)
      BY <1>3, <1>7, <1>8, <1>9, <1>10, <2>2
    <3>. QED  BY <1>1, <1>5, <1>9, <2>1, <2>2, <3>1
  <2>3. CASE i \in 2 .. Len(b)
    <3>1. j # 1 /\ j \notin Len(b) + 1 .. Len(chats)
      BY <1>3, <1>7, <1>8, <1>9, <1>10, <2>3
    <3>2. j \in 2 .. Len(b)
      BY <1>9, <2>1, <3>1
    <3>3. f[i - 1] = f[j - 1] /\ i - 1 \in 1 .. Len(f) /\ j - 1 \in 1 .. Len(f)
      BY <1>5, <1>7, <1>10, <2>3, <3>2
    <3>4. i - 1 = j - 1
      BY <1>1, <3>3
    <3>. QED  BY <2>1, <3>4
  <2>4. CASE i \in Len(b) + 1 .. Len(chats)
    <3>1. j # 1 /\ j \notin 2 .. Len(b)
      BY <1>3, <1>7, <1>8, <1>9, <1>10, <2>4
    <3>2. j \in Len(b) + 1 .. Len(chats)
      BY <1>9, <2>1, <3>1
    <3>3. g[i - Len(b)] = g[j - Len(b)] /\ i - Len(b) \in 1 .. Len(g) /\ j - Len(b) \in 1 .. Len(g)
      BY <1>6, <1>10, <2>4, <3>2
    <3>4. i - Len(b) = j - Len(b)
      BY <1>2, <3>3
    <3>. QED  BY <1>9, <2>1, <3>4
  <2>. QED  BY <1>9, <2>1, <2>2, <2>3, <2>4
<1>11. DOMAIN chats = 1 .. Len(chats)
  BY <1>6
<1>. QED  BY <1>6, <1>9, <1>10, <1>11 DEF chats, b, f, g

\* It holds when the panel is made.
LEMMA InitList == ListInit => ListInv
<1>. SUFFICES ASSUME ListInit PROVE ListInv
  OBVIOUS
<1>. DEFINE b == Entry(SupportBot, TRUE, 0)
            o == Entry(SavedNotes, TRUE, 0)
            s == <<b, o>>
<1>1. /\ entries = s /\ onScreen = <<SupportBot, SavedNotes>> /\ fills = 0 /\ listClock = 0
      /\ tab = "friends" /\ folder = "all" /\ userFolder = NoFolder /\ search = FALSE
      /\ tabBefore = "none" /\ open = SupportBot
  BY DEF ListInit, PanelInit
<1>2. 0 \in 0 .. MaxClock /\ 0 \in 0 .. MaxFills
  BY ListAssumption
<1>3. SupportBot \in ListChats /\ SavedNotes \in ListChats /\ SupportBot # SavedNotes
  BY DEF ListChats, SupportBot, SavedNotes
<1>4. /\ b \in ListEntries /\ b.chat = SupportBot /\ b.pinned /\ b.ts = 0
      /\ o \in ListEntries /\ o.chat = SavedNotes /\ o.pinned /\ o.ts = 0
  <2>1. b \in ListEntries /\ b.chat = SupportBot /\ o \in ListEntries /\ o.chat = SavedNotes
    BY <1>1, <1>2, <1>3, NewEntry
  <2>2. b.pinned /\ b.ts = 0 /\ o.pinned /\ o.ts = 0
    BY DEF Entry
  <2>. QED  BY <2>1, <2>2
<1>. HIDE DEF b, o
<1>5. s \in Seq(ListEntries) /\ Len(s) = 2 /\ s[1] = b /\ s[2] = o
  <2>. DEFINE E == ListEntries
  <2>1. b \in E /\ o \in E
    BY <1>4
  <2>. HIDE DEF E
  <2>2. s \in Seq(E) /\ Len(s) = 2 /\ s[1] = b /\ s[2] = o
    BY <2>1
  <2>. QED  BY <2>2 DEF E
<1>. HIDE DEF s
<1>6. IsList(s)
  <2>1. OneEach(s)
    BY <1>3, <1>4, <1>5 DEF OneEach
  <2>2. StandsAbove(b, o)
    BY <1>4 DEF StandsAbove
  <2>3. \A i, j \in 1 .. 2 : i < j => i = 1 /\ j = 2
    OBVIOUS
  <2>. QED  BY <1>5, <2>1, <2>2, <2>3 DEF IsList
<1>7. onScreen = Drawn(s, tab, folder, userFolder, search)
  <2>. DEFINE K == Places(s, tab, folder, userFolder, search)
              a == Ascending(K)
              r == OnlyAt(s, K)
              c == Len(r)
  <2>1. \A i \in 1 .. 2 : Wanted(s[i], tab, folder, userFolder, search)
    BY <1>1 DEF Wanted, OnTab, InFolder
  <2>2. DOMAIN s = 1 .. 2
    BY <1>5, EntriesOf
  <2>3. K = 1 .. Len(s)
    BY <1>5, <2>1, <2>2 DEF Places
  <2>. HIDE DEF K
  <2>4. /\ c \in Nat /\ r \in Seq(ListEntries) /\ a \in [1 .. c -> K]
        /\ \A n \in 1 .. c : r[n] = s[a[n]]
        /\ \A i \in K : \E n \in 1 .. c : a[n] = i
        /\ \A m, n \in 1 .. c : m < n => a[m] < a[n]
    <3>1. K \subseteq 1 .. Len(s)
      BY <2>3
    <3>. QED  BY <1>5, <3>1, Filtering
  <2>. HIDE DEF a, r, c
  <2>5. K = 1 .. 2
    BY <1>5, <2>3
  <2>6. PICK n1 \in 1 .. c, n2 \in 1 .. c : a[n1] = 1 /\ a[n2] = 2
    BY <2>4, <2>5
  <2>7. n1 < n2
    <3>1. n1 # n2 /\ ~(a[n2] < a[n1])
      BY <2>6
    <3>2. ~(n2 < n1)
      BY <2>4, <3>1
    <3>. QED  BY <2>4, <3>1, <3>2
  <2>8. ASSUME NEW n \in 1 .. c PROVE n = n1 \/ n = n2
    <3>1. a[n] = 1 \/ a[n] = 2
      <4>1. a[n] \in 1 .. 2
        BY <2>4, <2>5
      <4>. QED  BY <4>1
    <3>2. \A m \in 1 .. c : a[n] = a[m] => n = m
      <4>1. ASSUME NEW m \in 1 .. c, a[n] = a[m] PROVE n = m
        <5>1. a[n] \in 1 .. 2 /\ a[m] \in 1 .. 2
          BY <2>4, <2>5
        <5>2. ~(a[n] < a[m]) /\ ~(a[m] < a[n])
          BY <4>1, <5>1
        <5>3. ~(n < m) /\ ~(m < n)
          BY <2>4, <5>2
        <5>. QED  BY <2>4, <5>3
      <4>. QED  BY <4>1
    <3>. QED  BY <2>6, <3>1, <3>2
  <2>9. c = 2 /\ n1 = 1 /\ n2 = 2
    <3>1. 1 \in 1 .. c /\ c \in 1 .. c
      BY <2>4, <2>6, <2>7
    <3>2. (1 = n1 \/ 1 = n2) /\ (c = n1 \/ c = n2)
      BY <2>8, <3>1
    <3>3. n1 = 1 /\ n2 = c
      BY <2>4, <2>7, <3>2
    <3>4. c # 2 => 2 \in 1 .. c
      BY <2>4, <2>7, <3>3
    <3>5. c # 2 => 2 = n1 \/ 2 = n2
      BY <2>8, <3>4
    <3>. QED  BY <3>3, <3>5
  <2>10. DOMAIN r = 1 .. 2 /\ r[1].chat = SupportBot /\ r[2].chat = SavedNotes
    <3>1. DOMAIN r = 1 .. c
      BY <2>4, EntriesOf DEF c
    <3>2. r[1] = s[1] /\ r[2] = s[2]
      BY <2>4, <2>6, <2>9
    <3>. QED  BY <1>4, <1>5, <2>9, <3>1, <3>2
  <2>11. Drawn(s, tab, folder, userFolder, search) = [i \in 1 .. 2 |-> r[i].chat]
    BY <2>10 DEF Drawn, K, r
  <2>. QED  BY <1>1, <2>10, <2>11
<1>. QED  BY <1>1, <1>2, <1>3, <1>6, <1>7 DEF ListInv, s

\* What the rows are drawn from and the other variables stay as they should be.
LEMMA ListGoesOn ==
    ASSUME IsList(entries'), onScreen' = Drawn(entries', tab', folder', userFolder', search'),
           listClock' \in 0 .. MaxClock, fills' \in 0 .. MaxFills,
           open' \in ListChats \cup {NoneOpen}, tab' \in ListTabs \cup {"friends"},
           tabBefore' \in ListTabs \cup {"none", "friends"}
    PROVE  ListInv'
BY DEF ListInv

\* Turning to a tab, a folder, a search: the same list, drawn anew.
LEMMA FiltersKeep ==
    ASSUME ListInv,
           \/ \E t \in ListTabs : SetTab(t)
           \/ \E f \in {"all", "unread", "mine"} : SetFolder(f)
           \/ \E contents \in FolderSets : SetUserFolder(contents)
           \/ Search \/ CloseOverlay
    PROVE  ListInv'
<1>1. /\ entries' = entries /\ fills' = fills /\ listClock' = listClock /\ open' = open /\ Render
      /\ tab' \in ListTabs \cup {"friends"} /\ tabBefore' \in {tabBefore, "none"}
  BY DEF ListInv, SetTab, SetFolder, SetUserFolder, Search, CloseOverlay
<1>2. onScreen' = Drawn(entries', tab', folder', userFolder', search')
  BY <1>1, RenderDraws
<1>. QED  BY <1>1, <1>2, ListGoesOn DEF ListInv

\* Steps that change neither the list nor what it is drawn for.
LEMMA RequestsKeepList ==
    ASSUME ListInv, OpenOverlay \/ AskUnread \/ LoseUnread \/ UNCHANGED listVars
    PROVE  ListInv'
<1>1. /\ UNCHANGED <<entries, onScreen, Filters, open, fills, listClock>>
      /\ tabBefore' \in {tabBefore, tab}
  BY DEF OpenOverlay, AskUnread, LoseUnread, listVars, Filters
<1>. QED  BY <1>1 DEF ListInv, Filters

\* The unread count of a chat that is read goes; the list stays sorted.
LEMMA ReadIsList ==
    ASSUME NEW s, IsList(s), NEW c
    PROVE  IsList(Read(s, c))
<1>. DEFINE r == Read(s, c)
            n == Len(s)
<1>1. s \in Seq(ListEntries) /\ n \in Nat /\ DOMAIN s = 1 .. n /\ \A i \in 1 .. n : s[i] \in ListEntries
  BY EntriesOf DEF IsList
<1>2. ASSUME NEW e \in ListEntries
      PROVE  LET x == [e EXCEPT !.unread = 0]
             IN  x \in ListEntries /\ x.chat = e.chat /\ x.pinned = e.pinned /\ x.ts = e.ts
  BY DEF ListEntries
<1>3. r = [i \in 1 .. n |-> IF s[i].chat = c THEN [s[i] EXCEPT !.unread = 0] ELSE s[i]]
  BY <1>1 DEF Read
<1>. HIDE DEF r, n
<1>4. \A i \in 1 .. n : /\ r[i] \in ListEntries /\ r[i].chat = s[i].chat
                        /\ r[i].pinned = s[i].pinned /\ r[i].ts = s[i].ts
  BY <1>1, <1>2, <1>3
<1>5. r \in Seq(ListEntries) /\ Len(r) = n
  <2>. DEFINE E == ListEntries
  <2>1. r \in [1 .. n -> E]
    BY <1>3, <1>4
  <2>. HIDE DEF E
  <2>2. r \in Seq(E) /\ Len(r) = n
    BY ONLY <1>1, <2>1
  <2>. QED  BY <2>2 DEF E
<1>. QED  BY <1>4, <1>5, RewrittenIsList DEF r, n

\* Opening a chat reads it: nothing is drawn when nothing was unread.
LEMMA OpeningKeeps ==
    ASSUME ListInv, \/ \E c \in ListChats : OpenChat(c)
                    \/ OpenSaved
    PROVE  ListInv'
<1>1. IsList(entries) /\ onScreen = Drawn(entries, tab, folder, userFolder, search)
  BY DEF ListInv
<1>2. ASSUME NEW c \in ListChats, OpenChat(c) PROVE ListInv'
  <2>1. /\ open' = c /\ UNCHANGED <<Filters, fills, tabBefore, listClock>>
        /\ entries' = Read(entries, c)
        /\ IF entries' = entries THEN UNCHANGED onScreen ELSE Render
    BY <1>2 DEF OpenChat, SetCurrentChat
  <2>2. IsList(entries')
    BY <1>1, <2>1, ReadIsList
  <2>3. tab' = tab /\ folder' = folder /\ userFolder' = userFolder /\ search' = search
    BY <2>1 DEF Filters
  <2>4. onScreen' = Drawn(entries', tab', folder', userFolder', search')
    <3>1. CASE entries' = entries
      BY <1>1, <2>1, <2>3, <3>1
    <3>2. CASE entries' # entries
      BY <2>1, <3>2, RenderDraws
    <3>. QED  BY <3>1, <3>2
  <2>. QED  BY <2>1, <2>2, <2>3, <2>4, ListGoesOn DEF ListInv
<1>3. ASSUME OpenSaved PROVE ListInv'
  <2>1. /\ open' = SavedNotes /\ tab' = "friends" /\ UNCHANGED <<fills, tabBefore, listClock>>
        /\ entries' = Read(entries, SavedNotes) /\ Render
    BY <1>3 DEF OpenSaved
  <2>2. IsList(entries')
    BY <1>1, <2>1, ReadIsList
  <2>3. onScreen' = Drawn(entries', tab', folder', userFolder', search')
    BY <2>1, RenderDraws
  <2>4. SavedNotes \in ListChats
    BY DEF ListChats
  <2>. QED  BY <2>1, <2>2, <2>3, <2>4, ListGoesOn DEF ListInv
<1>. QED  BY <1>2, <1>3

\* A room comes to the list, a chat leaves it.
LEMMA ComingAndLeavingKeep ==
    ASSUME ListInv, \/ \E r \in ListRooms : AddRoom(r)
                    \/ LeaveChat
    PROVE  ListInv'
<1>1. /\ entries \in Seq(ListEntries) /\ OneEach(entries)
      /\ fills \in 0 .. MaxFills /\ listClock \in 0 .. MaxClock
  BY DEF ListInv, IsList
<1>2. ASSUME NEW r \in ListRooms, AddRoom(r) PROVE ListInv'
  <2>. DEFINE e == Entry(r, FALSE, listClock')
              one == <<e>>
              s == one \o entries
  <2>1. /\ listClock' = listClock + 1 /\ listClock < MaxClock
        /\ \A i \in DOMAIN entries : entries[i].chat # r
        /\ entries' = Sorted(s) /\ open' = r /\ Render
        /\ UNCHANGED <<Filters, fills, tabBefore>>
    BY <1>2 DEF AddRoom, TickList, SetEntries
  <2>2. listClock' \in 0 .. MaxClock
    BY <1>1, <2>1, ListAssumption
  <2>3. r \in ListChats
    BY DEF ListChats
  <2>4. e \in ListEntries /\ e.chat = r
    BY <1>1, <2>2, <2>3, NewEntry
  <2>. HIDE DEF e
  <2>5. one \in Seq(ListEntries) /\ Len(one) = 1 /\ one[1] = e
    <3>. DEFINE E == ListEntries
    <3>1. e \in E
      BY <2>4
    <3>. HIDE DEF E
    <3>2. one \in Seq(E) /\ Len(one) = 1 /\ one[1] = e
      BY <3>1
    <3>. QED  BY <3>2 DEF E
  <2>. HIDE DEF one
  <2>6. /\ Len(one) \in Nat /\ Len(entries) \in Nat
        /\ s \in Seq(ListEntries) /\ Len(s) = Len(one) + Len(entries)
        /\ \A i \in 1 .. Len(one) : s[i] = one[i]
        /\ \A i \in Len(one) + 1 .. Len(s) : /\ i - Len(one) \in 1 .. Len(entries)
                                             /\ s[i] = entries[i - Len(one)]
    BY <1>1, <2>5, Joined
  <2>. HIDE DEF s
  <2>7. /\ Len(entries) \in Nat /\ DOMAIN entries = 1 .. Len(entries) /\ Len(s) = 1 + Len(entries)
        /\ s[1].chat = r
        /\ \A i \in 2 .. Len(s) : i - 1 \in 1 .. Len(entries) /\ s[i] = entries[i - 1]
    BY <1>1, <2>4, <2>5, <2>6, EntriesOf
  <2>8. OneEach(s)
    <3>1. ASSUME NEW i \in 1 .. Len(s), NEW j \in 1 .. Len(s), s[i].chat = s[j].chat PROVE i = j
      <4>1. i \in Nat /\ j \in Nat /\ (i = 1 \/ i \in 2 .. Len(s)) /\ (j = 1 \/ j \in 2 .. Len(s))
        BY <2>7
      <4>2. \A k \in 2 .. Len(s) : s[k].chat # r
        BY <2>1, <2>7
      <4>3. CASE i = 1 \/ j = 1
        BY <2>7, <3>1, <4>1, <4>2, <4>3
      <4>4. CASE i \in 2 .. Len(s) /\ j \in 2 .. Len(s)
        <5>1. entries[i - 1].chat = entries[j - 1].chat
          BY <2>7, <3>1, <4>4
        <5>2. i - 1 = j - 1
          BY <1>1, <2>7, <4>4, <5>1 DEF OneEach
        <5>. QED  BY <4>1, <5>2
      <4>. QED  BY <4>1, <4>3, <4>4
    <3>. QED  BY <3>1 DEF OneEach
  <2>9. IsList(entries')
    BY <2>1, <2>6, <2>8, SortedIsList
  <2>10. onScreen' = Drawn(entries', tab', folder', userFolder', search')
    BY <2>1, RenderDraws
  <2>11. UNCHANGED <<tab, fills, tabBefore>>
    BY <2>1 DEF Filters
  <2>. QED  BY <2>1, <2>2, <2>3, <2>9, <2>10, <2>11, ListGoesOn DEF ListInv
<1>3. ASSUME LeaveChat PROVE ListInv'
  <2>. DEFINE K == {i \in DOMAIN entries : entries[i].chat # open}
  <2>1. /\ entries' = Sorted(OnlyAt(entries, K)) /\ Render
        /\ UNCHANGED <<Filters, open, fills, tabBefore, listClock>>
    BY <1>3 DEF LeaveChat, SetEntries
  <2>2. K \subseteq DOMAIN entries
    OBVIOUS
  <2>. HIDE DEF K
  <2>3. IsList(entries')
    BY <1>1, <2>1, <2>2, LeftHasOneEach, SortedIsList
  <2>4. onScreen' = Drawn(entries', tab', folder', userFolder', search')
    BY <2>1, RenderDraws
  <2>5. UNCHANGED tab
    BY <2>1 DEF Filters
  <2>. QED  BY <2>1, <2>3, <2>4, <2>5, ListGoesOn DEF ListInv
<1>. QED  BY <1>2, <1>3

\* A fresh list of the bot, the friends and the rooms.
LEMMA RefreshKeeps ==
    ASSUME ListInv, NEW F \in SUBSET ListFriends, NEW G \in SUBSET ListRooms, Refresh(F, G)
    PROVE  ListInv'
<1>. DEFINE chats == <<SupportBot>> \o SetToSeq(F) \o SetToSeq(G)
            e(c) == Entry(c, c = SupportBot, IF c = SupportBot THEN listClock' ELSE 0)
            s == [i \in DOMAIN chats |-> [e(chats[i]) EXCEPT !.fill = fills']]
            n == Len(chats)
<1>1. /\ fills \in 0 .. MaxFills /\ listClock \in 0 .. MaxClock
      /\ open \in ListChats \cup {NoneOpen}
  BY DEF ListInv
<1>2. /\ listClock' = listClock + 1 /\ listClock < MaxClock /\ fills' = fills + 1 /\ fills < MaxFills
      /\ entries' = Sorted(s) /\ open' = (IF open = NoneOpen THEN SupportBot ELSE open) /\ Render
      /\ UNCHANGED <<Filters, tabBefore>>
  BY DEF Refresh, TickList, SetEntries
<1>3. listClock' \in 0 .. MaxClock /\ fills' \in 0 .. MaxFills /\ 0 \in 0 .. MaxClock
  BY <1>1, <1>2, ListAssumption
<1>4. /\ chats \in Seq(ListChats) /\ n \in Nat /\ DOMAIN chats = 1 .. n
      /\ \A i, j \in 1 .. n : chats[i] = chats[j] => i = j
  BY ChatsOfRefresh
<1>. HIDE DEF chats, n
<1>5. ASSUME NEW c \in ListChats
      PROVE  [e(c) EXCEPT !.fill = fills'] \in ListEntries /\ [e(c) EXCEPT !.fill = fills'].chat = c
  <2>. DEFINE p == c = SupportBot
              t == IF c = SupportBot THEN listClock' ELSE 0
              k == fills'
  <2>1. p \in BOOLEAN /\ t \in 0 .. MaxClock /\ k \in 0 .. MaxFills /\ e(c) = Entry(c, p, t)
    BY <1>3
  <2>. HIDE DEF p, t, k, e
  <2>2. [Entry(c, p, t) EXCEPT !.fill = k] \in ListEntries /\ [Entry(c, p, t) EXCEPT !.fill = k].chat = c
    BY <1>1, <2>1, NewEntry
  <2>. QED  BY <2>1, <2>2 DEF k
<1>. HIDE DEF e
<1>6. \A i \in 1 .. n : chats[i] \in ListChats
  <2>. HIDE DEF ListChats
  <2>. QED  BY <1>4 DEF n
<1>7. s = [i \in 1 .. n |-> [e(chats[i]) EXCEPT !.fill = fills']]
  BY <1>4
<1>. HIDE DEF s
<1>8. \A i \in 1 .. n : s[i] \in ListEntries /\ s[i].chat = chats[i]
  BY <1>5, <1>6, <1>7
<1>9. s \in Seq(ListEntries) /\ Len(s) = n
  <2>. DEFINE E == ListEntries
  <2>1. s \in [1 .. n -> E]
    BY <1>7, <1>8
  <2>. HIDE DEF E
  <2>2. s \in Seq(E) /\ Len(s) = n
    BY ONLY <1>4, <2>1
  <2>. QED  BY <2>2 DEF E
<1>10. OneEach(s)
  BY <1>4, <1>8, <1>9 DEF OneEach
<1>11. IsList(entries')
  BY <1>2, <1>9, <1>10, SortedIsList
<1>12. onScreen' = Drawn(entries', tab', folder', userFolder', search')
  BY <1>2, RenderDraws
<1>13. /\ tab' = tab /\ open' \in ListChats \cup {NoneOpen}
  BY <1>1, <1>2 DEF Filters, ListChats
<1>. QED  BY <1>2, <1>3, <1>11, <1>12, <1>13, ListGoesOn DEF ListInv

\* A message comes to its chat, which goes where the list has it now.
LEMMA BumpKeeps ==
    ASSUME ListInv, NEW c \in ListChats, NEW isSelf \in BOOLEAN, NEW has \in BOOLEAN,
           Bump(c, isSelf, has)
    PROVE  ListInv'
<1>. DEFINE n == Len(entries)
            new(i) == IF entries[i].chat # c THEN entries[i]
                      ELSE [entries[i] EXCEPT !.ts = listClock', !.has = has,
                                  !.unread = IF isSelf \/ open = c THEN @ ELSE 1]
            s == [i \in DOMAIN entries |-> new(i)]
<1>1. /\ entries \in Seq(ListEntries) /\ OneEach(entries) /\ listClock \in 0 .. MaxClock
  BY DEF ListInv, IsList
<1>2. /\ listClock' = listClock + 1 /\ listClock < MaxClock /\ entries' = Sorted(s) /\ Render
      /\ UNCHANGED <<Filters, open, fills, tabBefore>>
  BY DEF Bump, TickList, Resorted
<1>3. n \in Nat /\ DOMAIN entries = 1 .. n /\ \A i \in 1 .. n : entries[i] \in ListEntries
  BY <1>1, EntriesOf
<1>4. listClock' \in 0 .. MaxClock
  <2>1. listClock' = listClock + 1 /\ listClock < MaxClock
    BY DEF Bump, TickList
  <2>. QED  BY ONLY <1>1, <2>1, ListAssumption
<1>5. ASSUME NEW i \in 1 .. n PROVE new(i) \in ListEntries /\ new(i).chat = entries[i].chat
  <2>. DEFINE b == entries[i]
  <2>1. b \in ListEntries
    BY <1>3
  <2>. HIDE DEF b
  <2>2. PICK u \in 0 .. 1 : u = IF isSelf \/ open = c THEN b.unread ELSE 1
    <3>1. b.unread \in 0 .. 1 /\ 1 \in 0 .. 1
      BY <2>1 DEF ListEntries
    <3>2. CASE isSelf \/ open = c
      BY <3>1, <3>2
    <3>3. CASE ~(isSelf \/ open = c)
      BY <3>1, <3>3
    <3>. QED  BY <3>2, <3>3
  <2>. DEFINE x == [b EXCEPT !.ts = listClock', !.has = has, !.unread = u]
  <2>3. x \in ListEntries /\ x.chat = b.chat
    <3>. DEFINE k == listClock'
    <3>1. k \in 0 .. MaxClock
      BY <1>4
    <3>. HIDE DEF k
    <3>2. [b EXCEPT !.ts = k, !.has = has, !.unread = u] \in ListEntries
      BY ONLY <2>1, <3>1, has \in BOOLEAN, u \in 0 .. 1 DEF ListEntries
    <3>3. [b EXCEPT !.ts = k, !.has = has, !.unread = u].chat = b.chat
      BY ONLY <2>1 DEF ListEntries
    <3>. QED  BY <3>2, <3>3 DEF k
  <2>4. new(i) = IF b.chat # c THEN b ELSE x
    BY <2>2 DEF b
  <2>. HIDE DEF x, new
  <2>5. new(i) \in ListEntries /\ new(i).chat = b.chat
    BY <2>1, <2>3, <2>4
  <2>. QED  BY <2>5 DEF b
<1>. HIDE DEF new, n
<1>6. s = [i \in 1 .. n |-> new(i)]
  BY <1>3
<1>. HIDE DEF s
<1>7. s \in Seq(ListEntries) /\ Len(s) = n
  <2>. DEFINE E == ListEntries
  <2>1. s \in [1 .. n -> E]
    BY <1>5, <1>6
  <2>. HIDE DEF E
  <2>2. s \in Seq(E) /\ Len(s) = n
    BY ONLY <1>3, <2>1
  <2>. QED  BY <2>2 DEF E
<1>8. OneEach(s)
  <2>1. \A i \in 1 .. n : s[i].chat = entries[i].chat
    BY <1>5, <1>6
  <2>. QED  BY <1>1, <1>7, <2>1 DEF OneEach, n
<1>9. IsList(entries')
  BY <1>2, <1>7, <1>8, SortedIsList
<1>10. onScreen' = Drawn(entries', tab', folder', userFolder', search')
  BY <1>2, RenderDraws
<1>11. tab' = tab
  BY <1>2 DEF Filters
<1>. QED  BY <1>2, <1>4, <1>9, <1>10, <1>11, ListGoesOn DEF ListInv

\* An answer changes the counts of those entries that the request held.
LEMMA AnswerKeepsList ==
    ASSUME ListInv, NEW counts, AnswerUnread(counts)
    PROVE  ListInv'
<1>. DEFINE n == Len(entries)
            count(i) == IF entries[i].chat \in counts THEN 1 ELSE 0
            new(i) == IF <<entries[i].chat, entries[i].fill>> \in asked
                      THEN [entries[i] EXCEPT !.unread = count(i)]
                      ELSE entries[i]
            s == [i \in DOMAIN entries |-> new(i)]
<1>1. IsList(entries) /\ entries \in Seq(ListEntries)
  BY DEF ListInv, IsList
<1>2. /\ entries' = s /\ Render
      /\ UNCHANGED <<Filters, open, fills, tabBefore, listClock>>
  BY DEF AnswerUnread
<1>3. n \in Nat /\ DOMAIN entries = 1 .. n /\ \A i \in 1 .. n : entries[i] \in ListEntries
  BY <1>1, EntriesOf
<1>4. ASSUME NEW i \in 1 .. n
      PROVE  /\ new(i) \in ListEntries /\ new(i).chat = entries[i].chat
             /\ new(i).pinned = entries[i].pinned /\ new(i).ts = entries[i].ts
  <2>. DEFINE b == entries[i]
              u == count(i)
  <2>1. b \in ListEntries /\ u \in 0 .. 1
    BY <1>3
  <2>. HIDE DEF b, u
  <2>2. LET x == [b EXCEPT !.unread = u]
        IN  x \in ListEntries /\ x.chat = b.chat /\ x.pinned = b.pinned /\ x.ts = b.ts
    BY ONLY <2>1 DEF ListEntries
  <2>3. new(i) = [b EXCEPT !.unread = u] \/ new(i) = b
    BY DEF b, u
  <2>. HIDE DEF new
  <2>4. new(i) \in ListEntries /\ new(i).chat = b.chat /\ new(i).pinned = b.pinned /\ new(i).ts = b.ts
    BY <2>1, <2>2, <2>3
  <2>. QED  BY <2>4 DEF b
<1>. HIDE DEF new, n
<1>5. s = [i \in 1 .. n |-> new(i)]
  BY <1>3
<1>. HIDE DEF s
<1>6. s \in Seq(ListEntries) /\ Len(s) = n
  <2>. DEFINE E == ListEntries
  <2>1. s \in [1 .. n -> E]
    BY <1>4, <1>5
  <2>. HIDE DEF E
  <2>2. s \in Seq(E) /\ Len(s) = n
    BY ONLY <1>3, <2>1
  <2>. QED  BY <2>2 DEF E
<1>7. \A i \in 1 .. n : /\ s[i].chat = entries[i].chat
                        /\ s[i].pinned = entries[i].pinned /\ s[i].ts = entries[i].ts
  BY <1>4, <1>5
<1>8. IsList(entries')
  BY <1>1, <1>2, <1>6, <1>7, RewrittenIsList DEF n
<1>9. onScreen' = Drawn(entries', tab', folder', userFolder', search')
  BY <1>2, RenderDraws
<1>10. tab' = tab
  BY <1>2 DEF Filters
<1>. QED  BY <1>2, <1>8, <1>9, <1>10, ListGoesOn DEF ListInv

\* It goes on holding.
LEMMA NextList == ListInv /\ [ListNext]_listVars => ListInv'
<1>. SUFFICES ASSUME ListInv, [ListNext]_listVars PROVE ListInv'
  OBVIOUS
<1>1. CASE \/ \E t \in ListTabs : SetTab(t)
           \/ \E f \in {"all", "unread", "mine"} : SetFolder(f)
           \/ \E contents \in FolderSets : SetUserFolder(contents)
           \/ Search \/ CloseOverlay
  BY <1>1, FiltersKeep
<1>2. CASE OpenOverlay \/ AskUnread \/ LoseUnread \/ UNCHANGED listVars
  BY <1>2, RequestsKeepList
<1>3. CASE (\E c \in ListChats : OpenChat(c)) \/ OpenSaved
  BY <1>3, OpeningKeeps
<1>4. CASE (\E r \in ListRooms : AddRoom(r)) \/ LeaveChat
  BY <1>4, ComingAndLeavingKeep
<1>5. CASE \E F \in SUBSET ListFriends, G \in SUBSET ListRooms : Refresh(F, G)
  BY <1>5, RefreshKeeps
<1>6. CASE \E c \in ListChats, isSelf, has \in BOOLEAN : Bump(c, isSelf, has)
  BY <1>6, BumpKeeps
<1>7. CASE \E counts \in SUBSET (ListChats \ ListRooms) : AnswerUnread(counts)
  BY <1>7, AnswerKeepsList
<1>. QED  BY <1>1, <1>2, <1>3, <1>4, <1>5, <1>6, <1>7 DEF ListNext

\* The list of chats keeps its types: one entry for each chat.
THEOREM ListTyped == ListSpec => []ListTypeOK
<1>1. ListInv => ListTypeOK
  <2>. SUFFICES ASSUME ListInv PROVE ListTypeOK
    OBVIOUS
  <2>1. entries \in Seq(ListEntries) /\ OneEach(entries)
    BY DEF ListInv, IsList
  <2>2. Shows(onScreen, entries, tab, folder, userFolder, search)
    BY <2>1, WhatIsDrawn DEF ListInv
  <2>3. DOMAIN entries = 1 .. Len(entries)
    BY <2>1, EntriesOf
  <2>. QED  BY <2>1, <2>2, <2>3 DEF ListInv, ListTypeOK, Shows, OneEach
<1>. QED  BY <1>1, InitList, NextList, PTL DEF ListSpec

\* The rows on the screen are those the tab, the folder and the search ask for, in
\* their order, whatever arrived since they were drawn (ChatListPanel._render,
\* _fetch_unread_counts).
THEOREM RowsAreCurrent == ListSpec => []ShownIsCurrent
  BY DrawnIsCurrent, InitList, NextList, PTL DEF ListSpec

-----------------------------------------------------------------------------
(***************************************************************************)
(* The window of a conversation.  What it holds fits the texts said and    *)
(* stored so far, whose number only grows.                                 *)
(***************************************************************************)

CacheShape(l, m) == [id : 0 .. l, room : LocalRooms, text : 0 .. m]
TaskShape(l, m) ==
    [step : {"idle", "fetch", "fetchBot", "show", "showBot", "postNote", "postBot", "replied"},
     as : Accounts \cup {Nobody}, with : Nat, ids : SUBSET (1 .. l), text : 0 .. m]

\* The window when the server has l texts, of m that were said.
Fits(l, m) ==
    /\ me \in Accounts \cup {Nobody} /\ active \in Chats \cup {NoChat}
    /\ view \subseteq Entries /\ displayed \cup marked \subseteq 1 .. l
    /\ viewRoom \in LocalRooms \cup {0} /\ (viewRoom # 0 => active \in Chats)
    /\ history \in [Chats -> SUBSET Entries]
    /\ cache \subseteq CacheShape(l, m)
    /\ oldest \in [LocalRooms -> 0 .. l]
    /\ tasks \in [Tasks -> TaskShape(l, m)]
    /\ \A t \in Tasks : tasks[t].step \in {"postNote", "postBot"} => tasks[t].text # 0

SaidInv ==
    /\ said \in Seq(SUBSET Nat) /\ Len(said) <= MaxSaid
    /\ server \in Seq(1 .. Len(said))

WindowInv == SaidInv /\ Fits(Len(server), Len(said))

\* What fits goes on fitting when more is said and stored.
LEMMA FitsMore ==
    ASSUME NEW l \in Nat, NEW m \in Nat, NEW k \in Nat, NEW n \in Nat, l <= k, m <= n, Fits(l, m)
    PROVE  Fits(k, n)
<1>1. 1 .. l \subseteq 1 .. k /\ 0 .. l \subseteq 0 .. k /\ 0 .. m \subseteq 0 .. n
  OBVIOUS
<1>2. CacheShape(l, m) \subseteq CacheShape(k, n) /\ TaskShape(l, m) \subseteq TaskShape(k, n)
  BY <1>1 DEF CacheShape, TaskShape
<1>. QED  BY <1>1, <1>2 DEF Fits

\* The numbers of what was said and stored.
LEMMA Lengths ==
    ASSUME SaidInv
    PROVE  /\ Len(said) \in Nat /\ Len(server) \in Nat /\ DOMAIN server = 1 .. Len(server)
           /\ \A i \in 1 .. Len(server) : server[i] \in 1 .. Len(said)
           /\ 0 .. Len(said) \subseteq 0 .. MaxSaid
  BY MaxSaidAssumption DEF SaidInv

\* Every chat has a room of the cache, whoever is logged in.
LEMMA RoomsOfChats ==
    ASSUME me \in Accounts \cup {Nobody}, NEW c \in Chats
    PROVE  KindRoomLocal(c) \in LocalRooms
<1>1. SelfId \in Accounts \cup {1} /\ SelfId \in Nat
  BY AccountsAssumption DEF SelfId, Nobody
<1>2. CASE c = Saved
  BY <1>1, <1>2 DEF KindRoomLocal, LocalRooms, Saved
<1>3. CASE c = BotChat
  BY <1>1, <1>3 DEF KindRoomLocal, LocalRooms, BotChat
<1>4. ASSUME NEW f \in Friends, c = FriendChat(f) PROVE KindRoomLocal(c) \in LocalRooms
  <2>1. KindRoomLocal(c) = f * 100 + 3
    BY <1>4 DEF KindRoomLocal, FriendChat
  <2>. QED  BY <2>1 DEF LocalRooms
<1>. QED  BY <1>2, <1>3, <1>4 DEF Chats

\* A page of stored texts is made of entries, and of rows of its room.
LEMMA Pages ==
    ASSUME SaidInv, NEW ids, ids \subseteq 1 .. Len(server), NEW room \in LocalRooms
    PROVE  Shown(ids) \subseteq Entries /\ Rows(ids, room) \subseteq CacheShape(Len(server), Len(said))
<1>1. \A i \in ids : server[i] \in 0 .. MaxSaid /\ server[i] \in 0 .. Len(said) /\ i \in 0 .. Len(server)
  BY Lengths
<1>2. Shown(ids) \subseteq Entries
  BY <1>1 DEF Shown, Entries, OnServer
<1>3. Rows(ids, room) \subseteq CacheShape(Len(server), Len(said))
  BY <1>1 DEF Rows, CacheShape
<1>. QED  BY <1>2, <1>3

\* What is read from the disk is made of entries.
LEMMA CachedEntries ==
    ASSUME SaidInv, NEW r \in CacheShape(Len(server), Len(said))
    PROVE  CacheEntry(r) \in Entries
<1>1. r.text \in 0 .. MaxSaid
  BY Lengths DEF CacheShape
<1>. QED  BY <1>1 DEF CacheEntry, Entries, OnServer, Here

\* insert_messages puts only its own rows into the cache.
LEMMA InsertFits ==
    ASSUME NEW S, cache \subseteq S, NEW new, new \subseteq S, InsertMessages(new)
    PROVE  cache' \subseteq S
  BY DEF InsertMessages

\* So does update_sync_state, whose cursor is one of the ids it saw, or 0.
LEMMA SyncFits ==
    ASSUME NEW l \in Nat, NEW m \in Nat, oldest \in [LocalRooms -> 0 .. l],
           NEW new, new \subseteq CacheShape(l, m), UpdateSyncState(new)
    PROVE  oldest' \in [LocalRooms -> 0 .. l]
<1>1. ASSUME NEW room \in LocalRooms
      PROVE  LET ids == {r.id : r \in {q \in new : q.room = room /\ q.id > 0}}
                 old == IF oldest[room] = 0 THEN {} ELSE {oldest[room]}
             IN  (IF ids \cup old = {} THEN 0 ELSE Min(ids \cup old)) \in 0 .. l
  <2>. DEFINE ids == {r.id : r \in {q \in new : q.room = room /\ q.id > 0}}
              old == IF oldest[room] = 0 THEN {} ELSE {oldest[room]}
              both == ids \cup old
  <2>1. both \subseteq 0 .. l
    <3>1. ids \subseteq 0 .. l
      BY DEF CacheShape
    <3>. QED  BY <3>1
  <2>. HIDE DEF both
  <2>2. both # {} => Min(both) \in both
    <3>1. both \subseteq Nat
      BY <2>1
    <3>. QED  BY <3>1, Least DEF Min
  <2>3. (IF both = {} THEN 0 ELSE Min(both)) \in 0 .. l
    <3>1. CASE both = {}
      BY <3>1
    <3>2. CASE both # {}
      <4>1. Min(both) \in 0 .. l
        BY <2>1, <2>2, <3>2
      <4>. QED  BY <3>2, <4>1
    <3>. QED  BY <3>1, <3>2
  <2>. QED  BY <2>3 DEF both
<1>. QED  BY <1>1 DEF UpdateSyncState

\* asyncio.ensure_future starts one task, or none.
LEMMA EnsureFits ==
    ASSUME NEW S, tasks \in [Tasks -> S], NEW new \in S, Ensure(new)
    PROVE  /\ tasks' \in [Tasks -> S]
           /\ \A t \in Tasks : tasks'[t] = tasks[t] \/ tasks'[t] = new
  BY DEF Ensure, FreeTasks

\* At first nothing was said, and the window is empty.
LEMMA InitWindow == Init => WindowInv
<1>. SUFFICES ASSUME Init PROVE WindowInv
  OBVIOUS
<1>1. SaidInv /\ Len(said) = 0 /\ Len(server) = 0
  BY MaxSaidAssumption DEF Init, SaidInv
<1>2. Idle \in TaskShape(0, 0) /\ Idle.step = "idle"
  BY DEF Idle, TaskShape, Nobody
<1>3. Fits(0, 0)
  BY <1>2 DEF Init, Fits, Nobody
<1>. QED  BY <1>1, <1>3 DEF WindowInv

\* The fetch of a chat asks for the account that is logged in.
LEMMA FetchFits ==
    ASSUME me \in Accounts \cup {Nobody}, NEW c \in Chats, NEW l \in Nat, NEW m \in Nat
    PROVE  FetchOf(c) \in TaskShape(l, m) /\ FetchOf(c).step \in {"fetch", "fetchBot"}
<1>1. me \in Nat /\ \A f \in Friends : f \in Nat
  BY AccountsAssumption DEF Nobody
<1>2. \A step \in {"fetch", "fetchBot"}, with \in Nat :
          Task(step, me, with, 0) \in TaskShape(l, m) /\ Task(step, me, with, 0).step = step
  BY DEF Task, TaskShape
<1>3. CASE c = Saved
  BY <1>1, <1>2, <1>3 DEF FetchOf, Saved
<1>4. CASE c = BotChat
  BY <1>2, <1>4 DEF FetchOf, BotChat
<1>5. ASSUME NEW f \in Friends, c = FriendChat(f)
      PROVE  FetchOf(c) \in TaskShape(l, m) /\ FetchOf(c).step \in {"fetch", "fetchBot"}
  BY <1>1, <1>2, <1>5 DEF FetchOf, FriendChat
<1>. QED  BY <1>3, <1>4, <1>5 DEF Chats

\* The user opens a chat: what is in memory, or else on disk, is shown.
LEMMA SelectFits ==
    ASSUME WindowInv, NEW c \in Chats, Select(c)
    PROVE  WindowInv'
<1>0. PICK l \in Nat, m \in Nat : l = Len(server) /\ m = Len(said)
  BY Lengths DEF WindowInv
<1>1. SaidInv /\ Fits(l, m) /\ l \in Nat /\ m \in Nat
  BY <1>0 DEF WindowInv
<1>2. UNCHANGED <<me, history, cache, oldest, marked, said, server>> /\ active' = c /\ displayed' = {}
      /\ viewRoom' = KindRoomLocal(c) /\ Ensure(FetchOf(c))
      /\ view' \in {history[c], LoadLocalHistory(c)}
  BY DEF Select, SetActiveRoom
<1>3. viewRoom' \in LocalRooms
  BY <1>0, <1>1, <1>2, RoomsOfChats DEF Fits
<1>4. LoadLocalHistory(c) \subseteq Entries
  <2>1. \A r \in cache : CacheEntry(r) \in Entries
    BY <1>0, <1>1, CachedEntries DEF Fits
  <2>. QED  BY <2>1 DEF LoadLocalHistory, ListMessagesByRoom
<1>5. view' \subseteq Entries
  BY <1>0, <1>1, <1>2, <1>4 DEF Fits
<1>6. /\ tasks' \in [Tasks -> TaskShape(l, m)]
      /\ \A t \in Tasks : tasks'[t] = tasks[t] \/ tasks'[t].step \in {"fetch", "fetchBot"}
  <2>. DEFINE S == TaskShape(l, m)  f == FetchOf(c)
  <2>1. f \in S /\ f.step \in {"fetch", "fetchBot"} /\ tasks \in [Tasks -> S] /\ Ensure(f)
    BY <1>0, <1>1, <1>2, FetchFits DEF Fits
  <2>. HIDE DEF S, f
  <2>2. tasks' \in [Tasks -> S] /\ \A t \in Tasks : tasks'[t] = tasks[t] \/ tasks'[t] = f
    BY <2>1, EnsureFits
  <2>. QED  BY <2>1, <2>2 DEF S
<1>7. Fits(l, m)'
  BY <1>0, <1>1, <1>2, <1>3, <1>5, <1>6 DEF Fits
<1>. QED  BY <1>0, <1>1, <1>2, <1>7 DEF WindowInv, SaidInv

\* Older rows of the room that is open are shown, or its chat is fetched again.
LEMMA LazyLoadFits ==
    ASSUME WindowInv, LazyLoad
    PROVE  WindowInv'
<1>0. PICK l \in Nat, m \in Nat : l = Len(server) /\ m = Len(said)
  BY Lengths DEF WindowInv
<1>1. SaidInv /\ Fits(l, m) /\ l \in Nat /\ m \in Nat
  BY <1>0 DEF WindowInv
<1>2. UNCHANGED <<me, active, viewRoom, history, cache, oldest, marked, said, server>>
  BY DEF LazyLoad
<1>3. CASE Ensure(FetchOf(active)) /\ UNCHANGED <<view, displayed>>
  <2>. DEFINE S == TaskShape(l, m)  f == FetchOf(active)
  <2>1. f \in S /\ f.step \in {"fetch", "fetchBot"} /\ tasks \in [Tasks -> S] /\ Ensure(f)
    <3>1. active \in Chats
      BY <1>0, <1>1 DEF LazyLoad, Fits
    <3>. QED  BY <1>0, <1>1, <1>3, <3>1, FetchFits DEF Fits
  <2>. HIDE DEF S, f
  <2>2. tasks' \in [Tasks -> S] /\ \A t \in Tasks : tasks'[t] = tasks[t] \/ tasks'[t] = f
    BY <2>1, EnsureFits
  <2>3. Fits(l, m)'
    BY <1>0, <1>1, <1>2, <1>3, <2>1, <2>2 DEF Fits, S
  <2>. QED  BY <1>0, <1>1, <1>2, <2>3 DEF WindowInv, SaidInv
<1>4. CASE ~(Ensure(FetchOf(active)) /\ UNCHANGED <<view, displayed>>)
  <2>1. PICK new \in SUBSET cache :
           /\ view' = view \cup {CacheEntry(r) : r \in new}
           /\ displayed' = displayed \cup {r.id : r \in {q \in new : q.id > 0}}
           /\ tasks' = tasks
    BY <1>4 DEF LazyLoad, ListMessagesByRoom
  <2>2. \A r \in new : CacheEntry(r) \in Entries /\ r.id \in 0 .. l
    BY <1>0, <1>1, <2>1, CachedEntries DEF Fits, CacheShape
  <2>3. view' \subseteq Entries /\ displayed' \subseteq 1 .. l
    BY <1>0, <1>1, <2>1, <2>2 DEF Fits
  <2>4. Fits(l, m)'
    BY <1>0, <1>1, <1>2, <2>1, <2>3 DEF Fits
  <2>. QED  BY <1>0, <1>1, <1>2, <2>4 DEF WindowInv, SaidInv
<1>. QED  BY <1>3, <1>4

\* What the user clears, and who logs in or out; the disk outlives the program.
LEMMA UserSteps ==
    ASSUME WindowInv,
           Clear \/ Leave \/ (\E a \in Accounts : Login(a)) \/ Logout \/ Restart \/ UNCHANGED vars
    PROVE  WindowInv'
<1>0. PICK l \in Nat, m \in Nat : l = Len(server) /\ m = Len(said)
  BY Lengths DEF WindowInv
<1>1. SaidInv /\ Fits(l, m) /\ l \in Nat /\ m \in Nat
  BY <1>0 DEF WindowInv
<1>2. UNCHANGED <<cache, oldest, marked, said, server>> /\ Idle \in TaskShape(l, m) /\ Idle.step = "idle"
  BY <1>0, <1>1 DEF Clear, Leave, Login, Logout, Restart, vars, Idle, TaskShape, Nobody
<1>3. CASE Clear \/ Leave \/ UNCHANGED vars
  <2>1. Fits(l, m)'
    BY <1>0, <1>1, <1>2, <1>3 DEF Fits, Clear, Leave, ClearView, vars
  <2>. QED  BY <1>0, <1>1, <1>2, <2>1 DEF WindowInv, SaidInv
<1>4. CASE (\E a \in Accounts : Login(a)) \/ Logout
  <2>1. Fits(l, m)'
    BY <1>0, <1>1, <1>2, <1>4 DEF Fits, Login, Logout
  <2>. QED  BY <1>0, <1>1, <1>2, <2>1 DEF WindowInv, SaidInv
<1>5. CASE Restart
  <2>1. Fits(l, m)'
    BY <1>0, <1>1, <1>2, <1>5 DEF Fits, Restart, ClearView
  <2>. QED  BY <1>0, <1>1, <1>2, <2>1 DEF WindowInv, SaidInv
<1>. QED  BY <1>3, <1>4, <1>5

\* A coroutine that goes on, or ends, on a window whose rest is known to fit.
LEMMA TaskFits ==
    ASSUME NEW l \in Nat, NEW m \in Nat, NEW t \in Tasks, Fits(l, m), NEW new \in TaskShape(l, m),
           new.step \notin {"postNote", "postBot"}, tasks' = [tasks EXCEPT ![t] = new]
    PROVE  /\ tasks' \in [Tasks -> TaskShape(l, m)]
           /\ \A u \in Tasks : tasks'[u].step \in {"postNote", "postBot"} => tasks'[u].text # 0
  BY DEF Fits

\* The server answers, or does not.
LEMMA AnswerSteps ==
    ASSUME WindowInv, NEW t \in Tasks, AnswerFetch(t) \/ Fail(t)
    PROVE  WindowInv'
<1>0. PICK l \in Nat, m \in Nat : l = Len(server) /\ m = Len(said)
  BY Lengths DEF WindowInv
<1>1. SaidInv /\ Fits(l, m)
  BY <1>0 DEF WindowInv
<1>2. UNCHANGED <<me, active, view, displayed, viewRoom, history, cache, oldest, marked, said, server>>
  BY DEF AnswerFetch, Fail
<1>3. PICK new \in TaskShape(l, m) :
        new.step \notin {"postNote", "postBot"} /\ tasks' = [tasks EXCEPT ![t] = new]
  <2>1. CASE Fail(t)
    <3>1. Idle \in TaskShape(l, m) /\ Idle.step = "idle"
      BY DEF Idle, TaskShape, Nobody
    <3>. QED  BY <2>1, <3>1 DEF Fail, Finish
  <2>2. CASE AnswerFetch(t)
    <3>1. PICK room : tasks' = [tasks EXCEPT ![t].ids = IdsOf(room),
                                  ![t].step = IF @ = "fetchBot" THEN "showBot" ELSE "show"]
      BY <2>2 DEF AnswerFetch
    <3>. DEFINE new == [tasks[t] EXCEPT !.ids = IdsOf(room),
                                        !.step = IF tasks[t].step = "fetchBot" THEN "showBot" ELSE "show"]
    <3>2. IdsOf(room) \subseteq 1 .. l
      BY <1>0, <1>1, Lengths DEF IdsOf
    <3>3. tasks[t] \in TaskShape(l, m)
      BY <1>1 DEF Fits
    <3>4. new \in TaskShape(l, m) /\ new.step \notin {"postNote", "postBot"}
      BY <3>2, <3>3 DEF TaskShape
    <3>5. tasks' = [tasks EXCEPT ![t] = new]
      BY <3>1
    <3>. QED  BY <3>4, <3>5
  <2>. QED  BY <2>1, <2>2
<1>4. Fits(l, m)'
  BY <1>1, <1>2, <1>3, TaskFits DEF Fits
<1>. QED  BY <1>0, <1>1, <1>2, <1>4 DEF WindowInv, SaidInv

\* The page of a chat is shown, filed and marked read, if its chat is still open.
LEMMA ShowPageFits ==
    ASSUME WindowInv, NEW t \in Tasks, ShowPage(t)
    PROVE  WindowInv'
<1>0. PICK l \in Nat, m \in Nat : l = Len(server) /\ m = Len(said)
  BY Lengths DEF WindowInv
<1>1. SaidInv /\ Fits(l, m)
  BY <1>0 DEF WindowInv
<1>2. UNCHANGED <<me, active, viewRoom, history, said, server>> /\ tasks' = [tasks EXCEPT ![t] = Idle]
  BY DEF ShowPage, Finish
<1>3. Idle \in TaskShape(l, m) /\ Idle.step = "idle"
  BY DEF Idle, TaskShape, Nobody
<1>. DEFINE ids == tasks[t].ids
            opened == IF active = Saved THEN Saved ELSE FriendChat(tasks[t].with)
            new == Rows(ids, KindRoomLocal(opened))
<1>4. ids \subseteq 1 .. l
  BY <1>1 DEF Fits, TaskShape
<1>5. CASE ~ActiveMatch(tasks[t].with)
  <2>1. UNCHANGED <<view, displayed, cache, oldest, marked>>
    BY <1>5 DEF ShowPage
  <2>2. Fits(l, m)'
    BY <1>1, <1>2, <1>3, <2>1, TaskFits DEF Fits
  <2>. QED  BY <1>0, <1>1, <1>2, <2>2 DEF WindowInv, SaidInv
<1>6. CASE ActiveMatch(tasks[t].with)
  <2>1. view' = Shown(ids) /\ displayed' = {} /\ InsertMessages(new) /\ UpdateSyncState(new) /\ PostMarkRead(ids)
    BY <1>6 DEF ShowPage
  <2>2. KindRoomLocal(opened) \in LocalRooms
    <3>1. opened = active /\ active # NoChat
      BY <1>6 DEF ActiveMatch, Saved, FriendChat, NoChat
    <3>2. opened \in Chats
      BY <1>1, <3>1 DEF Fits
    <3>. HIDE DEF opened
    <3>. QED  BY <1>1, <3>2, RoomsOfChats DEF Fits
  <2>3. Shown(ids) \subseteq Entries /\ new \subseteq CacheShape(l, m)
    <3>. HIDE DEF ids, opened
    <3>. QED  BY <1>0, <1>1, <1>4, <2>2, Pages
  <2>. HIDE DEF new
  <2>4. cache' \subseteq CacheShape(l, m) /\ oldest' \in [LocalRooms -> 0 .. l]
    <3>1. cache \subseteq CacheShape(l, m) /\ oldest \in [LocalRooms -> 0 .. l]
      BY <1>1 DEF Fits
    <3>2. cache' \subseteq CacheShape(l, m)
      BY <2>1, <2>3, <3>1, InsertFits
    <3>3. oldest' \in [LocalRooms -> 0 .. l]
      BY <2>1, <2>3, <3>1, SyncFits
    <3>. QED  BY <3>2, <3>3
  <2>. HIDE DEF ids
  <2>5. marked' \subseteq 1 .. l
    <3>1. ids # {} => Max(ids) \in ids
      <4>1. ASSUME ids # {} PROVE \E x \in ids : \A y \in ids : x >= y
        <5>1. PICK x \in ids : \A y \in ids : y <= x
          BY <1>4, <4>1, Greatest
        <5>. QED  BY <1>4, <5>1
      <4>. QED  BY <4>1 DEF Max
    <3>. QED  BY <1>1, <1>4, <2>1, <3>1 DEF PostMarkRead, Fits
  <2>6. Fits(l, m)'
    <3>1. /\ tasks' \in [Tasks -> TaskShape(l, m)]
          /\ \A u \in Tasks : tasks'[u].step \in {"postNote", "postBot"} => tasks'[u].text # 0
      BY <1>1, <1>2, <1>3, TaskFits
    <3>. QED  BY <1>1, <1>2, <2>1, <2>3, <2>4, <2>5, <3>1 DEF Fits
  <2>. QED  BY <1>0, <1>1, <1>2, <2>6 DEF WindowInv, SaidInv
<1>. QED  BY <1>5, <1>6

\* The page of the bot is merged into what is in memory, if its chat is open.
LEMMA ShowBotPageFits ==
    ASSUME WindowInv, NEW t \in Tasks, ShowBotPage(t)
    PROVE  WindowInv'
<1>0. PICK l \in Nat, m \in Nat : l = Len(server) /\ m = Len(said)
  BY Lengths DEF WindowInv
<1>1. SaidInv /\ Fits(l, m)
  BY <1>0 DEF WindowInv
<1>2. UNCHANGED <<me, active, viewRoom, marked, said, server>> /\ tasks' = [tasks EXCEPT ![t] = Idle]
  BY DEF ShowBotPage, Finish
<1>3. Idle \in TaskShape(l, m) /\ Idle.step = "idle"
  BY DEF Idle, TaskShape, Nobody
<1>. DEFINE page == Shown(tasks[t].ids)
            new == {i \in tasks[t].ids : OnServer(server[i]) \notin history[BotChat]}
            filed == Rows(new, KindRoomLocal(BotChat))
<1>4. /\ tasks[t].ids \subseteq 1 .. l /\ BotChat \in Chats /\ history[BotChat] \subseteq Entries
      /\ cache \subseteq CacheShape(l, m) /\ oldest \in [LocalRooms -> 0 .. l]
      /\ view \subseteq Entries /\ history \in [Chats -> SUBSET Entries]
  BY <1>1 DEF Fits, TaskShape, Chats
<1>5. page \subseteq Entries /\ filed \subseteq CacheShape(l, m)
  <2>1. KindRoomLocal(BotChat) \in LocalRooms
    BY <1>1, <1>4, RoomsOfChats DEF Fits
  <2>2. new \subseteq 1 .. l
    BY <1>4
  <2>. HIDE DEF new
  <2>. QED  BY <1>0, <1>1, <1>4, <2>1, <2>2, Pages
<1>6. Merged(page) \subseteq Entries
  BY <1>4, <1>5 DEF Merged
<1>7. /\ displayed' \in {displayed, {}}
      /\ (cache' = cache /\ oldest' = oldest) \/ (InsertMessages(filed) /\ UpdateSyncState(filed))
      /\ \/ view' = view /\ history' = history
         \/ view' = Merged(page) /\ history' = [history EXCEPT ![BotChat] = Merged(page)]
  BY DEF ShowBotPage
<1>. HIDE DEF page, new, filed
<1>8. cache' \subseteq CacheShape(l, m) /\ oldest' \in [LocalRooms -> 0 .. l]
  BY <1>4, <1>5, <1>7, InsertFits, SyncFits
<1>9. view' \subseteq Entries /\ history' \in [Chats -> SUBSET Entries]
  BY <1>4, <1>6, <1>7
<1>10. Fits(l, m)'
  <2>1. /\ tasks' \in [Tasks -> TaskShape(l, m)]
        /\ \A u \in Tasks : tasks'[u].step \in {"postNote", "postBot"} => tasks'[u].text # 0
    BY <1>1, <1>2, <1>3, TaskFits
  <2>2. displayed' \cup marked' \subseteq 1 .. l
    BY <1>1, <1>2, <1>7 DEF Fits
  <2>. QED  BY <1>1, <1>2, <1>8, <1>9, <2>1, <2>2 DEF Fits
<1>. QED  BY <1>0, <1>1, <1>2, <1>10 DEF WindowInv, SaidInv

\* The reply of the bot, or a warning, is appended to its chat.
LEMMA ShowReplyFits ==
    ASSUME WindowInv, NEW t \in Tasks, ShowReply(t)
    PROVE  WindowInv'
<1>0. PICK l \in Nat, m \in Nat : l = Len(server) /\ m = Len(said)
  BY Lengths DEF WindowInv
<1>1. SaidInv /\ Fits(l, m) /\ m <= MaxSaid
  BY <1>0 DEF WindowInv, SaidInv
<1>2. UNCHANGED <<me, active, displayed, viewRoom, marked, said, server>> /\ tasks' = [tasks EXCEPT ![t] = Idle]
  BY DEF ShowReply, Finish
<1>3. Idle \in TaskShape(l, m) /\ Idle.step = "idle"
  BY DEF Idle, TaskShape, Nobody
<1>. DEFINE stored == Rows(tasks[t].ids, KindRoomLocal(BotChat))
            warned == [id |-> 0, room |-> KindRoomLocal(BotChat), text |-> tasks[t].text]
            e == Here(tasks[t].text)
<1>4. /\ InsertMessages(stored \cup {warned}) /\ UpdateSyncState(stored)
      /\ history' = [history EXCEPT ![BotChat] = @ \cup {e}]
      /\ view' \in {view, view \cup {e}}
  BY DEF ShowReply
<1>5. /\ tasks[t].ids \subseteq 1 .. l /\ BotChat \in Chats /\ tasks[t].text \in 0 .. m
      /\ cache \subseteq CacheShape(l, m) /\ oldest \in [LocalRooms -> 0 .. l]
      /\ view \subseteq Entries /\ history \in [Chats -> SUBSET Entries]
  BY <1>1 DEF Fits, TaskShape, Chats
<1>6. KindRoomLocal(BotChat) \in LocalRooms
  BY <1>1, <1>5, RoomsOfChats DEF Fits
<1>7. stored \subseteq CacheShape(l, m)
  BY <1>0, <1>1, <1>5, <1>6, Pages
<1>8. warned \in CacheShape(l, m) /\ e \in Entries
  <2>1. tasks[t].text \in 0 .. MaxSaid
    BY <1>1, <1>5, MaxSaidAssumption
  <2>. QED  BY <1>5, <1>6, <2>1 DEF CacheShape, Here, Entries
<1>. HIDE DEF stored, warned, e
<1>9. cache' \subseteq CacheShape(l, m) /\ oldest' \in [LocalRooms -> 0 .. l]
  BY <1>4, <1>5, <1>7, <1>8, InsertFits, SyncFits
<1>10. view' \subseteq Entries /\ history' \in [Chats -> SUBSET Entries]
  BY <1>4, <1>5, <1>8
<1>11. Fits(l, m)'
  <2>1. /\ tasks' \in [Tasks -> TaskShape(l, m)]
        /\ \A u \in Tasks : tasks'[u].step \in {"postNote", "postBot"} => tasks'[u].text # 0
    BY <1>1, <1>2, <1>3, TaskFits
  <2>. QED  BY <1>1, <1>2, <1>9, <1>10, <2>1 DEF Fits
<1>. QED  BY <1>0, <1>1, <1>2, <1>11 DEF WindowInv, SaidInv

\* A sequence over a set is one over any larger set.
LEMMA SeqGrows ==
    ASSUME NEW S, NEW T, S \subseteq T, NEW s \in Seq(S)
    PROVE  s \in Seq(T)
  OBVIOUS

\* The user says something: it goes into memory, onto the disk and to the server.
LEMMA SendFits ==
    ASSUME WindowInv, Send
    PROVE  WindowInv'
<1>0. PICK l \in Nat, k \in Nat : l = Len(server) /\ k = Len(said)
  BY Lengths DEF WindowInv
<1>. DEFINE m == k + 1
<1>1. m \in Nat /\ m = Len(said) + 1 /\ k <= m /\ l <= l /\ m \in 0 .. MaxSaid /\ m \in 0 .. m /\ m # 0
  BY <1>0, MaxSaidAssumption DEF WindowInv, SaidInv, Send
<1>. HIDE DEF m
<1>2. SaidInv /\ Fits(l, m)
  BY <1>0, <1>1, FitsMore DEF WindowInv
<1>3. /\ UNCHANGED <<me, active, displayed, viewRoom, oldest, marked, server>>
      /\ me # Nobody /\ active # NoChat /\ said' = Append(said, RoomOf(me, active))
      /\ history' = [history EXCEPT ![active] = @ \cup {Here(m)}]
      /\ InsertMessages({[id |-> 0, room |-> KindRoomLocal(active), text |-> m]})
      /\ view' \in {view, view \cup {Here(m)}}
  BY <1>1 DEF Send, AppendDm
<1>4. active \in Chats /\ me \in Accounts /\ me \in Nat
  BY <1>2, <1>3, AccountsAssumption DEF Fits, Nobody
<1>5. RoomOf(me, active) \subseteq Nat
  <2>1. \A f \in Friends : f \in Nat
    BY AccountsAssumption
  <2>2. CASE active = Saved
    BY <1>4, <2>2 DEF RoomOf, Saved
  <2>3. CASE active = BotChat
    BY <1>4, <2>3 DEF RoomOf, BotChat, Bot
  <2>4. ASSUME NEW f \in Friends, active = FriendChat(f) PROVE RoomOf(me, active) \subseteq Nat
    BY <1>4, <2>1, <2>4 DEF RoomOf, FriendChat
  <2>. QED  BY <1>4, <2>2, <2>3, <2>4 DEF Chats
<1>6. SaidInv' /\ Len(said') = m /\ Len(server') = l
  <2>. DEFINE S == SUBSET Nat  room == RoomOf(me, active)
  <2>1. said \in Seq(S) /\ room \in S /\ said' = Append(said, room)
    BY <1>2, <1>3, <1>5 DEF SaidInv
  <2>. HIDE DEF S, room
  <2>2. said' \in Seq(S) /\ Len(said') = m
    BY <1>0, <1>1, <2>1, AppendProperties
  <2>3. server' \in Seq(1 .. m)
    <3>1. 1 .. k \subseteq 1 .. m /\ server \in Seq(1 .. k)
      BY <1>0, <1>1, <1>2 DEF WindowInv, SaidInv
    <3>. QED  BY <1>3, <3>1, SeqGrows
  <2>4. m <= MaxSaid
    BY <1>1
  <2>. QED  BY <1>0, <1>3, <2>2, <2>3, <2>4 DEF SaidInv, S
<1>7. view' \subseteq Entries /\ history' \in [Chats -> SUBSET Entries]
  <2>1. Here(m) \in Entries
    BY <1>1 DEF Here, Entries
  <2>. QED  BY <1>2, <1>3, <1>4, <2>1 DEF Fits
<1>8. cache' \subseteq CacheShape(l, m)
  <2>. DEFINE row == [id |-> 0, room |-> KindRoomLocal(active), text |-> m]
  <2>1. KindRoomLocal(active) \in LocalRooms
    BY <1>2, <1>4, RoomsOfChats DEF Fits
  <2>2. row \in CacheShape(l, m)
    BY <1>0, <1>1, <2>1 DEF CacheShape
  <2>3. cache \subseteq CacheShape(l, m) /\ {row} \subseteq CacheShape(l, m) /\ InsertMessages({row})
    BY <1>2, <1>3, <2>2 DEF Fits
  <2>. HIDE DEF row
  <2>. QED  BY <2>3, InsertFits
<1>9. /\ tasks' \in [Tasks -> TaskShape(l, m)]
      /\ \A t \in Tasks : tasks'[t].step \in {"postNote", "postBot"} => tasks'[t].text # 0
  <2>. DEFINE S == TaskShape(l, m)
  <2>1. tasks \in [Tasks -> S] /\ \A t \in Tasks : tasks[t].step \in {"postNote", "postBot"} => tasks[t].text # 0
    BY <1>2 DEF Fits
  <2>2. CASE tasks' = tasks
    BY <2>1, <2>2
  <2>3. ASSUME NEW step \in {"postBot", "postNote"}, NEW with \in {me, 0}, Ensure(Task(step, me, with, m))
        PROVE  /\ tasks' \in [Tasks -> S]
               /\ \A t \in Tasks : tasks'[t].step \in {"postNote", "postBot"} => tasks'[t].text # 0
    <3>. DEFINE new == Task(step, me, with, m)
    <3>1. new \in S /\ new.text # 0
      BY <1>1, <1>4 DEF Task, TaskShape
    <3>2. Ensure(new)
      BY <2>3
    <3>. HIDE DEF new, S
    <3>3. tasks' \in [Tasks -> S] /\ \A t \in Tasks : tasks'[t] = tasks[t] \/ tasks'[t] = new
      BY <2>1, <3>1, <3>2, EnsureFits
    <3>. QED  BY <2>1, <3>1, <3>3
  <2>4. \/ tasks' = tasks
        \/ \E step \in {"postBot", "postNote"}, with \in {me, 0} : Ensure(Task(step, me, with, m))
    <3>1. CASE active = Saved
      BY <1>1, <3>1 DEF Send, Saved
    <3>2. CASE active = BotChat
      BY <1>1, <3>2 DEF Send, BotChat
    <3>3. ASSUME NEW f \in Friends, active = FriendChat(f) PROVE tasks' = tasks
      BY <3>3 DEF Send, FriendChat
    <3>. QED  BY <1>4, <3>1, <3>2, <3>3 DEF Chats
  <2>. QED  BY <2>2, <2>3, <2>4
<1>10. Fits(l, m)'
  BY <1>2, <1>3, <1>7, <1>8, <1>9 DEF Fits
<1>. QED  BY <1>6, <1>10 DEF WindowInv

\* What the server stores was said, and the window does not see it yet.
LEMMA StoreFits ==
    ASSUME WindowInv, NEW l \in Nat, NEW m \in Nat, NEW room \in SUBSET Nat,
           said' = said \/ said' = Append(said, room), m = Len(said'), m <= MaxSaid,
           NEW stored \in Seq(1 .. m), server' = server \o stored, l = Len(server')
    PROVE  SaidInv' /\ Fits(l, m) /\ Len(server) <= l /\ Len(said) <= m /\ l = Len(server) + Len(stored)
<1>1. said \in Seq(SUBSET Nat) /\ server \in Seq(1 .. Len(said)) /\ Len(said) \in Nat /\ Len(server) \in Nat
  BY Lengths DEF WindowInv, SaidInv
<1>. DEFINE S == SUBSET Nat
<1>2. said \in Seq(S) /\ room \in S
  BY <1>1
<1>. HIDE DEF S
<1>3. said' \in Seq(S) /\ Len(said) <= m
  <2>1. CASE said' = said
    BY <1>1, <1>2, <2>1
  <2>2. CASE said' = Append(said, room)
    <3>1. said' \in Seq(S) /\ Len(said') = Len(said) + 1
      BY <1>2, <2>2, AppendProperties
    <3>. QED  BY <1>1, <3>1
  <2>. QED  BY <2>1, <2>2
<1>4. server \in Seq(1 .. m)
  <2>1. 1 .. Len(said) \subseteq 1 .. m
    BY <1>1, <1>3
  <2>. QED  BY <1>1, <2>1, SeqGrows
<1>5. server' \in Seq(1 .. m) /\ l = Len(server) + Len(stored) /\ Len(stored) \in Nat
  BY <1>4, ConcatProperties
<1>6. Fits(l, m)
  BY <1>1, <1>3, <1>5, FitsMore DEF WindowInv
<1>. QED  BY <1>1, <1>3, <1>5, <1>6 DEF SaidInv, S

\* A friend writes, or a note is stored.
LEMMA StoreSteps ==
    ASSUME WindowInv,
           (\E a \in Accounts, f \in Friends : FriendWrites(a, f)) \/ (\E t \in Tasks : AnswerNote(t))
    PROVE  WindowInv'
<1>0. /\ Len(said) \in Nat /\ Len(server) \in Nat /\ Len(said) <= MaxSaid /\ MaxSaid \in Nat
      /\ said \in Seq(SUBSET Nat) /\ server \in Seq(1 .. Len(said)) /\ SaidInv
  BY Lengths, MaxSaidAssumption DEF WindowInv, SaidInv
<1>1. ASSUME NEW a \in Accounts, NEW f \in Friends, FriendWrites(a, f) PROVE WindowInv'
  <2>. DEFINE room == {a, f}  S == SUBSET Nat
  <2>1. room \in S /\ said \in Seq(S) /\ said' = Append(said, room)
    BY <1>0, <1>1, AccountsAssumption DEF FriendWrites
  <2>2. PICK m \in Nat : m = Len(said) + 1 /\ m <= MaxSaid /\ 1 <= m
    BY <1>0, <1>1 DEF FriendWrites
  <2>. HIDE DEF room, S
  <2>3. m = Len(said')
    BY <2>1, <2>2, AppendProperties
  <2>4. m \in 1 .. m /\ server' = Append(server, m)
    BY <1>1, <2>2 DEF FriendWrites
  <2>5. <<m>> \in Seq(1 .. m) /\ server' = server \o <<m>>
    BY <1>0, <2>4, AppendIsConcat
  <2>6. PICK l \in Nat : l = Len(server')
    <3>1. 1 .. Len(said) \subseteq 1 .. m
      BY <1>0, <2>2
    <3>2. server \in Seq(1 .. m)
      BY <1>0, <3>1, SeqGrows
    <3>. QED  BY <2>4, <3>2, AppendProperties
  <2>7. SaidInv' /\ Fits(l, m)
    BY <2>1, <2>2, <2>3, <2>5, <2>6, StoreFits DEF S
  <2>8. Fits(l, m)'
    BY <1>1, <2>7 DEF Fits, FriendWrites
  <2>. QED  BY <2>3, <2>6, <2>7, <2>8 DEF WindowInv
<1>2. ASSUME NEW t \in Tasks, AnswerNote(t) PROVE WindowInv'
  <2>1. PICK m \in Nat, k \in Nat : m = Len(said) /\ k = Len(server)
    BY <1>0
  <2>2. tasks[t].text \in 1 .. m /\ Fits(k, m)
    BY <1>2, <2>1 DEF WindowInv, Fits, TaskShape, AnswerNote
  <2>3. said' = said /\ server' = Append(server, tasks[t].text) /\ tasks' = [tasks EXCEPT ![t] = Idle]
    BY <1>2 DEF AnswerNote, Finish
  <2>4. <<tasks[t].text>> \in Seq(1 .. m) /\ server' = server \o <<tasks[t].text>>
    <3>1. PICK x \in 1 .. m : x = tasks[t].text
      BY <2>2
    <3>2. <<x>> \in Seq(1 .. m)
      OBVIOUS
    <3>3. server \in Seq(1 .. Len(said)) /\ x \in 1 .. Len(said) /\ server' = Append(server, x)
      BY <1>0, <2>1, <2>3, <3>1
    <3>4. server' = server \o <<x>>
      BY <3>3, AppendIsConcat
    <3>. QED  BY <3>1, <3>2, <3>4
  <2>5. PICK l \in Nat : l = Len(server')
    BY <1>0, <2>1, <2>2, <2>3, AppendProperties
  <2>6. SaidInv' /\ Fits(l, m)
    BY <1>0, <2>1, <2>3, <2>4, <2>5, StoreFits
  <2>7. Idle \in TaskShape(l, m) /\ Idle.step = "idle"
    BY DEF Idle, TaskShape, Nobody
  <2>8. Fits(l, m)'
    BY <1>2, <2>3, <2>6, <2>7, TaskFits DEF Fits, AnswerNote
  <2>. QED  BY <2>1, <2>3, <2>5, <2>6, <2>8 DEF WindowInv
<1>. QED  BY <1>1, <1>2

\* The bot answers, with what the database took of the question and the reply.
LEMMA AnswerBotFits ==
    ASSUME WindowInv, NEW t \in Tasks, AnswerBot(t)
    PROVE  WindowInv'
<1>0. PICK k \in Nat, n \in Nat : k = Len(server) /\ n = Len(said)
  BY Lengths DEF WindowInv
<1>1. /\ SaidInv /\ Fits(k, n) /\ n <= MaxSaid /\ MaxSaid \in Nat
      /\ tasks[t] \in TaskShape(k, n) /\ tasks[t].step = "postBot" /\ tasks[t].text \in 1 .. n
  BY <1>0, MaxSaidAssumption DEF WindowInv, SaidInv, Fits, TaskShape, AnswerBot
<1>2. UNCHANGED <<me, active, view, displayed, viewRoom, history, cache, oldest, marked>>
  BY DEF AnswerBot
<1>3. {tasks[t].as, Bot} \in SUBSET Nat
  <2>1. PICK a \in Accounts \cup {Nobody} : a = tasks[t].as
    BY <1>1 DEF TaskShape
  <2>2. Accounts \cup {Nobody} \subseteq Nat
    BY AccountsAssumption DEF Nobody
  <2>3. {a, Bot} \in SUBSET Nat
    BY <2>1, <2>2 DEF Bot
  <2>. QED  BY <2>1, <2>3
<1>4. CASE UNCHANGED <<said, server>> /\ tasks' = [tasks EXCEPT ![t].step = "replied", ![t].text = 0]
  <2>. DEFINE new == [tasks[t] EXCEPT !.step = "replied", !.text = 0]
  <2>1. new \in TaskShape(k, n) /\ new.step = "replied" /\ tasks' = [tasks EXCEPT ![t] = new]
    <3>1. new \in TaskShape(k, n) /\ new.step = "replied"
      <4>1. PICK z \in 0 .. n : z = 0
        BY <1>0
      <4>2. tasks[t] \in TaskShape(k, n)
        BY <1>1
      <4>3. /\ [tasks[t] EXCEPT !.step = "replied", !.text = z] \in TaskShape(k, n)
            /\ [tasks[t] EXCEPT !.step = "replied", !.text = z].step = "replied"
        BY <4>2 DEF TaskShape
      <4>. QED  BY <4>1, <4>3
    <3>2. tasks' = [tasks EXCEPT ![t] = new]
      BY <1>4
    <3>. QED  BY <3>1, <3>2
  <2>. HIDE DEF new
  <2>2. Fits(k, n)'
    BY <1>1, <1>2, <2>1, TaskFits DEF Fits
  <2>. QED  BY <1>0, <1>1, <1>4, <2>2 DEF WindowInv, SaidInv
<1>5. ASSUME NEW stored \in {<<>>, <<tasks[t].text>>, <<tasks[t].text, n + 1>>}, n < MaxSaid,
             said' = Append(said, {tasks[t].as, Bot}), server' = server \o stored,
             tasks' = [tasks EXCEPT ![t].step = "replied", ![t].text = n + 1,
                                    ![t].ids = k + 1 .. k + Len(stored)]
      PROVE  WindowInv'
  <2>1. PICK m \in Nat : m = n + 1 /\ m <= MaxSaid
    BY <1>1, <1>5
  <2>2. {tasks[t].as, Bot} \in SUBSET Nat
    BY <1>3
  <2>3. m = Len(said')
    BY <1>0, <1>1, <1>5, <2>1, <2>2, AppendProperties DEF SaidInv
  <2>4. stored \in Seq(1 .. m)
    <3>1. tasks[t].text \in 1 .. m /\ n + 1 \in 1 .. m
      BY <1>1, <2>1
    <3>2. <<>> \in Seq(1 .. m) /\ <<tasks[t].text>> \in Seq(1 .. m) /\ <<tasks[t].text, n + 1>> \in Seq(1 .. m)
      <4>1. \A a \in 1 .. m, b \in 1 .. m : <<a>> \in Seq(1 .. m) /\ <<a, b>> \in Seq(1 .. m)
        OBVIOUS
      <4>. QED  BY <3>1, <4>1
    <3>. QED  BY <1>5, <3>2
  <2>5. PICK l \in Nat : l = Len(server') /\ server' \in Seq(1 .. m)
    <3>1. 1 .. n \subseteq 1 .. m /\ server \in Seq(1 .. n)
      BY <1>0, <1>1, <2>1 DEF SaidInv
    <3>2. server \in Seq(1 .. m)
      BY <3>1, SeqGrows
    <3>. QED  BY <1>5, <2>4, <3>2, ConcatProperties
  <2>6. SaidInv' /\ Fits(l, m) /\ l = k + Len(stored) /\ Len(stored) \in Nat
    <3>. DEFINE room == {tasks[t].as, Bot}
    <3>1. /\ WindowInv /\ room \in SUBSET Nat /\ said' = Append(said, room)
          /\ m \in Nat /\ m = Len(said') /\ m <= MaxSaid
      BY <1>0, <1>5, <2>1, <2>2, <2>3
    <3>2. /\ stored \in Seq(1 .. m) /\ server' = server \o stored
          /\ l \in Nat /\ l = Len(server')
      BY <1>5, <2>4, <2>5
    <3>. HIDE DEF room
    <3>3. SaidInv' /\ Fits(l, m) /\ l = Len(server) + Len(stored)
      BY ONLY <3>1, <3>2, StoreFits
    <3>4. Len(stored) \in Nat
      BY <3>2
    <3>. QED  BY <1>0, <3>3, <3>4
  <2>. DEFINE new == [tasks[t] EXCEPT !.step = "replied", !.text = n + 1, !.ids = k + 1 .. k + Len(stored)]
  <2>7. new \in TaskShape(l, m) /\ new.step = "replied"
    <3>1. tasks[t] \in TaskShape(l, m)
      BY <2>6 DEF Fits
    <3>2. n + 1 \in 0 .. m /\ (k + 1 .. k + Len(stored)) \subseteq 1 .. l
      BY <2>1, <2>6
    <3>. QED  BY <3>1, <3>2 DEF TaskShape
  <2>8. tasks' = [tasks EXCEPT ![t] = new]
    BY <1>5
  <2>. HIDE DEF new
  <2>9. Fits(l, m)'
    BY <1>2, <2>6, <2>7, <2>8, TaskFits DEF Fits
  <2>. QED  BY <2>3, <2>5, <2>6, <2>9 DEF WindowInv
<1>. QED  BY <1>0, <1>4, <1>5 DEF AnswerBot

\* Every step of the window keeps it so.
LEMMA NextWindow == WindowInv /\ [Next]_vars => WindowInv'
<1>. SUFFICES ASSUME WindowInv, [Next]_vars PROVE WindowInv'
  OBVIOUS
<1>1. ASSUME NEW c \in Chats, Select(c) PROVE WindowInv'
  BY <1>1, SelectFits
<1>2. CASE Send \/ LazyLoad
  BY <1>2, SendFits, LazyLoadFits
<1>3. CASE Clear \/ Leave \/ (\E a \in Accounts : Login(a)) \/ Logout \/ Restart \/ UNCHANGED vars
  BY <1>3, UserSteps
<1>4. CASE \E a \in Accounts, f \in Friends : FriendWrites(a, f)
  BY <1>4, StoreSteps
<1>5. ASSUME NEW t \in Tasks,
             \/ AnswerFetch(t) \/ Fail(t) \/ AnswerNote(t) \/ AnswerBot(t)
             \/ ShowPage(t) \/ ShowBotPage(t) \/ ShowReply(t)
      PROVE  WindowInv'
  BY <1>5, AnswerSteps, StoreSteps, AnswerBotFits, ShowPageFits, ShowBotPageFits, ShowReplyFits
<1>. QED  BY <1>1, <1>2, <1>3, <1>4, <1>5 DEF Next

\* So it is in every state.
LEMMA WindowAlways == Spec => []WindowInv
  BY InitWindow, NextWindow, PTL DEF Spec

\* What the window, its cache and its coroutines hold; in particular, every id that
\* is shown, marked, cached or waited for is one the server gave.
THEOREM WindowTyped == Spec => []TypeOK
<1>1. WindowInv => TypeOK
  <2>. SUFFICES ASSUME WindowInv PROVE TypeOK
    OBVIOUS
  <2>1. SaidInv /\ Fits(Len(server), Len(said))
    BY DEF WindowInv
  <2>2. DOMAIN server = 1 .. Len(server) /\ \A i \in 1 .. Len(server) : server[i] \in 1 .. Len(said)
    BY <2>1, Lengths
  <2>3. Range(server) \subseteq 1 .. Len(said)
    BY <2>2 DEF Range
  <2>. QED  BY <2>1, <2>2, <2>3 DEF Fits, TypeOK, CacheShape, CacheRows
<1>. QED  BY <1>1, WindowAlways, PTL

\* The merge of _fetch_bot_history never loses an entry of the bot chat: one goes
\* only when the user clears the chat or the program ends.
THEOREM BotChatKept == Spec => BotKeepsWhatWasSaid
<1>1. ASSUME WindowInv, [Next]_vars PROVE history[BotChat] \subseteq history'[BotChat] \/ history'[BotChat] = {}
  <2>1. history \in [Chats -> SUBSET Entries] /\ BotChat \in Chats
    BY <1>1 DEF WindowInv, Fits, Chats
  <2>2. CASE history' = history
    BY <2>2
  <2>3. CASE Send
    <3>1. PICK e : history' = [history EXCEPT ![active] = @ \cup {e}]
      BY <2>3 DEF Send, AppendDm
    <3>. QED  BY <2>1, <3>1
  <2>4. CASE Clear \/ Restart
    BY <2>1, <2>4 DEF Clear, Restart
  <2>5. ASSUME NEW t \in Tasks, ShowBotPage(t)
        PROVE  history[BotChat] \subseteq history'[BotChat] \/ history'[BotChat] = {}
    <3>1. PICK page : history' = history \/ history' = [history EXCEPT ![BotChat] = Merged(page)]
      BY <2>5 DEF ShowBotPage
    <3>. QED  BY <2>1, <3>1 DEF Merged
  <2>6. ASSUME NEW t \in Tasks, ShowReply(t)
        PROVE  history[BotChat] \subseteq history'[BotChat] \/ history'[BotChat] = {}
    <3>1. PICK e : history' = [history EXCEPT ![BotChat] = @ \cup {e}]
      BY <2>6 DEF ShowReply
    <3>. QED  BY <2>1, <3>1
  <2>. QED
    BY <1>1, <2>2, <2>3, <2>4, <2>5, <2>6
       DEF Next, Select, LazyLoad, Leave, Login, Logout, FriendWrites, AnswerFetch, Fail, AnswerNote, AnswerBot,
           ShowPage, vars
<1>. QED  BY <1>1, WindowAlways, PTL DEF Spec, BotKeepsWhatWasSaid

\* The window reports a message as read only at the moment it is put on the screen
\* (_fetch_dm_history, _mark_room_read): a page that comes too late marks nothing.
THEOREM MarksWhatIsShown == Spec => ReadWasOnScreen
<1>1. ASSUME WindowInv, [Next]_vars PROVE \A i \in marked' \ marked : OnServer(server[i]) \in view'
  <2>1. CASE marked' = marked
    BY <2>1
  <2>2. ASSUME NEW t \in Tasks, ShowPage(t) PROVE \A i \in marked' \ marked : OnServer(server[i]) \in view'
    <3>. DEFINE ids == tasks[t].ids
    <3>1. PICK l \in Nat : ids \subseteq 1 .. l
      BY <1>1, Lengths DEF WindowInv, Fits, TaskShape
    <3>2. marked' = marked \/ (view' = Shown(ids) /\ PostMarkRead(ids))
      BY <2>2 DEF ShowPage
    <3>. HIDE DEF ids
    <3>3. ids # {} => Max(ids) \in ids
      <4>1. ASSUME ids # {} PROVE \E x \in ids : \A y \in ids : x >= y
        <5>1. PICK x \in ids : \A y \in ids : y <= x
          BY <3>1, <4>1, Greatest
        <5>. QED  BY <3>1, <5>1
      <4>. QED  BY <4>1 DEF Max
    <3>. QED  BY <3>2, <3>3 DEF PostMarkRead, Shown
  <2>. QED
    BY <1>1, <2>1, <2>2
       DEF Next, Select, Send, LazyLoad, Clear, Leave, Login, Logout, Restart, FriendWrites, AnswerFetch, Fail,
           AnswerNote, AnswerBot, ShowBotPage, ShowReply, vars
<1>. QED  BY <1>1, WindowAlways, PTL DEF Spec, ReadWasOnScreen

-----------------------------------------------------------------------------
(* All of them. *)

\* The parts that MC_Talk runs side by side each behave as their own module says:
\* what is proved of a part holds of the run.
THEOREM TalkPartsGoOn ==
    TalkSpec => Spec /\ FoldersSpec /\ ListSpec /\ AlertsSpec /\ DialogsSpec /\ UpdaterSpec
<1>1. TalkInit => Init /\ FoldersInit /\ ListInit /\ AlertsInit /\ DialogsInit /\ UpdaterInit
  BY DEF TalkInit
<1>2. ASSUME [TalkNext]_talkVars
      PROVE  /\ [Next]_vars /\ [FoldersNext]_folderVars /\ [ListNext]_listVars
             /\ [AlertsNext]_alertVars /\ [DialogsNext]_dialogVars /\ [UpdaterNext]_updateVars
  <2>1. CASE UNCHANGED talkVars
    BY <2>1 DEF talkVars
  <2>2. CASE TalkNext
    BY <2>2 DEF TalkNext, Rest
  <2>. QED  BY <1>2, <2>1, <2>2
<1>. QED
  BY <1>1, <1>2, PTL DEF TalkSpec, Spec, FoldersSpec, ListSpec, AlertsSpec, DialogsSpec, UpdaterSpec

===============================================================================

------------------------------ MODULE MC_Talk ------------------------------
(***************************************************************************)
(* The window of a conversation, and other parts that keep no state in     *)
(* common with it, checked in one run: the first state chooses the part    *)
(* that moves.  Every property here is one of safety.                      *)
(***************************************************************************)
EXTENDS ChatWindow, Folders, ChatList, StreamAlerts, FriendDialogs, Updater, TLC

VARIABLE part

talkVars == <<part, vars, folderVars, listVars, alertVars, dialogVars, updateVars>>

TheFolders == {[included |-> {"ann"}, excluded |-> {}]}

Release(minor, pre) == [nums |-> <<0, minor, 0>>, pre |-> pre]
TheVersions == {Release(minor, pre) : minor \in {4, 5}, pre \in {0, 1, 2}}
Now == Release(4, 1)

Rest(p) ==
    /\ IF p = "window" THEN TRUE ELSE UNCHANGED vars
    /\ IF p = "folders" THEN TRUE ELSE UNCHANGED folderVars
    /\ IF p = "list" THEN TRUE ELSE UNCHANGED listVars
    /\ IF p = "alerts" THEN TRUE ELSE UNCHANGED alertVars
    /\ IF p = "dialogs" THEN TRUE ELSE UNCHANGED dialogVars
    /\ IF p = "updates" THEN TRUE ELSE UNCHANGED updateVars

TalkInit ==
    /\ part \in {"window", "folders", "list", "alerts", "dialogs", "updates"}
    /\ Init /\ FoldersInit /\ ListInit /\ AlertsInit /\ DialogsInit /\ UpdaterInit
    /\ part # "updates" => system = "linux"

TalkNext ==
    /\ UNCHANGED part
    /\ \/ part = "window" /\ Next
       \/ part = "folders" /\ FoldersNext
       \/ part = "list" /\ ListNext
       \/ part = "alerts" /\ AlertsNext
       \/ part = "dialogs" /\ DialogsNext
       \/ part = "updates" /\ UpdaterNext
    /\ Rest(part)

TalkSpec == TalkInit /\ [][TalkNext]_talkVars

=============================================================================

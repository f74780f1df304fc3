------------------------------ MODULE MC_Desk ------------------------------
(***************************************************************************)
(* Parts of the desktop that keep no state in common, checked in one run:  *)
(* the first state chooses the part that moves, so the states are those of *)
(* the parts side by side, not their product.                              *)
(***************************************************************************)
EXTENDS RemoteSession, GroupCall, SignalingClient, FileTransfer,
        OneToOne, TLC

CONSTANTS here, there, photo, report

VARIABLE part

deskVars == <<part, remoteVars, groupVars, vars, transferVars, dialVars>>

TwoFiles == {photo, report}
TwoIds == {here, there}

TheScreens == {[width |-> 2, height |-> 1, dpi |-> 96], [width |-> 1, height |-> 2, dpi |-> 192]}
TheLists == {<<"me", "ann">>, <<"me", "ann", "ben">>}

\* A session that does not move needs one kind of host only.
PlainHost ==
    /\ platform = "mock" /\ policy = "letterbox"
    /\ mine.width = 2 /\ theirs.width = 2

OtherParts(p) ==
    /\ IF p = "remote" THEN TRUE ELSE UNCHANGED remoteVars
    /\ IF p = "group" THEN TRUE ELSE UNCHANGED groupVars
    /\ IF p = "files" THEN TRUE ELSE UNCHANGED transferVars
    /\ IF p = "calls" THEN TRUE ELSE UNCHANGED dialVars
    /\ IF p = "client" THEN TRUE ELSE UNCHANGED vars

DeskInit ==
    /\ part \in {"remote", "group", "client", "files", "calls"}
    /\ RemoteInit /\ GroupInit /\ Init /\ FileInit /\ OneToOneInit
    /\ part # "remote" => PlainHost
    /\ platform = "mock" \/ policy = "letterbox"
    /\ part # "client" => limit = 0

DeskNext ==
    /\ UNCHANGED part
    /\ \/ part = "remote" /\ RemoteNext
       \/ part = "group" /\ GroupNext
       \/ part = "client" /\ Next
       \/ part = "files" /\ FileNext
       \/ part = "calls" /\ OneToOneNext
    /\ OtherParts(part)

DeskSpec == DeskInit /\ [][DeskNext]_deskVars /\ RemoteFairness /\ ClientFairness

\* Nothing goes on out of sight: no renderer reads a track that no tile shows
\* (group_call_dialog.py), and the controller never moves the pointer of the
\* host off its screen (coord_transform.py).
NothingOutOfSight == RenderersAreTiles /\ PointerOnScreen

=============================================================================

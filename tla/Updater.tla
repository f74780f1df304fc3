-------------------------------- MODULE Updater --------------------------------
(***************************************************************************)
(* Updating the desktop: the task that asks for the latest version once a  *)
(* day, the dialog it opens, and the two library functions that download   *)
(* a package and put it in the place of the installed program.  Nothing    *)
(* connects the dialog to them yet (on_user_go is None): a caller that     *)
(* applies what it downloaded is assumed.  Files outlive the process, and  *)
(* the process may end between any two of their changes.                   *)
(***************************************************************************)
EXTENDS Naturals

CONSTANTS Versions,    \* versions on offer: [nums, pre], pre 0 for a release
          Current,     \* CURRENT_VERSION
          MaxChecks    \* daily checks (bound)

ASSUME UpdaterAssumption == Current \in Versions /\ MaxChecks \in Nat

VARIABLES
    checker,    \* periodic_check: where it stands
    checks,     \* checks begun
    offered,    \* the version the update dialog shows, or NoVersion
    greyed,     \* its buttons are disabled
    zip,        \* the file at dest_path: none, part, whole or bad
    task,       \* the caller of download and apply: where it stands
    installed,  \* install_dir: old, none, part or new
    moved,      \* in the backup directory of this update: none, empty or a program
    saved,      \* programs in those of earlier updates
    system,     \* sys.platform
    updated     \* what apply_update returned: none, yes or no

updateVars == <<checker, checks, offered, greyed, zip, task, installed, moved,
                saved, system, updated>>
fileVars == <<zip, installed, moved, saved>>
dialogUpVars == <<offered, greyed>>

NoVersion == [nums |-> <<>>, pre |-> 0]

-----------------------------------------------------------------------------
(* compare_versions: negative, zero or positive.  Tags of pre-releases are *)
(* compared as strings, whose order is that of the numbers here.           *)

Sign(before, after) == IF before THEN 0 - 1 ELSE IF after THEN 1 ELSE 0

CompareTags(a, b) ==
    IF a = b THEN 0
    ELSE IF a = 0 THEN 1 ELSE IF b = 0 THEN 0 - 1
    ELSE Sign(a < b, a > b)

CompareVersions(a, b) ==
    LET Differ == {i \in DOMAIN a.nums : a.nums[i] # b.nums[i]}
        first == CHOOSE i \in Differ : \A j \in Differ : i <= j
    IN  IF Differ = {} THEN CompareTags(a.pre, b.pre)
        ELSE Sign(a.nums[first] < b.nums[first], a.nums[first] > b.nums[first])

-----------------------------------------------------------------------------
(* periodic_check and its dialog.                                          *)

Check ==
    /\ checker = "asleep" /\ checks < MaxChecks
    /\ checker' = "asking" /\ checks' = checks + 1
    /\ UNCHANGED <<dialogUpVars, fileVars, task, system, updated>>

\* 404, another status, no dict, a version that is none: the next day.
CheckFails ==
    /\ checker = "asking"
    /\ checker' = "asleep"
    /\ UNCHANGED <<checks, dialogUpVars, fileVars, task, system, updated>>

\* A fresh dialog, its buttons enabled.
OnNewVersion(v) == checker' = "showing" /\ offered' = v /\ greyed' = FALSE

\* The dialog is modal: the loop goes on when it has closed.
CheckAnswers(v) ==
    /\ checker = "asking"
    /\ IF CompareVersions(Current, v) < 0
       THEN OnNewVersion(v)
       ELSE checker' = "asleep" /\ UNCHANGED dialogUpVars
    /\ UNCHANGED <<checks, fileVars, task, system, updated>>

UpdateLater ==
    /\ checker = "showing"       \* the button, Escape or a click beside the dialog
    /\ checker' = "asleep" /\ offered' = NoVersion
    /\ UNCHANGED <<checks, greyed, fileVars, task, system, updated>>

\* _on_update disables both buttons; on_user_go starts the download.
UpdateNow ==
    /\ checker = "showing" /\ ~greyed /\ task = "idle"
    /\ greyed' = TRUE
    /\ task' = "download"
    /\ UNCHANGED <<checker, checks, offered, fileVars, system, updated>>

\* _cancel_update_task at closeEvent
CancelUpdates ==
    /\ checker \in {"asleep", "asking"}
    /\ checker' = "cancelled"
    /\ UNCHANGED <<checks, dialogUpVars, fileVars, task, system, updated>>

-----------------------------------------------------------------------------
(* download_update_async                                                   *)

CheckUnchanged == UNCHANGED <<checker, checks, dialogUpVars, system>>

\* open(dest, "wb") and the chunks.
WriteChunks ==
    /\ task = "download"
    /\ zip' = "part" /\ task' = "downloading"
    /\ UNCHANGED <<installed, moved, saved, updated>> /\ CheckUnchanged

StreamEnds ==
    /\ task = "downloading" /\ zip = "part"
    /\ zip' \in {"whole", "bad"}
    /\ UNCHANGED <<task, installed, moved, saved, updated>> /\ CheckUnchanged

\* The hash decides; what does not match is removed.
ComparesHash ==
    /\ task = "downloading" /\ zip \in {"whole", "bad"}
    /\ IF zip = "whole" THEN task' = "apply" /\ UNCHANGED zip
                        ELSE task' = "idle" /\ zip' = "none"
    /\ UNCHANGED <<installed, moved, saved, updated>> /\ CheckUnchanged

DownloadFails ==
    /\ task \in {"download", "downloading"}
    /\ task' = "idle" /\ zip' = "none"
    /\ UNCHANGED <<installed, moved, saved, updated>> /\ CheckUnchanged

-----------------------------------------------------------------------------
(* apply_update, for darwin and win32; elsewhere it refuses.               *)

DetectPlatform == {"darwin", "win32", "linux"}

\* Mutant of AfterMkdir: extract before the old program is moved away.
ExtractFirst == "extract"

AfterMkdir == "move"

StartApply ==
    /\ task = "apply"
    /\ task' = CASE system = "darwin" -> "mkdir"
                 [] system = "win32" -> "unpack"
                 [] OTHER -> "idle"
    /\ updated' = IF system \in {"darwin", "win32"} THEN updated ELSE "no"
    /\ UNCHANGED fileVars /\ CheckUnchanged

\* Its name has the time of now, so that earlier backups stay.
MakeBackup ==
    /\ task = "mkdir"
    /\ saved' = saved \cup ({moved} \ {"none", "empty"})
    /\ moved' = "empty" /\ task' = AfterMkdir
    /\ UNCHANGED <<zip, installed, updated>> /\ CheckUnchanged

\* shutil.move: on one file system a rename.
MoveAway ==
    /\ task = "move"
    /\ moved' = installed /\ installed' = "none" /\ task' = "extract"
    /\ UNCHANGED <<zip, saved, updated>> /\ CheckUnchanged

\* extractall writes file after file, and may stop at any of them.
Extract ==
    /\ task = "extract"
    /\ installed' = "part" /\ task' = "verify"
    /\ UNCHANGED <<zip, moved, saved, updated>> /\ CheckUnchanged

\* The executable is where it should be.
Verified ==
    /\ task = "verify"
    /\ installed' = "new"
    /\ task' = "idle" /\ updated' = "yes"
    /\ UNCHANGED <<zip, moved, saved>> /\ CheckUnchanged

\* Without room, permission or the executable: the way back, which is taken
\* only when nothing is in the place of the program, and may fail too.
ApplyFails ==
    /\ task \in {"mkdir", "move", "extract", "verify"}
    /\ IF moved \notin {"none", "empty"} /\ installed = "none"
       THEN \/ moved' = "empty" /\ installed' = moved
            \/ UNCHANGED <<moved, installed>>
       ELSE UNCHANGED <<moved, installed>>
    /\ task' = "idle" /\ updated' = "no"
    /\ UNCHANGED <<zip, saved>> /\ CheckUnchanged

\* On Windows a batch file does the rest, when the process has ended.
Unpack ==
    /\ task = "unpack"
    /\ \/ task' = "xcopy" /\ updated' = "yes"
       \/ task' = "idle" /\ updated' = "no"
    /\ UNCHANGED fileVars /\ CheckUnchanged

CopyOver ==
    /\ task = "xcopy"
    /\ installed' \in {"part", "new"}
    /\ task' = "idle"
    /\ UNCHANGED <<zip, moved, saved, updated>> /\ CheckUnchanged

-----------------------------------------------------------------------------
\* The process is killed; the files are left as they are.
Killed ==
    /\ checker # "dead"
    /\ checker' = "dead" /\ task' = IF task = "xcopy" THEN task ELSE "idle"
    /\ UNCHANGED <<checks, dialogUpVars, fileVars, system, updated>>

UpdaterInit ==
    /\ checker = "asleep" /\ checks = 0
    /\ offered = NoVersion /\ greyed = FALSE
    /\ zip = "none" /\ task = "idle" /\ installed = "old"
    /\ moved = "none" /\ saved = {}
    /\ system \in DetectPlatform /\ updated = "none"

UpdaterNext ==
    \/ Check \/ CheckFails \/ (\E v \in Versions : CheckAnswers(v))
    \/ UpdateLater \/ UpdateNow \/ CancelUpdates
    \/ WriteChunks \/ StreamEnds \/ ComparesHash \/ DownloadFails
    \/ StartApply \/ MakeBackup \/ MoveAway \/ Extract \/ Verified
    \/ ApplyFails \/ Unpack \/ CopyOver \/ Killed

UpdaterSpec == UpdaterInit /\ [][UpdaterNext]_updateVars

-----------------------------------------------------------------------------
(* Properties.                                                             *)

(* Whatever fails and whenever the process ends, a whole program is in its *)
(* place or in the backup beside it, where a user finds it again.  (Not on *)
(* Windows, where the batch file copies over the program without one.)     *)
ProgramSurvives ==
    system # "win32" => ({installed, moved} \cup saved) \cap {"old", "new"} # {}

=============================================================================

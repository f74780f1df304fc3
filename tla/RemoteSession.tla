---------------------------- MODULE RemoteSession ----------------------------
(***************************************************************************)
(* One remote-desktop session (app/remote/): the request and its grant,    *)
(* the runner of the host, whose capture loop is an asyncio task that is   *)
(* started and cancelled while other coroutines run, and the input of the  *)
(* controller, which the host maps to its own screen and hands to the      *)
(* backend of its platform.  The channel of the input keeps the order, the *)
(* one of the frames does not matter here: a frame is sent when the host   *)
(* hands it over.                                                          *)
(***************************************************************************)
EXTENDS Integers, Sequences, FiniteSets, FiniteSetsExt, SequencesExt

CONSTANTS Platforms,    \* platforms a host may run on
          Policies,     \* AspectRatioPolicy values in use
          Screens,      \* screens of a controller or a host: [width, height, dpi]
          Durations,    \* duration_seconds of a request
          MaxTime,      \* last instant of the clock (bound)
          MaxFrames,    \* frames recorded (bound)
          MaxInputs,    \* events of the controller (bound)
          MaxLoops,     \* capture tasks ever created (bound)
          Stops         \* calls of stop() that may be in progress (bound)

AspectRatioPolicy == {"letterbox", "stretch", "crop"}
RemoteScreenInfo == [width : Nat, height : Nat, dpi : Nat \ {0}]

\* A request is its duration, in seconds: at most a day.
PermissionRequest == 1 .. 86400

\* The mapping divides by both sides of a screen.
ASSUME ScreensAssumption ==
    /\ Screens \subseteq RemoteScreenInfo
    /\ \A s \in Screens : s.width > 0 /\ s.height > 0
ASSUME RemoteAssumption ==
    /\ Platforms \subseteq {"mock", "darwin", "win32", "linux"}
    /\ Policies \subseteq AspectRatioPolicy
    /\ Durations \subseteq PermissionRequest
    /\ {MaxTime, MaxFrames, MaxInputs, MaxLoops} \subseteq Nat

VARIABLES
    platform, policy, mine, theirs,  \* of the host; the screens of host and controller
    clock,      \* the host's clock
    request,    \* the pending PermissionRequest: its duration, 0 if there is none
    grant,      \* the PermissionGrant of the runner
    running,    \* _running
    handle,     \* _capture_task: number of a loop, 0 for None
    loops,      \* what each capture task is at
    stops,      \* the loop each stop() in progress waits for, 0 if it is not in progress
    counter,    \* _frame_counter
    sent,       \* ids of the frames handed to the channel, in order
    inputs,     \* events on their way to the host
    typed,      \* number of events the controller sent
    pointer,    \* where the pointer of the host is
    held        \* keys and buttons the host believes pressed

screenVars == <<platform, policy, mine, theirs>>
grantVars == <<clock, request, grant>>
loopVars == <<running, handle, loops, stops, counter, sent>>
inputVars == <<inputs, typed, pointer, held>>
remoteVars == <<screenVars, grantVars, loopVars, inputVars>>

-----------------------------------------------------------------------------
(* The grant.                                                              *)

NoGrant == [granted_at |-> 0, expires_at |-> 0]

\* Of any length that was asked for; it ends after it begins.
PermissionGrant ==
    {g \in [granted_at : 0..MaxTime, expires_at : 0..MaxTime + Max(Durations)] :
        g.granted_at < g.expires_at}

GrantRequest(duration) == [granted_at |-> clock, expires_at |-> clock + duration]

CheckGrantActive(g) == g.granted_at <= clock /\ clock < g.expires_at

\* The controller asks (RemoteRequestDialog); only one request is looked at.
Ask(d) ==
    /\ request = 0 /\ grant = NoGrant
    /\ request' = d
    /\ UNCHANGED <<screenVars, clock, grant, loopVars, inputVars>>

\* RemoteConnectDialog: the host accepts, and the runner gets the grant.
Accept ==
    /\ request # 0
    /\ grant' = GrantRequest(request)
    /\ request' = 0
    /\ UNCHANGED <<screenVars, clock, loopVars, inputVars>>

Reject ==
    /\ request # 0
    /\ request' = 0
    /\ UNCHANGED <<screenVars, clock, grant, loopVars, inputVars>>

Tick ==
    /\ clock < MaxTime
    /\ clock' = clock + 1
    /\ UNCHANGED <<screenVars, request, grant, loopVars, inputVars>>

-----------------------------------------------------------------------------
(* The runner of the host.  A loop is "new" until its task first runs, then *)
(* "sending" or "asleep" at an await; a cancelled one ends at its await.    *)

Over == {"none", "done", "cancelled"}
Loops == 1..MaxLoops
Created == Cardinality({i \in Loops : loops[i] # "none"})

\* start(): a runner that runs is left alone.
Start ==
    /\ grant # NoGrant
    /\ ~running /\ Created < MaxLoops
    /\ running' = TRUE
    /\ handle' = Created + 1
    /\ loops' = [loops EXCEPT ![Created + 1] = "new"]
    /\ UNCHANGED <<screenVars, grantVars, stops, counter, sent, inputVars>>

\* stop() up to its await.  Without a task that still runs it is over at once.
Stop(s) ==
    /\ stops[s] = 0
    /\ running' = FALSE
    /\ IF handle # 0 /\ loops[handle] \notin {"done", "cancelled"}
         THEN /\ stops' = [stops EXCEPT ![s] = handle]
              /\ loops' = [loops EXCEPT ![handle] = "cancelling"]
              /\ UNCHANGED handle
         ELSE handle' = 0 /\ UNCHANGED <<stops, loops>>
    /\ UNCHANGED <<screenVars, grantVars, counter, sent, inputVars>>

\* stop() after its await, whatever _capture_task is by then.
Stopped(s) ==
    /\ stops[s] # 0 /\ loops[stops[s]] \in Over
    /\ stops' = [stops EXCEPT ![s] = 0]
    /\ handle' = 0
    /\ UNCHANGED <<screenVars, grantVars, running, loops, counter, sent, inputVars>>

\* Mutant of GoesOn: the loop relies on being cancelled.
UntilCancelled == TRUE

\* The condition of the capture loop.
GoesOn == running

\* backend.capture(): a frame or an exception, by platform.
MockCaptureBackend == {"frame"}
MacOSQuartzBackend == {"frame", "raise"}
WindowsGDIBackend == {"frame", "raise"}
LinuxX11Backend == {"frame", "raise"}

SelectCaptureBackend(name) ==
    CASE name = "mock"   -> MockCaptureBackend
      [] name = "darwin" -> MacOSQuartzBackend
      [] name = "win32"  -> WindowsGDIBackend
      [] name = "linux"  -> LinuxX11Backend

\* A frame is its id.
RemoteFrame == 0 .. MaxFrames - 1

\* A captured picture becomes the frame with the next id, which is handed over before
\* the loop gives up the thread.  Frames after the first MaxFrames are not recorded.
HandOver ==
    IF counter < MaxFrames
      THEN sent' = Append(sent, counter) /\ counter' = counter + 1
      ELSE UNCHANGED <<sent, counter>>

\* _host_capture_loop from the head of the loop to its next await, for a runner
\* without max_frames.
Capture(i) ==
    /\ loops[i] \in {"new", "asleep"}
    /\ IF ~GoesOn
         THEN loops' = [loops EXCEPT ![i] = "done"] /\ UNCHANGED <<counter, sent>>
         ELSE \E outcome \in SelectCaptureBackend(platform) :
                IF outcome = "frame"
                  THEN loops' = [loops EXCEPT ![i] = "sending"] /\ HandOver
                  ELSE loops' = [loops EXCEPT ![i] = "asleep"] /\ UNCHANGED <<counter, sent>>
    /\ UNCHANGED <<screenVars, grantVars, running, handle, stops, inputVars>>

\* The channel has taken the frame; the loop sleeps.
Sleep(i) ==
    /\ loops[i] = "sending"
    /\ loops' = [loops EXCEPT ![i] = "asleep"]
    /\ UNCHANGED <<screenVars, grantVars, running, handle, stops, counter, sent, inputVars>>

\* CancelledError is raised at the await, or before the first step of the task.
Cancelled(i) ==
    /\ loops[i] = "cancelling"
    /\ loops' = [loops EXCEPT ![i] = "cancelled"]
    /\ UNCHANGED <<screenVars, grantVars, running, handle, stops, counter, sent, inputVars>>

-----------------------------------------------------------------------------
(* Coordinates.  int() of the code cuts towards zero.                      *)

Cut(a, b) == IF a >= 0 THEN a \div b ELSE -((-a) \div b)

Nowhere == <<-1, -1>>

Stretched(s, t, x, y) == <<Cut(x * t.width, s.width), Cut(y * t.height, s.height)>>

\* Bars above and below a wide picture, at the sides of a narrow one.
Letterboxed(s, t, x, y) ==
    IF s.width * t.height > t.width * s.height
      THEN LET h == (s.height * t.width) \div s.width
           IN  <<Cut(x * t.width, s.width),
                 (t.height - h) \div 2 + Cut(y * t.width, s.width)>>
      ELSE LET w == (s.width * t.height) \div s.height
           IN  <<(t.width - w) \div 2 + Cut(x * t.height, s.height),
                 Cut(y * t.height, s.height)>>

\* The part of the sender's screen that does not fit is cut off.
Cropped(s, t, x, y) ==
    IF s.width * t.height > t.width * s.height
      THEN LET w == (t.width * s.height) \div t.height
               left == (s.width - w) \div 2
           IN  IF x < left \/ x >= left + w THEN Nowhere
               ELSE <<Cut((x - left) * t.height, s.height), Cut(y * t.height, s.height)>>
      ELSE LET h == (t.height * s.width) \div t.width
               top == (s.height - h) \div 2
           IN  IF y < top \/ y >= top + h THEN Nowhere
               ELSE <<Cut(x * t.width, s.width), Cut((y - top) * t.width, s.width)>>

\* Mutant of Clamp: the last column and row are taken for one more.
ClampToSize(t, p) == <<Max({0, Min({p[1], t.width})}), Max({0, Min({p[2], t.height})})>>

Clamp(t, p) == <<Max({0, Min({p[1], t.width - 1})}), Max({0, Min({p[2], t.height - 1})})>>

ScaleDpi(t, p) == IF t.dpi = 96 THEN p ELSE <<Cut(p[1] * t.dpi, 96), Cut(p[2] * t.dpi, 96)>>

TransformCoordinates(s, t, x, y, how) ==
    LET fit == IF s.width * t.height = t.width * s.height THEN "stretch" ELSE how
        p == CASE fit = "stretch"   -> Stretched(s, t, x, y)
               [] fit = "letterbox" -> Letterboxed(s, t, x, y)
               [] fit = "crop"      -> Cropped(s, t, x, y)
    IN  IF fit = "crop" /\ p = Nowhere THEN Nowhere ELSE Clamp(t, ScaleDpi(t, p))

-----------------------------------------------------------------------------
(* Input.  An event is [type, x, y, what, pressed].                        *)

Move(x, y) == [type |-> "mouse_move", x |-> x, y |-> y, what |-> "none", pressed |-> FALSE]
Click(x, y, p) == [type |-> "mouse_click", x |-> x, y |-> y, what |-> "left", pressed |-> p]
Key(p) == [type |-> "key", x |-> 0, y |-> 0, what |-> "key", pressed |-> p]

\* _transform_input: pointer events only.
TransformInput(e) ==
    IF e.type = "key" THEN e
    ELSE LET p == TransformCoordinates(theirs, mine, e.x, e.y, policy)
         IN  [e EXCEPT !.x = p[1], !.y = p[2]]

Pressed(e) == IF e.pressed THEN held \cup {e.what} ELSE held \ {e.what}

\* macOS posts a click where the event says.
MacOSApply(e) ==
    /\ pointer' = IF e.type = "key" THEN pointer ELSE <<e.x, e.y>>
    /\ held' = IF e.type = "mouse_move" THEN held ELSE Pressed(e)

\* SendInput moves for a move event only; a click is made where the pointer is.
WindowsApply(e) ==
    /\ pointer' = IF e.type = "mouse_move" THEN <<e.x, e.y>> ELSE pointer
    /\ held' = IF e.type = "mouse_move" THEN held ELSE Pressed(e)

\* XTEST: a button event has no position either.
LinuxApply(e) ==
    /\ pointer' = IF e.type = "mouse_move" THEN <<e.x, e.y>> ELSE pointer
    /\ held' = IF e.type = "mouse_move" THEN held ELSE Pressed(e)

SelectInputBackend(e) ==
    CASE platform \in {"mock", "darwin"} -> MacOSApply(e)
      [] platform = "win32"              -> WindowsApply(e)
      [] platform = "linux"              -> LinuxApply(e)

\* apply_events: an exception of the backend ends the batch without an effect.
ApplyEvents(e) == SelectInputBackend(e) \/ UNCHANGED <<pointer, held>>

\* The points a controller may aim at: its own screen and one beyond each edge.
Aims == (-1 .. theirs.width) \X (-1 .. theirs.height)

SendLocalInput ==
    /\ typed < MaxInputs
    /\ \E a \in Aims, p \in BOOLEAN :
          \E e \in {Move(a[1], a[2]), Click(a[1], a[2], p), Key(p)} : inputs' = Append(inputs, e)
    /\ typed' = typed + 1
    /\ UNCHANGED <<screenVars, grantVars, loopVars, pointer, held>>

\* handle_incoming_input: without an active grant the event is dropped.
HandleIncomingInput ==
    /\ inputs # <<>>
    /\ inputs' = Tail(inputs)
    /\ IF CheckGrantActive(grant) THEN ApplyEvents(TransformInput(Head(inputs)))
       ELSE UNCHANGED <<pointer, held>>
    /\ UNCHANGED <<screenVars, grantVars, loopVars, typed>>

-----------------------------------------------------------------------------

RemoteInit ==
    /\ platform \in Platforms /\ policy \in Policies
    /\ mine \in Screens /\ theirs \in Screens
    /\ clock = 0 /\ request = 0 /\ grant = NoGrant
    /\ running = FALSE /\ handle = 0 /\ counter = 0 /\ sent = <<>>
    /\ loops = [i \in Loops |-> "none"]
    /\ stops = [s \in Stops |-> 0]
    /\ inputs = <<>> /\ typed = 0 /\ pointer = <<0, 0>> /\ held = {}

RemoteNext ==
    \/ \E d \in Durations : Ask(d)
    \/ Accept \/ Reject \/ Tick
    \/ Start
    \/ \E s \in Stops : Stop(s) \/ Stopped(s)
    \/ \E i \in Loops : Capture(i) \/ Sleep(i) \/ Cancelled(i)
    \/ SendLocalInput \/ HandleIncomingInput

RemoteSpec == RemoteInit /\ [][RemoteNext]_remoteVars

\* asyncio resumes every coroutine whose wait is over; a send and a sleep end.
RemoteFairness ==
    \A i \in Loops : WF_remoteVars(Capture(i)) /\ WF_remoteVars(Sleep(i)) /\ WF_remoteVars(Cancelled(i))

-----------------------------------------------------------------------------
(* Properties.                                                             *)

RemoteTypeOK ==
    /\ clock \in 0..MaxTime /\ request \in Durations \cup {0}
    /\ grant \in PermissionGrant \cup {NoGrant}
    /\ running \in BOOLEAN /\ handle \in Loops \cup {0}
    /\ loops \in [Loops -> Over \cup {"new", "sending", "asleep", "cancelling"}]
    /\ stops \in [Stops -> Loops \cup {0}]
    /\ counter = Len(sent) /\ Range(sent) \subseteq RemoteFrame
    /\ held \subseteq {"left", "key"}

(* A runner that was stopped and is not started again has no capture loop    *)
(* left after a while, not even one whose task a start() in the middle of a  *)
(* stop() has made it forget (stop sets _capture_task to None at its end).   *)
StoppedLoopsEnd ==
    \A i \in Loops : ~running /\ loops[i] # "none" ~> running \/ loops[i] \in Over

(* The pointer of the host stays on its screen whatever the two screens and  *)
(* wherever the controller aims, unless the policy cuts the picture off      *)
(* (transform_coordinates, _transform_input).                                *)
PointerOnScreen ==
    policy # "crop" => pointer[1] \in 0..mine.width - 1 /\ pointer[2] \in 0..mine.height - 1

(* "(-1, -1) 영역 외 → dispatch skip 신호" (coord_transform.py:159): a point in the *)
(* part that is cut off moves nothing.                                       *)
CutOffIsSkipped == pointer # Nowhere

=============================================================================

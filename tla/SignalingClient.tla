--------------------------- MODULE SignalingClient ---------------------------
(***************************************************************************)
(* The client's connection to the signaling server                         *)
(* (app/net/signaling_client.py) and the identity it keeps in AppState     *)
(* (app/core/app_state.py): connect(), join() and disconnect() of a        *)
(* caller, the receive loop of each socket, and the reconnect loop.        *)
(*                                                                         *)
(* One event loop runs them; an action is the code between two awaits that *)
(* suspend.  Sending a small frame does not.  Time and the growth of the   *)
(* delay are left out: a sleep just ends.                                  *)
(***************************************************************************)
EXTENDS Naturals, FiniteSets

CONSTANTS
    Ids,          \* <<room, peer_id>> pairs a caller joins with
    MaxSockets,   \* bound: WebSockets opened
    Limits,       \* what _reconnect_max_attempts may be, 0: no limit
    NoId          \* no identity

ASSUME BoundsAssumption == MaxSockets \in Nat \ {0} /\ Limits \subseteq Nat
ASSUME IdsAssumption == NoId \notin Ids

Sockets == 1 .. MaxSockets

VARIABLES
    should,      \* _should_reconnect
    conn,        \* AppState.connection_state
    ws,          \* _ws: the number of a socket, 0: None
    alive,       \* sockets whose transport is open
    made,        \* number of sockets opened so far
    session,     \* _session: "none", "open", or "closing"
    loop,        \* the _recv_loop task of each socket
    recvTask,    \* _recv_task: the socket of the task, 0: None
    retry,       \* the _reconnect_loop task, "none" also when it is done
    limit,       \* _reconnect_max_attempts, which never changes
    attempt,     \* its failed attempts
    connecting,  \* where a connect() call stands
    stopping,    \* where a disconnect() call stands
    identity,    \* AppState.room_id and peer_id
    last,        \* _last_room_id and _last_peer_id
    joinedAs     \* what the server heard last on a socket: JOIN of whom

vars == <<should, conn, ws, alive, made, session, loop, recvTask, retry, limit,
          attempt, connecting, stopping, identity, last, joinedAs>>

States == {"DISCONNECTED", "CONNECTING", "CONNECTED", "RECONNECTING", "ERROR"}

TypeOK ==
    /\ should \in BOOLEAN
    /\ conn \in States
    /\ made \in 0 .. MaxSockets
    /\ ws \in 0 .. made
    /\ alive \in SUBSET (1 .. made)
    /\ session \in {"none", "open", "closing"}
    /\ loop \in [Sockets -> {"off", "running", "cancelled", "ended"}]
    /\ recvTask \in 0 .. made
    /\ retry \in {"none", "scheduled", "sleeping", "connecting", "closing"}
    /\ limit \in Limits
    /\ attempt \in Nat
    /\ connecting \in {"no", "yes", "closing"}
    /\ stopping \in {"no", "cancelling", "waiting", "closing"}
    /\ identity \in Ids \cup {NoId}
    /\ last \in Ids \cup {NoId}
    /\ joinedAs \in [Sockets -> Ids \cup {NoId}]

Init ==
    /\ should = FALSE
    /\ conn = "DISCONNECTED"
    /\ ws = 0
    /\ alive = {}
    /\ made = 0
    /\ session = "none"
    /\ loop = [n \in Sockets |-> "off"]
    /\ recvTask = 0
    /\ retry = "none"
    /\ limit \in Limits
    /\ attempt = 0
    /\ connecting = "no"
    /\ stopping = "no"
    /\ identity = NoId
    /\ last = NoId
    /\ joinedAs = [n \in Sockets |-> NoId]

-----------------------------------------------------------------------------
(* _connect_once, which connect() and the reconnect loop share. *)

\* Up to ws_connect.  The session of an earlier socket is replaced.
StartAttempt ==
    /\ conn' = "CONNECTING"
    /\ session' = "open"

\* ws_connect returned: a new socket and its receive loop.  The transport may
\* be gone by the time the caller runs again, and is if the session was closed.
Opened(up) ==
    /\ made < MaxSockets
    /\ up => session = "open"
    /\ ~up => made + 1 < MaxSockets
    /\ made' = made + 1
    /\ ws' = made + 1
    /\ alive' = IF up THEN alive \cup {made + 1} ELSE alive
    /\ conn' = "CONNECTED"
    /\ loop' = [loop EXCEPT ![made + 1] = "running"]
    /\ recvTask' = made + 1

-----------------------------------------------------------------------------
(* A caller. *)

\* connect(), of a client that is not connected and not about to be.
Connect ==
    /\ connecting = "no"
    /\ stopping = "no"
    /\ retry = "none"
    /\ conn \in {"DISCONNECTED", "ERROR"}
    /\ ws = 0
    /\ made < MaxSockets
    /\ should' = TRUE
    /\ StartAttempt
    /\ connecting' = "yes"
    /\ UNCHANGED <<ws, alive, made, loop, recvTask, retry, limit, attempt,
                   stopping, identity, last, joinedAs>>

ConnectSucceeds ==
    /\ connecting = "yes"
    /\ \E up \in BOOLEAN : Opened(up)
    /\ connecting' = "no"
    /\ UNCHANGED <<should, session, retry, limit, attempt, stopping, identity,
                   last, joinedAs>>

\* The first attempt fails: the session is closed, which suspends, ...
ConnectFails ==
    /\ connecting = "yes"
    /\ connecting' = "closing"
    /\ UNCHANGED <<should, conn, ws, alive, made, session, loop, recvTask,
                   retry, limit, attempt, stopping, identity, last, joinedAs>>

\* ... and connect() raises.
ConnectRaises ==
    /\ connecting = "closing"
    /\ session' = "none"
    /\ conn' = "ERROR"
    /\ connecting' = "no"
    /\ UNCHANGED <<should, ws, alive, made, loop, recvTask, retry, limit,
                   attempt, stopping, identity, last, joinedAs>>

\* join(), of a caller that has not disconnected since.  A frame on a socket
\* that is dead without the client's knowledge is lost.
Join(id) ==
    /\ should
    /\ ws # 0
    /\ stopping = "no"
    /\ identity' = id
    /\ last' = id
    /\ joinedAs' = IF ws \in alive THEN [joinedAs EXCEPT ![ws] = id]
                   ELSE joinedAs
    /\ UNCHANGED <<should, conn, ws, alive, made, session, loop, recvTask,
                   retry, limit, attempt, connecting, stopping>>

\* The session is closed, and with it whatever socket it still has.
CloseSockets ==
    /\ recvTask' = 0
    /\ ws' = 0
    /\ alive' = {}
    /\ session' = IF session = "open" THEN "closing" ELSE session
    /\ stopping' = "closing"

\* disconnect() once there is no reconnect loop: LEAVE of the identity in
\* AppState, and the end of the receive loop, which has to be waited for.
StopReceiving ==
    /\ joinedAs' = IF identity # NoId /\ ws \in alive
                   THEN [joinedAs EXCEPT ![ws] = NoId] ELSE joinedAs
    /\ IF recvTask # 0 /\ loop[recvTask] = "running"
       THEN /\ loop' = [loop EXCEPT ![recvTask] = "cancelled"]
            /\ stopping' = "waiting"
            /\ UNCHANGED <<recvTask, ws, alive, session>>
       ELSE CloseSockets /\ UNCHANGED loop

\* Mutant of Disconnect: the reconnect loop is not cancelled.
DisconnectKeepsRetrying ==
    /\ stopping = "no"
    /\ should
    /\ should' = FALSE
    /\ StopReceiving
    /\ UNCHANGED <<conn, made, retry, limit, attempt, connecting, identity,
                   last>>

\* disconnect() of a client that is, or may come to be, connected.  The
\* reconnect loop is cancelled wherever it waits, and waited for.
Disconnect ==
    /\ stopping = "no"
    /\ should
    /\ should' = FALSE
    /\ retry' = "none"
    /\ IF retry # "none"
       THEN /\ stopping' = "cancelling"
            /\ UNCHANGED <<joinedAs, loop, recvTask, ws, alive, session>>
       ELSE StopReceiving
    /\ UNCHANGED <<conn, made, limit, attempt, connecting, identity, last>>

RetryCancelled ==
    /\ stopping = "cancelling"
    /\ StopReceiving
    /\ UNCHANGED <<should, conn, made, retry, limit, attempt, connecting,
                   identity, last>>

LoopCancelled ==
    /\ stopping = "waiting"
    /\ loop[recvTask] = "ended"
    /\ CloseSockets
    /\ UNCHANGED <<should, conn, made, loop, retry, limit, attempt, connecting,
                   identity, last, joinedAs>>

Disconnected ==
    /\ stopping = "closing"
    /\ session' = "none"
    /\ conn' = "DISCONNECTED"
    /\ last' = NoId
    /\ stopping' = "no"
    /\ UNCHANGED <<should, ws, alive, made, loop, recvTask, retry, limit,
                   attempt, connecting, identity, joinedAs>>

-----------------------------------------------------------------------------
(* The receive loop. *)

\* The network or the server drops a connection.  The last socket of the bound
\* is good and stays, so that there is one to come back to.
Drop(n) ==
    /\ n \in alive
    /\ n < MaxSockets
    /\ alive' = alive \ {n}
    /\ UNCHANGED <<should, conn, ws, made, session, loop, recvTask, retry,
                   limit, attempt, connecting, stopping, identity, last,
                   joinedAs>>

\* The finally of _recv_loop, with _schedule_reconnect.
Finally(n) ==
    /\ loop' = [loop EXCEPT ![n] = "ended"]
    /\ ws' = 0
    /\ IF should
       THEN /\ retry' = IF retry = "none" THEN "scheduled" ELSE retry
            /\ UNCHANGED conn
       ELSE /\ conn' = IF conn # "ERROR" THEN "DISCONNECTED" ELSE conn
            /\ UNCHANGED retry

LoopEnds(n) ==
    /\ \/ loop[n] = "running" /\ n \notin alive
       \/ loop[n] = "cancelled"
    /\ Finally(n)
    /\ UNCHANGED <<should, alive, made, session, recvTask, limit, attempt,
                   connecting, stopping, identity, last, joinedAs>>

-----------------------------------------------------------------------------
(* The reconnect loop.  It is cancelled before _should_reconnect is looked   *)
(* at again, so only its first step and the end of a sleep can see it off.   *)

RetryStarts ==
    /\ retry = "scheduled"
    /\ attempt' = 0
    /\ conn' = "RECONNECTING"
    /\ retry' = "sleeping"
    /\ UNCHANGED <<should, ws, alive, made, session, loop, recvTask, limit,
                   connecting, stopping, identity, last, joinedAs>>

RetryConnects ==
    /\ retry = "sleeping"
    /\ IF should
       THEN StartAttempt /\ retry' = "connecting"
       ELSE retry' = "none" /\ UNCHANGED <<conn, session>>
    /\ UNCHANGED <<should, ws, alive, made, loop, recvTask, limit, attempt,
                   connecting, stopping, identity, last, joinedAs>>

\* Mutant of RetrySucceeds: no JOIN on the new socket.
RetrySucceedsUnjoined ==
    /\ retry = "connecting"
    /\ \E up \in BOOLEAN : Opened(up)
    /\ retry' = "none"
    /\ UNCHANGED <<should, session, limit, attempt, connecting, stopping,
                   identity, last, joinedAs>>

\* Back: the last JOIN is sent again, before the new receive loop starts.  If
\* the transport is gone the JOIN fails, which is only logged.
RetrySucceeds ==
    /\ retry = "connecting"
    /\ \E up \in BOOLEAN :
          /\ Opened(up)
          /\ IF last # NoId /\ up
             THEN /\ joinedAs' = [joinedAs EXCEPT ![ws'] = last]
                  /\ identity' = last
             ELSE UNCHANGED <<joinedAs, identity>>
    /\ retry' = "none"
    /\ UNCHANGED <<should, session, limit, attempt, connecting, stopping,
                   last>>

RetryFails ==
    /\ retry = "connecting"
    /\ retry' = "closing"
    /\ UNCHANGED <<should, conn, ws, alive, made, session, loop, recvTask,
                   limit, attempt, connecting, stopping, identity, last,
                   joinedAs>>

\* Mutant of RetryAgain: the loop gives up after the first failure.
RetryOnce ==
    /\ retry = "closing"
    /\ session' = "none"
    /\ conn' = "ERROR"
    /\ retry' = "none"
    /\ UNCHANGED <<should, ws, alive, made, loop, recvTask, limit, attempt,
                   connecting, stopping, identity, last, joinedAs>>

\* The session of the failed attempt is closed.  With a limit on the attempts
\* the loop may give up.
RetryAgain ==
    /\ retry = "closing"
    /\ session' = "none"
    /\ attempt' = IF limit = 0 THEN attempt ELSE attempt + 1
    /\ IF limit # 0 /\ attempt' >= limit
       THEN conn' = "ERROR" /\ retry' = "none"
       ELSE conn' = "RECONNECTING" /\ retry' = "sleeping"
    /\ UNCHANGED <<should, ws, alive, made, loop, recvTask, limit, connecting,
                   stopping, identity, last, joinedAs>>

-----------------------------------------------------------------------------
Caller ==
    \/ ConnectSucceeds
    \/ ConnectRaises
    \/ RetryCancelled
    \/ LoopCancelled
    \/ Disconnected

\* An attempt that gets through to a transport that is still there.
BackOnline == RetrySucceeds /\ alive' # alive

Retry == RetryStarts \/ RetryConnects \/ RetryAgain

Next ==
    \/ Connect
    \/ ConnectFails
    \/ \E id \in Ids : Join(id)
    \/ Disconnect
    \/ Caller
    \/ \E n \in Sockets : Drop(n) \/ LoopEnds(n)
    \/ Retry
    \/ RetrySucceeds
    \/ RetryFails

Spec == Init /\ [][Next]_vars

\* Tasks that can go on do.  The network is not dead for ever: a client that
\* tries again and again gets through at some time, with a transport that is
\* still there when it looks.
ClientFairness ==
    /\ WF_vars(Caller)
    /\ WF_vars(Retry)
    /\ \A n \in Sockets : WF_vars(LoopEnds(n))
    /\ SF_vars(BackOnline)

FairSpec == Spec /\ ClientFairness
-----------------------------------------------------------------------------
(* Properties. *)

Listening == ws # 0 /\ loop[ws] = "running"
Settled == connecting = "no" /\ stopping = "no"

\* A client that is meant to be connected listens on its socket or is about to
\* reconnect; it gives up only in state ERROR.  The receive loop schedules the
\* reconnect loop, whose own success starts the next receive loop.
StaysOrRetries ==
    (should /\ connecting = "no" /\ conn # "ERROR") => Listening \/ retry # "none"

\* There is never a connection beside the one that _ws names, but for the one
\* that disconnect() is about to close: no second receive loop handles frames
\* of an earlier socket.
OneSocket ==
    /\ \A n \in alive : n = ws \/ (stopping = "waiting" /\ n = recvTask)
    /\ \A n, k \in Sockets :
          loop[n] = "running" /\ loop[k] = "running" => n = k

\* After disconnect() nothing is left that could bring the connection back,
\* also when connect() was under way at the time.
DisconnectIsFinal ==
    (~should /\ Settled) =>
        /\ alive = {}
        /\ retry = "none"
        /\ conn \in {"DISCONNECTED", "ERROR", "CONNECTED"}
        /\ conn = "CONNECTED" => Listening

\* On a connection that works the server has heard the JOIN the client goes by,
\* also on every socket the reconnect loop opens.  (With a limit on the attempts
\* the loop may give up, and it is the caller's to connect and join again.)
ServerKnowsMe ==
    (conn = "CONNECTED" /\ stopping = "no" /\ ws \in alive /\ limit = 0)
        => joinedAs[ws] = last

\* Without a limit a lost connection is replaced, and the client is back in its
\* room, unless somebody disconnects it.
ComesBack ==
    limit = 0 /\ should /\ last # NoId /\ ws # 0 /\ ws \notin alive
        ~> ~should \/ (ws \in alive /\ joinedAs[ws] = last)

=============================================================================

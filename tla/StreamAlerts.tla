---------------------------- MODULE StreamAlerts ----------------------------
(***************************************************************************)
(* Chats of streaming platforms that end as alerts in OBS.  Each chat is   *)
(* read by a loop of its own, which waits for the alert of a message before *)
(* it reads the next; the loops share one client of OBS, whose requests     *)
(* each send one message on the socket and take the next one that comes.   *)
(* The callback of a chat client is taken to be the dispatcher's.          *)
(***************************************************************************)
EXTENDS Naturals, Sequences, FiniteSets

CONSTANTS StreamPlatforms,
          MaxSockets,   \* connections to OBS ever opened (bound)
          MaxRequests,  \* requests ever sent to it (bound)
          MaxEvents     \* events OBS sends without being asked (bound)

ASSUME AlertsAssumption == {MaxSockets, MaxRequests, MaxEvents} \subseteq Nat

VARIABLES
    chat,       \* the client of each platform: off, joining, on
    chatted,    \* messages each platform holds for its loop
    ws,         \* _ws, the number of a socket or none
    isConnected, \* _connected
    sockets,    \* [state, inbox, requests]: what is under way each way
    connecting, \* connect(): the message it waits for
    alert,      \* _send_request of each loop: the socket and the id it waits for
    requested,  \* requests sent so far
    events,     \* events sent so far
    done,       \* the requests OBS carried out (ghost)
    reported        \* the requests reported as carried out (ghost)

alertVars == <<chat, chatted, ws, isConnected, sockets, connecting, alert, requested, events, done, reported>>
chatVars == <<chat, chatted>>
obsVars == <<ws, isConnected, sockets, connecting, alert, requested, events, done, reported>>

NoSocket == 0
Quiet == [sock |-> NoSocket, id |-> 0]
Message(op, id, ok) == [op |-> op, id |-> id, ok |-> ok]
Inbox(n) == sockets[n].inbox
Receiving(n) == connecting = n \/ \E p \in StreamPlatforms : alert[p].sock = n
Answers(s, n, m) == [s EXCEPT ![n].inbox = Append(@, m)]
Closed(s, n) == IF n = NoSocket THEN s ELSE [s EXCEPT ![n].state = "closed"]

-----------------------------------------------------------------------------
(* The chat clients.                                                       *)

\* connect(): dial, then the packets of the platform.
JoinChat(p) ==
    /\ chat[p] = "off"
    /\ chat' = [chat EXCEPT ![p] = "joining"]
    /\ UNCHANGED <<chatted, obsVars>>

\* The greeting of the platform is there: the chat is subscribed to.
Greeted(p) == chat' = [chat EXCEPT ![p] = "on"]

\* The acknowledgement came, or anything else did.
JoinedChat(p) ==
    /\ chat[p] = "joining"
    /\ Greeted(p) \/ chat' = [chat EXCEPT ![p] = "off"]
    /\ UNCHANGED <<chatted, obsVars>>

\* receive_loop is back from its callback, or gone.
LoopReads(p) == chatted' = [chatted EXCEPT ![p] = 0]

Chatter(p) ==
    /\ chat[p] = "on" /\ chatted[p] = 0
    /\ chatted' = [chatted EXCEPT ![p] = 1]
    /\ UNCHANGED <<chat, obsVars>>

\* disconnect, or the platform closes: the loop ends when it reads again.
EndChat(p) ==
    /\ chat[p] = "on" /\ alert[p] = Quiet
    /\ chat' = [chat EXCEPT ![p] = "off"] /\ LoopReads(p)
    /\ UNCHANGED obsVars

-----------------------------------------------------------------------------
(* The connection to OBS.                                                  *)

\* connect(): a new socket takes the place of the old one, which stays open.
Dial ==
    /\ connecting = NoSocket /\ Len(sockets) < MaxSockets
    /\ sockets' = Append(sockets, [state |-> "greeting",
                                   inbox |-> <<Message("hello", 0, TRUE)>>, requests |-> <<>>])
    /\ ws' = Len(sockets') /\ connecting' = ws'
    /\ UNCHANGED <<isConnected, alert, requested, events, done, reported, chatVars>>

\* A dial that fails leaves _connected as it was.
DialFails ==
    /\ connecting = NoSocket
    /\ ws' = NoSocket
    /\ UNCHANGED <<isConnected, sockets, connecting, alert, requested, events, done, reported, chatVars>>

\* _safe_close, of the socket the client holds by then
SafeClose ==
    /\ sockets' = Closed(sockets, ws)
    /\ ws' = NoSocket /\ isConnected' = FALSE /\ connecting' = NoSocket

\* Hello, which Identify answers; then Identified.
Handshake ==
    /\ connecting # NoSocket /\ Inbox(connecting) # <<>>
    /\ LET m == Head(Inbox(connecting))
           rest == [sockets EXCEPT ![connecting].inbox = Tail(@)]
       IN  \/ /\ ws # connecting \/ m.op \notin {"hello", "identified"}
              /\ SafeClose
           \/ /\ ws = connecting /\ m.op = "hello"
              /\ sockets' = [rest EXCEPT ![ws].requests = Append(@, 0)]
              /\ UNCHANGED <<ws, isConnected, connecting>>
           \/ /\ ws = connecting /\ m.op = "identified"
              /\ sockets' = rest
              /\ isConnected' = TRUE /\ connecting' = NoSocket
              /\ UNCHANGED ws
    /\ UNCHANGED <<alert, requested, events, done, reported, chatVars>>

\* Five seconds without a message, or a socket that was closed.
HandshakeFails ==
    /\ connecting # NoSocket
    /\ SafeClose
    /\ UNCHANGED <<alert, requested, events, done, reported, chatVars>>

Disconnect ==
    /\ ws # NoSocket
    /\ sockets' = Closed(sockets, ws)
    /\ ws' = NoSocket /\ isConnected' = FALSE
    /\ UNCHANGED <<connecting, alert, requested, events, done, reported, chatVars>>

-----------------------------------------------------------------------------
(* OBS.                                                                    *)

\* A request on a socket not yet identified closes it; 0 stands for Identify.
ServeObs(n, ok) ==
    /\ sockets[n].state # "closed" /\ sockets[n].requests # <<>>
    /\ LET id == Head(sockets[n].requests)
           rest == [sockets EXCEPT ![n].requests = Tail(@)]
       IN  IF id = 0
           THEN /\ sockets' = IF ok THEN [Answers(rest, n, Message("identified", 0, TRUE))
                                            EXCEPT ![n].state = "identified"]
                              ELSE Closed(rest, n)
                /\ UNCHANGED done
           ELSE IF sockets[n].state = "greeting"
           THEN sockets' = Closed(rest, n) /\ UNCHANGED done
           ELSE /\ sockets' = Answers(rest, n, Message("response", id, ok))
                /\ done' = IF ok THEN done \cup {id} ELSE done
    /\ UNCHANGED <<ws, isConnected, connecting, alert, requested, events, reported, chatVars>>

Announce(n) ==
    /\ sockets[n].state = "identified" /\ events < MaxEvents
    /\ sockets' = Answers(sockets, n, Message("event", 0, TRUE))
    /\ events' = events + 1
    /\ UNCHANGED <<ws, isConnected, connecting, alert, requested, done, reported, chatVars>>

Drop(n) ==
    /\ sockets[n].state # "closed"
    /\ sockets' = Closed(sockets, n)
    /\ UNCHANGED <<ws, isConnected, connecting, alert, requested, events, done, reported, chatVars>>

-----------------------------------------------------------------------------
(* _send_request, for the alert of a message.                              *)

\* dispatch: the loop of the platform waits for the alert of its message.
Dispatch(p) == chatted[p] = 1 /\ alert[p] = Quiet

\* Only one coroutine may read a socket: a second one fails, its request sent.
SendAlert(p) ==
    /\ Dispatch(p)
    /\ IF ~isConnected \/ ws = NoSocket \/ sockets[ws].state = "closed"
       THEN /\ LoopReads(p)
            /\ UNCHANGED <<sockets, alert, requested>>
       ELSE /\ requested < MaxRequests /\ requested' = requested + 1
            /\ sockets' = [sockets EXCEPT ![ws].requests = Append(@, requested')]
            /\ IF Receiving(ws)
               THEN LoopReads(p) /\ UNCHANGED alert
               ELSE alert' = [alert EXCEPT ![p] = [sock |-> ws, id |-> requested']] /\ UNCHANGED chatted
    /\ UNCHANGED <<chat, ws, isConnected, connecting, events, done, reported>>

\* Mutant of IsSuccess: the id is not compared.
AnySuccess(m, id) == m.op = "response" /\ m.ok

\* The answer to a request: the op, the id and the status are compared.
IsSuccess(m, id) == m.op = "response" /\ m.id = id /\ m.ok

EndAlert(p) == alert' = [alert EXCEPT ![p] = Quiet] /\ LoopReads(p)

TakeAnswer(p) ==
    /\ alert[p] # Quiet /\ Inbox(alert[p].sock) # <<>>
    /\ LET n == alert[p].sock
       IN  /\ reported' = IF IsSuccess(Head(Inbox(n)), alert[p].id) THEN reported \cup {alert[p].id} ELSE reported
           /\ sockets' = [sockets EXCEPT ![n].inbox = Tail(@)]
    /\ EndAlert(p)
    /\ UNCHANGED <<chat, ws, isConnected, connecting, requested, events, done>>

\* The timeout, or the socket is closed: what comes later is left on it.
GiveUp(p) ==
    /\ alert[p] # Quiet
    /\ EndAlert(p)
    /\ UNCHANGED <<chat, ws, isConnected, sockets, connecting, requested, events, done, reported>>

AlertsInit ==
    /\ chat = [p \in StreamPlatforms |-> "off"] /\ chatted = [p \in StreamPlatforms |-> 0]
    /\ ws = NoSocket /\ isConnected = FALSE /\ sockets = <<>> /\ connecting = NoSocket
    /\ alert = [p \in StreamPlatforms |-> Quiet]
    /\ requested = 0 /\ events = 0 /\ done = {} /\ reported = {}

AlertsNext ==
    \/ \E p \in StreamPlatforms :
          \/ JoinChat(p) \/ JoinedChat(p) \/ Chatter(p) \/ EndChat(p)
          \/ SendAlert(p) \/ TakeAnswer(p) \/ GiveUp(p)
    \/ Dial \/ DialFails \/ Handshake \/ HandshakeFails \/ Disconnect
    \/ \E n \in DOMAIN sockets :
          Announce(n) \/ Drop(n) \/ \E ok \in BOOLEAN : ServeObs(n, ok)

AlertsSpec == AlertsInit /\ [][AlertsNext]_alertVars

-----------------------------------------------------------------------------
(* Properties.                                                             *)

(* Type invariant.  A loop that waits for an answer holds a message, and   *)
(* nobody has carried out what was not sent.                               *)
AlertsTypeOK ==
    /\ ws \in {NoSocket} \cup DOMAIN sockets /\ connecting \in {NoSocket} \cup DOMAIN sockets
    /\ \A p \in StreamPlatforms :
         /\ chat[p] \in {"off", "joining", "on"} /\ alert[p].sock \in {NoSocket} \cup DOMAIN sockets
         /\ alert[p] # Quiet => chatted[p] = 1
    /\ done \subseteq 1..requested /\ requested \in 0..MaxRequests /\ events \in 0..MaxEvents

(* An alert reported as shown was shown: late answers, events and answers  *)
(* to a request that was given up are never taken for one's own.  (The     *)
(* reverse does not hold: after one late answer every request of the       *)
(* connection finds the answer to the one before it.)                      *)
SuccessWasDone == reported \subseteq done

=============================================================================

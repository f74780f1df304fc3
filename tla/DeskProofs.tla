------------------------------ MODULE DeskProofs ------------------------------
(***************************************************************************)
(* Proofs about the parts of the desktop that MC_Desk runs side by side,   *)
(* each for its own specification and for any values of its constants.     *)
(***************************************************************************)
EXTENDS MC_Desk, ListProofs, TLAPS

-----------------------------------------------------------------------------
(***************************************************************************)
(* SignalingClient, for any identities, any number of sockets and any      *)
(* limit on the attempts.                                                  *)
(*                                                                         *)
(* The inductive invariant has four parts.  Handles: the receive loop of a *)
(* socket and the handles _recv_task and _ws belong together, and nothing  *)
(* but that socket is open.  Phases: connect(), disconnect() and the       *)
(* reconnect loop exclude one another as far as they do.  AllClosed: after *)
(* disconnect() there is neither a connection nor a session to open one    *)
(* with.  Keeping: what the properties say of a client that goes on.       *)
(***************************************************************************)

Handles ==
    /\ \A n \in Sockets : loop[n] \in {"running", "cancelled"} =>
          n = recvTask /\ n = ws
    /\ \A n \in Sockets : loop[n] = "cancelled" => stopping = "waiting"
    /\ \A n \in Sockets : n > made => loop[n] = "off"
    /\ ws # 0 => loop[ws] \in {"running", "cancelled"}
    /\ \A n \in alive : n = ws \/ (stopping = "waiting" /\ n = recvTask)
    /\ stopping = "waiting" => recvTask # 0 /\ loop[recvTask] # "running"

Phases ==
    /\ connecting # "no" =>
          retry = "none" /\ ws = 0 /\ stopping \in {"no", "closing"}
    /\ retry # "none" => should /\ connecting = "no" /\ ws = 0
    /\ stopping # "no" => ~should
    /\ stopping = "cancelling" => ws = 0

AllClosed ==
    /\ ~should /\ stopping \in {"no", "closing"} =>
          alive = {} /\ session # "open"
    /\ ~should /\ stopping = "no" =>
          /\ conn \in {"DISCONNECTED", "ERROR", "CONNECTED"}
          /\ conn = "CONNECTED" => Listening

Keeping ==
    /\ StaysOrRetries
    /\ ServerKnowsMe
    /\ ws # 0 /\ should => conn = "CONNECTED"
    /\ limit = 0 /\ last # NoId =>
          stopping # "no" \/ (should /\ connecting = "no" /\ conn # "ERROR")
    /\ \A n \in Sockets : n > made => joinedAs[n] = NoId

IInv == TypeOK /\ Handles /\ Phases /\ AllClosed /\ Keeping

-----------------------------------------------------------------------------
\* Every step keeps the types.
LEMMA TypeStep ==
    ASSUME IInv, [Next]_vars
    PROVE  TypeOK'
<1>1. CASE Connect
  BY <1>1 DEF Connect, StartAttempt, IInv, TypeOK, States
<1>2. CASE ConnectFails
  BY <1>2 DEF ConnectFails, IInv, TypeOK
<1>3. CASE \E id \in Ids : Join(id)
  BY <1>3 DEF Join, IInv, TypeOK
<1>4. CASE Disconnect
  <2>1. CASE retry # "none"
    BY <1>4, <2>1 DEF Disconnect, IInv, TypeOK
  <2>2. CASE retry = "none" /\ recvTask # 0 /\ loop[recvTask] = "running"
    BY <1>4, <2>2 DEF Disconnect, StopReceiving, IInv, TypeOK
  <2>3. CASE retry = "none" /\ ~(recvTask # 0 /\ loop[recvTask] = "running")
    <3>1. CloseSockets /\ UNCHANGED <<loop, conn, made, limit, attempt,
              connecting, identity, last>> /\ should' = FALSE /\ retry' = "none"
      BY <1>4, <2>3 DEF Disconnect, StopReceiving
    <3>2. joinedAs' \in [Sockets -> Ids \cup {NoId}]
      BY <1>4, <2>3 DEF Disconnect, StopReceiving, IInv, TypeOK
    <3>3. ws' \in 0 .. made' /\ recvTask' \in 0 .. made'
          /\ alive' \in SUBSET (1 .. made')
      BY <3>1 DEF CloseSockets, IInv, TypeOK
    <3>4. session' \in {"none", "open", "closing"} /\ stopping' = "closing"
      BY <3>1 DEF CloseSockets, IInv, TypeOK
    <3>5. QED
      BY <3>1, <3>2, <3>3, <3>4 DEF IInv, TypeOK
  <2>4. QED
    BY <2>1, <2>2, <2>3
<1>5. CASE ConnectSucceeds
  BY <1>5, BoundsAssumption
     DEF ConnectSucceeds, Opened, IInv, TypeOK, States, Sockets
<1>6. CASE ConnectRaises
  BY <1>6 DEF ConnectRaises, IInv, TypeOK, States
<1>7. CASE RetryCancelled
  BY <1>7 DEF RetryCancelled, StopReceiving, CloseSockets, IInv, TypeOK, Phases
<1>8. CASE LoopCancelled
  BY <1>8 DEF LoopCancelled, CloseSockets, IInv, TypeOK
<1>9. CASE Disconnected
  BY <1>9 DEF Disconnected, IInv, TypeOK, States
<1>10. CASE \E n \in Sockets : Drop(n)
  BY <1>10 DEF Drop, IInv, TypeOK
<1>11. CASE \E n \in Sockets : LoopEnds(n)
  BY <1>11 DEF LoopEnds, Finally, IInv, TypeOK, States
<1>12. CASE RetryStarts
  BY <1>12 DEF RetryStarts, IInv, TypeOK, States
<1>13. CASE RetryConnects
  BY <1>13 DEF RetryConnects, StartAttempt, IInv, TypeOK, States
<1>14. CASE RetryAgain
  BY <1>14 DEF RetryAgain, IInv, TypeOK, States
<1>15. CASE RetrySucceeds
  BY <1>15, BoundsAssumption
     DEF RetrySucceeds, Opened, IInv, TypeOK, States, Sockets
<1>16. CASE RetryFails
  BY <1>16 DEF RetryFails, IInv, TypeOK
<1>17. CASE UNCHANGED vars
  BY <1>17 DEF vars, IInv, TypeOK
<1>18. QED
  BY <1>1, <1>2, <1>3, <1>4, <1>5, <1>6, <1>7, <1>8, <1>9, <1>10, <1>11, <1>12,
     <1>13, <1>14, <1>15, <1>16, <1>17
     DEF Next, Caller, Retry

\* Every step keeps the handles together.
LEMMA HandlesStep ==
    ASSUME IInv, [Next]_vars
    PROVE  Handles'
<1>1. CASE Connect
  BY <1>1 DEF Connect, StartAttempt, IInv, TypeOK, Handles
<1>2. CASE ConnectFails
  BY <1>2 DEF ConnectFails, IInv, TypeOK, Handles
<1>3. CASE \E id \in Ids : Join(id)
  BY <1>3 DEF Join, IInv, TypeOK, Handles
<1>4. CASE Disconnect
  <2>1. CASE retry # "none"
    BY <1>4, <2>1 DEF Disconnect, IInv, TypeOK, Handles
  <2>2. CASE retry = "none" /\ recvTask # 0 /\ loop[recvTask] = "running"
    <3>1. /\ loop' = [loop EXCEPT ![recvTask] = "cancelled"]
          /\ stopping' = "waiting"
          /\ UNCHANGED <<recvTask, ws, alive, made>>
      BY <1>4, <2>2 DEF Disconnect, StopReceiving
    <3>2. recvTask \in Sockets /\ recvTask = ws /\ recvTask <= made /\ stopping = "no"
      <4>1. recvTask \in Sockets /\ recvTask <= made
        BY <2>2, BoundsAssumption DEF IInv, TypeOK, Sockets
      <4>2. recvTask = ws
        BY <4>1, <2>2 DEF IInv, Handles
      <4>3. QED
        BY <1>4, <4>1, <4>2 DEF Disconnect
    <3>3. \A n \in Sockets : loop'[n] = IF n = recvTask THEN "cancelled" ELSE loop[n]
      BY <3>1, <3>2 DEF IInv, TypeOK
    <3>4. QED
      BY <3>1, <3>2, <3>3 DEF IInv, TypeOK, Sockets, Handles
  <2>3. CASE retry = "none" /\ ~(recvTask # 0 /\ loop[recvTask] = "running")
    BY <1>4, <2>3
       DEF Disconnect, StopReceiving, CloseSockets, IInv, TypeOK, Handles
  <2>4. QED
    BY <2>1, <2>2, <2>3
<1>5. CASE ConnectSucceeds
  BY <1>5, BoundsAssumption
     DEF ConnectSucceeds, Opened, IInv, TypeOK, Sockets, Phases, Handles
<1>6. CASE ConnectRaises
  BY <1>6 DEF ConnectRaises, IInv, TypeOK, Handles
<1>7. CASE RetryCancelled
  BY <1>7, BoundsAssumption
     DEF RetryCancelled, StopReceiving, CloseSockets, IInv, TypeOK,
         Sockets, Phases, Handles
<1>8. CASE LoopCancelled
  BY <1>8 DEF LoopCancelled, CloseSockets, IInv, TypeOK, Handles
<1>9. CASE Disconnected
  BY <1>9 DEF Disconnected, IInv, TypeOK, Handles
<1>10. CASE \E n \in Sockets : Drop(n)
  BY <1>10 DEF Drop, IInv, TypeOK, Handles
<1>11. CASE \E n \in Sockets : LoopEnds(n)
  BY <1>11 DEF LoopEnds, Finally, IInv, TypeOK, Handles
<1>12. CASE RetryStarts
  BY <1>12 DEF RetryStarts, IInv, TypeOK, Handles
<1>13. CASE RetryConnects
  BY <1>13 DEF RetryConnects, StartAttempt, IInv, TypeOK, Handles
<1>14. CASE RetryAgain
  BY <1>14 DEF RetryAgain, IInv, TypeOK, Handles
<1>15. CASE RetrySucceeds
  BY <1>15, BoundsAssumption
     DEF RetrySucceeds, Opened, IInv, TypeOK, Sockets, Phases, Handles
<1>16. CASE RetryFails
  BY <1>16 DEF RetryFails, IInv, TypeOK, Handles
<1>17. CASE UNCHANGED vars
  BY <1>17 DEF vars, IInv, TypeOK, Handles
<1>18. QED
  BY <1>1, <1>2, <1>3, <1>4, <1>5, <1>6, <1>7, <1>8, <1>9, <1>10, <1>11, <1>12,
     <1>13, <1>14, <1>15, <1>16, <1>17
     DEF Next, Caller, Retry

\* Every step keeps the phases apart.
LEMMA PhasesStep ==
    ASSUME IInv, [Next]_vars
    PROVE  Phases'
<1>1. CASE Connect
  BY <1>1 DEF Connect, StartAttempt, IInv, TypeOK, Phases
<1>2. CASE ConnectFails
  BY <1>2 DEF ConnectFails, IInv, TypeOK, Phases
<1>3. CASE \E id \in Ids : Join(id)
  BY <1>3 DEF Join, IInv, TypeOK, Phases
<1>4. CASE Disconnect
  BY <1>4, BoundsAssumption
     DEF Disconnect, StopReceiving, CloseSockets, IInv, TypeOK, Sockets,
         Phases, Handles
<1>5. CASE ConnectSucceeds
  BY <1>5 DEF ConnectSucceeds, Opened, IInv, TypeOK, Phases
<1>6. CASE ConnectRaises
  BY <1>6 DEF ConnectRaises, IInv, TypeOK, Phases
<1>7. CASE RetryCancelled
  BY <1>7 DEF RetryCancelled, StopReceiving, CloseSockets, IInv, TypeOK, Phases
<1>8. CASE LoopCancelled
  BY <1>8 DEF LoopCancelled, CloseSockets, IInv, TypeOK, Phases
<1>9. CASE Disconnected
  BY <1>9 DEF Disconnected, IInv, TypeOK, Phases
<1>10. CASE \E n \in Sockets : Drop(n)
  BY <1>10 DEF Drop, IInv, TypeOK, Phases
<1>11. CASE \E n \in Sockets : LoopEnds(n)
  BY <1>11 DEF LoopEnds, Finally, IInv, TypeOK, Sockets, Phases, Handles
<1>12. CASE RetryStarts
  BY <1>12 DEF RetryStarts, IInv, TypeOK, Phases
<1>13. CASE RetryConnects
  BY <1>13 DEF RetryConnects, StartAttempt, IInv, TypeOK, Phases
<1>14. CASE RetryAgain
  BY <1>14 DEF RetryAgain, IInv, TypeOK, Phases
<1>15. CASE RetrySucceeds
  BY <1>15 DEF RetrySucceeds, Opened, IInv, TypeOK, Phases
<1>16. CASE RetryFails
  BY <1>16 DEF RetryFails, IInv, TypeOK, Phases
<1>17. CASE UNCHANGED vars
  BY <1>17 DEF vars, IInv, TypeOK, Phases
<1>18. QED
  BY <1>1, <1>2, <1>3, <1>4, <1>5, <1>6, <1>7, <1>8, <1>9, <1>10, <1>11, <1>12,
     <1>13, <1>14, <1>15, <1>16, <1>17
     DEF Next, Caller, Retry

\* Every step after disconnect() leaves nothing open.
LEMMA OverStep ==
    ASSUME IInv, [Next]_vars
    PROVE  AllClosed'
<1>1. CASE Connect
  BY <1>1 DEF Connect, StartAttempt, IInv, TypeOK, AllClosed
<1>2. CASE ConnectFails
  BY <1>2 DEF ConnectFails, IInv, TypeOK, AllClosed, Listening
<1>3. CASE \E id \in Ids : Join(id)
  BY <1>3 DEF Join, IInv, TypeOK, AllClosed
<1>4. CASE Disconnect
  BY <1>4 DEF Disconnect, StopReceiving, CloseSockets, IInv, TypeOK, AllClosed
<1>5. CASE ConnectSucceeds
  BY <1>5, BoundsAssumption
     DEF ConnectSucceeds, Opened, IInv, TypeOK, Sockets, AllClosed, Listening
<1>6. CASE ConnectRaises
  BY <1>6 DEF ConnectRaises, IInv, TypeOK, AllClosed
<1>7. CASE RetryCancelled
  BY <1>7 DEF RetryCancelled, StopReceiving, CloseSockets, IInv, TypeOK, AllClosed
<1>8. CASE LoopCancelled
  BY <1>8 DEF LoopCancelled, CloseSockets, IInv, TypeOK, AllClosed
<1>9. CASE Disconnected
  BY <1>9 DEF Disconnected, IInv, TypeOK, AllClosed
<1>10. CASE \E n \in Sockets : Drop(n)
  BY <1>10 DEF Drop, IInv, TypeOK, AllClosed
<1>11. CASE \E n \in Sockets : LoopEnds(n)
  BY <1>11 DEF LoopEnds, Finally, IInv, TypeOK, AllClosed
<1>12. CASE RetryStarts
  BY <1>12 DEF RetryStarts, IInv, TypeOK, Phases, AllClosed
<1>13. CASE RetryConnects
  BY <1>13 DEF RetryConnects, StartAttempt, IInv, TypeOK, Phases, AllClosed
<1>14. CASE RetryAgain
  BY <1>14 DEF RetryAgain, IInv, TypeOK, Phases, AllClosed
<1>15. CASE RetrySucceeds
  BY <1>15 DEF RetrySucceeds, Opened, IInv, TypeOK, Phases, AllClosed
<1>16. CASE RetryFails
  BY <1>16 DEF RetryFails, IInv, TypeOK, Phases, AllClosed
<1>17. CASE UNCHANGED vars
  BY <1>17 DEF vars, IInv, TypeOK, AllClosed, Listening
<1>18. QED
  BY <1>1, <1>2, <1>3, <1>4, <1>5, <1>6, <1>7, <1>8, <1>9, <1>10, <1>11, <1>12,
     <1>13, <1>14, <1>15, <1>16, <1>17
     DEF Next, Caller, Retry

\* Every step keeps the client connected or retrying.
LEMMA KeepingStep ==
    ASSUME IInv, [Next]_vars
    PROVE  Keeping'
<1>1. CASE Connect
  BY <1>1
     DEF Connect, StartAttempt, IInv, TypeOK, Keeping, StaysOrRetries,
         ServerKnowsMe, Listening
<1>2. CASE ConnectFails
  BY <1>2
     DEF ConnectFails, IInv, TypeOK, Keeping, StaysOrRetries, ServerKnowsMe
<1>3. CASE \E id \in Ids : Join(id)
  BY <1>3, BoundsAssumption
     DEF Join, IInv, TypeOK, Sockets, Phases, Keeping, StaysOrRetries,
         ServerKnowsMe, Listening
<1>4. CASE Disconnect
  BY <1>4
     DEF Disconnect, StopReceiving, CloseSockets, IInv, TypeOK, Keeping,
         StaysOrRetries, ServerKnowsMe
<1>5. CASE ConnectSucceeds
  BY <1>5, BoundsAssumption
     DEF ConnectSucceeds, Opened, IInv, TypeOK, Sockets, Keeping,
         StaysOrRetries, ServerKnowsMe, Listening
<1>6. CASE ConnectRaises
  BY <1>6
     DEF ConnectRaises, IInv, TypeOK, Phases, Keeping, StaysOrRetries,
         ServerKnowsMe
<1>7. CASE RetryCancelled
  BY <1>7
     DEF RetryCancelled, StopReceiving, CloseSockets, IInv, TypeOK, Phases,
         Keeping, StaysOrRetries, ServerKnowsMe
<1>8. CASE LoopCancelled
  BY <1>8
     DEF LoopCancelled, CloseSockets, IInv, TypeOK, Phases, Keeping,
         StaysOrRetries, ServerKnowsMe
<1>9. CASE Disconnected
  BY <1>9
     DEF Disconnected, IInv, TypeOK, Phases, Keeping, StaysOrRetries,
         ServerKnowsMe
<1>10. CASE \E n \in Sockets : Drop(n)
  BY <1>10
     DEF Drop, IInv, TypeOK, Keeping, StaysOrRetries, ServerKnowsMe,
         Listening
<1>11. CASE \E n \in Sockets : LoopEnds(n)
  BY <1>11
     DEF LoopEnds, Finally, IInv, TypeOK, Keeping, StaysOrRetries,
         ServerKnowsMe
<1>12. CASE RetryStarts
  BY <1>12
     DEF RetryStarts, IInv, TypeOK, Phases, Keeping, StaysOrRetries,
         ServerKnowsMe
<1>13. CASE RetryConnects
  BY <1>13
     DEF RetryConnects, StartAttempt, IInv, TypeOK, Phases, Keeping,
         StaysOrRetries, ServerKnowsMe
<1>14. CASE RetryAgain
  BY <1>14
     DEF RetryAgain, IInv, TypeOK, Phases, Keeping, StaysOrRetries,
         ServerKnowsMe
<1>15. CASE RetrySucceeds
  BY <1>15, BoundsAssumption
     DEF RetrySucceeds, Opened, IInv, TypeOK, Sockets, Keeping,
         StaysOrRetries, ServerKnowsMe, Listening
<1>16. CASE RetryFails
  BY <1>16 DEF RetryFails, IInv, TypeOK, Keeping, StaysOrRetries, ServerKnowsMe
<1>17. CASE UNCHANGED vars
  BY <1>17
     DEF vars, IInv, TypeOK, Keeping, StaysOrRetries, ServerKnowsMe,
         Listening
<1>18. QED
  BY <1>1, <1>2, <1>3, <1>4, <1>5, <1>6, <1>7, <1>8, <1>9, <1>10, <1>11, <1>12,
     <1>13, <1>14, <1>15, <1>16, <1>17
     DEF Next, Caller, Retry

-----------------------------------------------------------------------------
\* IInv is inductive: TypeOK, the handles, the phases and what follows from them
\* hold in every state of SignalingClient.
THEOREM Invariance == Spec => []IInv
<1>1. Init => IInv
  <2>1. Init => TypeOK
    <3>1. Init => made \in 0 .. MaxSockets /\ ws \in 0 .. made
                  /\ recvTask \in 0 .. made
      BY BoundsAssumption DEF Init
    <3>2. Init => /\ loop \in [Sockets -> {"off", "running", "cancelled", "ended"}]
                  /\ joinedAs \in [Sockets -> Ids \cup {NoId}]
      BY DEF Init
    <3>3. Init => conn \in States
      BY DEF Init, States
    <3>4. Init => /\ alive \in SUBSET (1 .. made)
                  /\ identity \in Ids \cup {NoId} /\ last \in Ids \cup {NoId}
                  /\ limit \in Limits /\ attempt \in Nat
      BY DEF Init
    <3>5. Init => /\ should \in BOOLEAN
                  /\ session \in {"none", "open", "closing"}
                  /\ retry \in {"none", "scheduled", "sleeping", "connecting",
                                "closing"}
                  /\ connecting \in {"no", "yes", "closing"}
                  /\ stopping \in {"no", "cancelling", "waiting", "closing"}
      BY DEF Init
    <3>6. QED
      BY <3>1, <3>2, <3>3, <3>4, <3>5 DEF TypeOK
  <2>2. Init => Handles
    BY DEF Init, Handles
  <2>3. Init => Phases /\ AllClosed
    BY DEF Init, Phases, AllClosed
  <2>4. Init => Keeping
    BY DEF Init, Keeping, StaysOrRetries, ServerKnowsMe
  <2>5. QED
    BY <2>1, <2>2, <2>3, <2>4 DEF IInv
<1>2. IInv /\ [Next]_vars => IInv'
  BY TypeStep, HandlesStep, PhasesStep, OverStep, KeepingStep DEF IInv
<1>3. QED
  BY <1>1, <1>2, PTL DEF Spec

\* The variables keep their types; AppState.set_connection_state, which refuses
\* an unknown state, never raises.
THEOREM TypeCorrect == Spec => []TypeOK
<1>1. IInv => TypeOK
  BY DEF IInv
<1>2. QED
  BY <1>1, Invariance, PTL

\* A client that is meant to be connected listens, is about to reconnect, or has
\* given up in state ERROR (_recv_loop, _reconnect_loop).
THEOREM NeverForgotten == Spec => []StaysOrRetries
<1>1. IInv => StaysOrRetries
  BY DEF IInv, Keeping
<1>2. QED
  BY <1>1, Invariance, PTL

\* No second connection is open and no second receive loop runs, however often
\* the connection was dropped (_connect_once, _close_sockets).
THEOREM NoSecondSocket == Spec => []OneSocket
<1>1. IInv => OneSocket
  BY DEF IInv, Handles, OneSocket
<1>2. QED
  BY <1>1, Invariance, PTL

\* disconnect() is final, whatever it interrupted (disconnect, _cancel_reconnect).
THEOREM StaysDisconnected == Spec => []DisconnectIsFinal
<1>1. IInv => DisconnectIsFinal
  BY DEF IInv, Phases, AllClosed, DisconnectIsFinal, Settled
<1>2. QED
  BY <1>1, Invariance, PTL

\* Without a limit on the attempts the server has heard the client's JOIN on every
\* connection that works (join, _reconnect_loop).
THEOREM Rejoined == Spec => []ServerKnowsMe
<1>1. IInv => ServerKnowsMe
  BY DEF IInv, Keeping
<1>2. QED
  BY <1>1, Invariance, PTL

-----------------------------------------------------------------------------
(***************************************************************************)
(* FileTransfer, for any files, chunks, limits of the buffer and calls of  *)
(* send(), and one message task of the receiver at a time, which is what   *)
(* FileReceiver assumes.                                                   *)
(*                                                                         *)
(* The inductive invariant FInv.  Streamed: the frames of each file that   *)
(* are on their way go on from where the receiver stands, and the sender   *)
(* goes on from where they end.  Received: what the receiver has hashed of *)
(* a file is what it has written, but for the chunk it is busy with.       *)
(* Separate: no two files share a context or a .partial file, and no       *)
(* .partial file is a saved one.  Counted: the saved files have the first  *)
(* names, and there is a name left for each file that may still come.      *)
(* Truthful: a FILE_DONE that says success is about a saved file.          *)
(***************************************************************************)

Now == task[1]
Busy(f) == Now # Free /\ Now.file = f

\* The first k chunks of a file.
Pre(f, k) == [n \in 1 .. k |-> <<f, n - 1>>]

\* How far a file has come with a frame, and how far it must have come before.
Come(m) == IF m.type = "META" THEN 0 ELSE IF m.type = "CHUNK" THEN m.seq + 1 ELSE Chunks + 1
Needs(m) == IF m.type = "CHUNK" THEN m.seq ELSE Chunks

\* If the receiver goes on with f, it has come to s with what it has taken.
Here(f, s) ==
    IF Busy(f)
    THEN /\ Now.step \in {"discarding", "creating"} => s = 0
         /\ Now.step \in {"opening", "writing", "written"} => s = Now.seq + 1
    ELSE current[f] # 0 => s = Len(contexts[current[f]])

\* It will have come to s with the first i frames that are on their way.
Reached(f, i, s) ==
    \/ \E k \in 1 .. i : /\ toR[k].file = f /\ Come(toR[k]) = s
                         /\ \A l \in k + 1 .. i : toR[l].file # f
    \/ (\A l \in 1 .. i : toR[l].file # f) /\ Here(f, s)

\* The frames of a file come as they were sent, and the sender is where they end.
Streamed ==
    /\ \A i \in 1 .. Len(toR) :
          toR[i].type # "META" => Reached(toR[i].file, i - 1, Needs(toR[i]))
    /\ \A f \in Files : sending[f] # "idle" => Reached(f, Len(toR), pos[f])
    /\ \A f \in Files : sending[f] = "waiting" => pos[f] < Chunks

\* h chunks of f are hashed, and d are in its file.
Built(f, h, d) ==
    /\ current[f] # 0 /\ partial[f] # 0
    /\ contexts[current[f]] = Pre(f, h) /\ disk[partial[f]] = Pre(f, d)

\* What is hashed is in the file.
Received ==
    /\ \A f \in Files : current[f] # 0 /\ ~Busy(f) => \E k \in 0 .. Chunks : Built(f, k, k)
    /\ Now.step \in {"discarding", "creating"} => current[Now.file] = 0
    /\ Now.step \in {"opening", "writing"} =>
          Now.ctx = current[Now.file] /\ Built(Now.file, Now.seq, Now.seq)
    /\ Now.step = "writing" => Now.node = partial[Now.file]
    /\ Now.step = "written" =>
          Now.ctx = current[Now.file] /\ Built(Now.file, Now.seq, Now.seq + 1)
    /\ Now.step = "replacing" => Built(Now.file, Chunks, Chunks)
    /\ Now.step = "renamed" => Now.file \in Saved

\* No two files, nor a saved one, share what is written to.
Separate ==
    /\ \A f, g \in Files : f # g =>
          /\ current[f] = current[g] => current[f] = 0
          /\ partial[f] = partial[g] => partial[f] = 0
    /\ \A f \in Files, n \in Targets : final[n] = partial[f] => partial[f] = 0

\* There is a free name for each FILE_END that may still come.
Ending == {i \in 1 .. Len(toR) : toR[i].type = "END"}
Streams == {f \in Files : sending[f] # "idle"}
Room(k) ==
    /\ {n \in Targets : final[n] # 0} = 1 .. k
    /\ k + Cardinality(Ending) + Cardinality(Streams)
         + (IF Now.step = "replacing" THEN 1 ELSE 0) <= sends
    /\ Now.step = "replacing" => Now.target = k + 1
Counted == IsFiniteSet(Streams) /\ \E k \in 0 .. MaxSends : Room(k)

\* The sender is told of success when the file was saved.
Truthful == \A i \in 1 .. Len(toS) : toS[i].ok /\ toS[i].match => toS[i].file \in Saved

FInv == FilesTypeOK /\ Streamed /\ Received /\ Separate /\ Counted /\ Truthful /\ SavedIsWhole

-----------------------------------------------------------------------------
\* One task: what it can be.
LEMMA OneTask ==
    ASSUME Overlap = 1, FilesTypeOK
    PROVE  /\ 1 \in Tasks /\ \A t \in Tasks : t = 1
           /\ Now \in Task
           /\ Now.step = "free" <=> Now = Free
           /\ Now # Free => Now.file \in Files
           /\ Now.step \in {"opening", "writing", "written"} =>
                 Now.seq \in 0 .. Chunks - 1 /\ Now.ctx \in 1 .. Len(contexts) /\ Now.node \in 0 .. Len(disk)
           /\ Now.step \in {"replacing", "renamed", "unrenamed"} =>
                 Now.match \in BOOLEAN /\ Now.target \in Targets
           /\ Now.step \in {"free", "discarding", "creating", "opening", "writing", "written",
                            "replacing", "renamed", "unrenamed"}
<1>1. Tasks = {1}
  BY TransferAssumption DEF Tasks
<1>2. Now \in Task
  BY <1>1 DEF FilesTypeOK, Now
<1>3. QED
  BY <1>1, <1>2 DEF Task, Free

\* The frames are numbered, and each belongs to a file.
LEMMA Frames ==
    ASSUME FilesTypeOK
    PROVE  /\ Len(toR) \in Nat /\ Len(toS) \in Nat /\ Len(contexts) \in Nat /\ Len(disk) \in Nat
           /\ \A i \in 1 .. Len(toR) :
                 /\ toR[i] \in Frame /\ toR[i].file \in Files /\ Come(toR[i]) \in Nat /\ Needs(toR[i]) \in Nat
                 /\ toR[i].type \in {"META", "CHUNK", "END"}
                 /\ toR[i].type = "CHUNK" => toR[i].seq \in 0 .. Chunks - 1
  BY TransferAssumption DEF FilesTypeOK, Frame, Come, Needs

\* A frame is put behind the others: what the others reach they reach still.
LEMMA Behind ==
    ASSUME FilesTypeOK, NEW n \in Nat, n = Len(toR), NEW m \in Frame, toR' = Append(toR, m),
           \A f \in Files, s \in Nat : Here(f, s) => Here(f, s)'
    PROVE  /\ \A f \in Files, i \in 0 .. n, s \in Nat : Reached(f, i, s) => Reached(f, i, s)'
           /\ \A f \in Files \ {m.file}, s \in Nat : Reached(f, n, s) => Reached(f, n + 1, s)'
           /\ \A s \in Nat : s = Come(m) => Reached(m.file, n + 1, s)'
           /\ Len(toR') = n + 1
           /\ \A i \in 1 .. n : toR'[i] = toR[i]
           /\ toR'[n + 1] = m
<1>1. Len(toR) \in Nat /\ toR \in Seq(Frame)
  BY DEF FilesTypeOK
<1>2. Len(toR') = n + 1 /\ toR'[n + 1] = m /\ \A i \in 1 .. n : toR'[i] = toR[i]
  BY <1>1
<1>3. \A f \in Files, i \in 0 .. n, s \in Nat : Reached(f, i, s) => Reached(f, i, s)'
  <2>1. SUFFICES ASSUME NEW f \in Files, NEW i \in 0 .. n, NEW s \in Nat, Reached(f, i, s)
                 PROVE  Reached(f, i, s)'
    OBVIOUS
  <2>2. Here(f, s) => Here(f, s)'
    OBVIOUS
  <2>3. \A k \in 1 .. i : toR'[k] = toR[k]
    BY <1>1, <1>2
  <2>4. \A k \in 1 .. i : \A l \in k + 1 .. i : l \in 1 .. i
    BY <1>1
  <2>5. QED
    BY <1>1, <2>1, <2>2, <2>3, <2>4 DEF Reached, Come
<1>4. \A f \in Files \ {m.file}, s \in Nat : Reached(f, n, s) => Reached(f, n + 1, s)'
  <2>1. SUFFICES ASSUME NEW f \in Files \ {m.file}, NEW s \in Nat, Reached(f, n, s)
                 PROVE  Reached(f, n + 1, s)'
    OBVIOUS
  <2>2. Reached(f, n, s)'
    BY <1>1, <1>3, <2>1
  <2>3. toR'[n + 1].file # f
    BY <1>2
  <2>. HIDE DEF Here
  <2>4. CASE \E k \in 1 .. n : /\ toR'[k].file = f /\ Come(toR'[k]) = s
                               /\ \A l \in k + 1 .. n : toR'[l].file # f
    <3>1. PICK k \in 1 .. n : /\ toR'[k].file = f /\ Come(toR'[k]) = s
                               /\ \A l \in k + 1 .. n : toR'[l].file # f
      BY <2>4
    <3>2. k \in 1 .. n + 1 /\ \A l \in k + 1 .. n + 1 : l \in k + 1 .. n \/ l = n + 1
      OBVIOUS
    <3>. QED  BY <3>1, <3>2, <2>3 DEF Reached, Come
  <2>5. CASE (\A l \in 1 .. n : toR'[l].file # f) /\ Here(f, s)'
    BY <2>5, <2>3 DEF Reached
  <2>. QED  BY <2>2, <2>4, <2>5 DEF Reached, Come
<1>5. \A s \in Nat : s = Come(m) => Reached(m.file, n + 1, s)'
  <2>1. n + 1 \in 1 .. n + 1 /\ \A l \in (n + 1) + 1 .. n + 1 : FALSE
    OBVIOUS
  <2>. QED  BY <1>2, <2>1 DEF Reached, Come
<1>. QED  BY <1>2, <1>3, <1>4, <1>5

\* What the sender and the receiver reach is kept where no frame is put or taken.
LEMMA SameFrames ==
    ASSUME FilesTypeOK, Streamed, toR' = toR,
           \A f \in Files, s \in Nat : Here(f, s) => Here(f, s)',
           \A f \in Files : \/ sending'[f] = "idle"
                            \/ /\ pos'[f] = pos[f] /\ sending[f] # "idle"
                               /\ sending'[f] = "waiting" => pos[f] < Chunks
    PROVE  Streamed'
<1>1. Len(toR) \in Nat /\ toR \in Seq(Frame) /\ \A f \in Files : pos[f] \in Nat
  BY DEF FilesTypeOK
<1>2. ASSUME NEW f \in Files, NEW i \in 0 .. Len(toR), NEW s \in Nat, Reached(f, i, s)
      PROVE  Reached(f, i, s)'
  <2>. HIDE DEF Here
  <2>. QED  BY <1>2 DEF Reached, Come
<1>3. ASSUME NEW i \in 1 .. Len(toR), toR[i].type # "META"
      PROVE  Reached(toR[i].file, i - 1, Needs(toR[i]))'
  <2>1. Reached(toR[i].file, i - 1, Needs(toR[i]))
    BY <1>3 DEF Streamed
  <2>2. toR[i].file \in Files /\ Needs(toR[i]) \in Nat /\ i - 1 \in 0 .. Len(toR)
    BY <1>1, Frames
  <2>3. PICK f \in Files, k \in 0 .. Len(toR), s \in Nat : f = toR[i].file /\ k = i - 1 /\ s = Needs(toR[i])
    BY <2>2
  <2>4. Reached(f, k, s)'
    BY <1>2, <2>1, <2>3
  <2>5. f = (toR[i].file)' /\ k = (i - 1)' /\ s = Needs(toR[i])'
    BY <2>3 DEF Needs
  <2>. QED  BY <2>4, <2>5
<1>4. ASSUME NEW f \in Files, sending'[f] # "idle"
      PROVE  Reached(f, Len(toR), pos[f])'
  <2>1. PICK k \in 0 .. Len(toR), s \in Nat : k = Len(toR) /\ s = pos[f]
    BY <1>1
  <2>2. Reached(f, k, s)
    BY <1>4, <2>1 DEF Streamed
  <2>3. Reached(f, k, s)' /\ k = Len(toR') /\ s = pos'[f]
    BY <1>2, <1>4, <2>1, <2>2
  <2>. QED  BY <2>3
<1>5. QED
  BY <1>3, <1>4 DEF Streamed

\* A frame of f that f has come to is put behind the others.
LEMMA OneFrameMore ==
    ASSUME FilesTypeOK, Streamed, NEW f \in Files, NEW m \in Frame, m.file = f,
           toR' = Append(toR, m),
           m.type # "META" => Reached(f, Len(toR), Needs(m)),
           \A g \in Files, s \in Nat : Here(g, s) => Here(g, s)',
           \A g \in Files \ {f} : sending'[g] = sending[g] /\ pos'[g] = pos[g],
           sending'[f] # "idle" => pos'[f] = Come(m) /\ sending'[f] # "waiting"
    PROVE  Streamed'
<1>1. PICK n \in Nat : n = Len(toR)
  BY Frames
<1>2. \A g \in Files : pos[g] \in Nat
  BY DEF FilesTypeOK
<1>3. /\ \A g \in Files, i \in 0 .. n, s \in Nat : Reached(g, i, s) => Reached(g, i, s)'
      /\ \A g \in Files \ {f}, s \in Nat : Reached(g, n, s) => Reached(g, n + 1, s)'
      /\ \A s \in Nat : s = Come(m) => Reached(f, n + 1, s)'
      /\ Len(toR') = n + 1
      /\ \A i \in 1 .. n : toR'[i] = toR[i]
      /\ toR'[n + 1] = m
  <2>. HIDE DEF Here, Reached
  <2>. QED  BY <1>1, Behind
<1>4. Come(m) \in Nat /\ Needs(m) \in Nat
  BY TransferAssumption DEF Frame, Come, Needs
<1>5. ASSUME NEW i \in 1 .. Len(toR'), toR'[i].type # "META"
      PROVE  Reached(toR[i].file, i - 1, Needs(toR[i]))'
  <2>1. CASE i = n + 1
    <3>1. PICK k \in 0 .. n, s \in Nat : k = n /\ s = Needs(m)
      BY <1>1, <1>4
    <3>2. Reached(f, k, s)'
      BY <1>1, <1>3, <1>5, <2>1, <3>1
    <3>3. f = (toR[i].file)' /\ k = (i - 1)' /\ s = Needs(toR[i])'
      BY <1>3, <2>1, <3>1 DEF Needs
    <3>. QED  BY <3>2, <3>3
  <2>2. CASE i # n + 1
    <3>1. i \in 1 .. n
      BY <1>3, <2>2
    <3>2. toR'[i] = toR[i] /\ toR[i].type # "META"
      BY <1>3, <1>5, <3>1
    <3>3. Reached(toR[i].file, i - 1, Needs(toR[i]))
      BY <1>1, <3>1, <3>2 DEF Streamed
    <3>0. toR[i].file \in Files /\ Needs(toR[i]) \in Nat /\ i - 1 \in 0 .. n
      BY <1>1, <3>1, Frames
    <3>4. PICK g \in Files, k \in 0 .. n, s \in Nat : g = toR[i].file /\ k = i - 1 /\ s = Needs(toR[i])
      BY <3>0
    <3>5. Reached(g, k, s)'
      BY <1>3, <3>3, <3>4
    <3>6. g = (toR[i].file)' /\ k = (i - 1)' /\ s = Needs(toR[i])'
      BY <3>2, <3>4 DEF Needs
    <3>. QED  BY <3>5, <3>6
  <2>. QED  BY <2>1, <2>2
<1>6. ASSUME NEW g \in Files, sending'[g] # "idle"
      PROVE  Reached(g, Len(toR), pos[g])' /\ (sending'[g] = "waiting" => pos'[g] < Chunks)
  <2>1. PICK k \in Nat, s \in Nat : k = n + 1 /\ s = pos'[g]
    BY <1>1, <1>2, <1>4, <1>6
  <2>2. Reached(g, k, s)'
    <3>1. CASE g = f
      BY <1>3, <1>6, <2>1, <3>1
    <3>2. CASE g # f
      <4>1. Reached(g, n, s)
        BY <1>1, <1>6, <2>1, <3>2 DEF Streamed
      <4>. QED  BY <1>3, <2>1, <3>2, <4>1
    <3>. QED  BY <3>1, <3>2
  <2>3. k = Len(toR') /\ s = pos'[g]
    BY <1>3, <2>1
  <2>4. sending'[g] = "waiting" => pos'[g] < Chunks
    BY <1>6 DEF Streamed
  <2>. QED  BY <2>2, <2>3, <2>4
<1>. QED
  BY <1>5, <1>6 DEF Streamed

-----------------------------------------------------------------------------
\* The indices of a finite sequence that have a property are finitely many.
LEMMA FiniteIndices ==
    ASSUME NEW n \in Nat, NEW A, A \subseteq 1 .. n
    PROVE  IsFiniteSet(A) /\ Cardinality(A) \in Nat
<1>1. IsFiniteSet(1 .. n)
  BY FS_Interval
<1>. QED  BY <1>1, FS_Subset, FS_CardinalityType

\* A frame behind the others is counted if it is a FILE_END.
LEMMA EndsBehind ==
    ASSUME FilesTypeOK, NEW m, toR' = Append(toR, m)
    PROVE  /\ Cardinality(Ending) \in Nat
           /\ Cardinality(Ending') = Cardinality(Ending) + (IF m.type = "END" THEN 1 ELSE 0)
<1>1. toR \in Seq(Frame) /\ Len(toR) \in Nat
  BY DEF FilesTypeOK
<1>2. Len(toR') = Len(toR) + 1 /\ toR'[Len(toR) + 1] = m /\ \A i \in 1 .. Len(toR) : toR'[i] = toR[i]
  BY <1>1
<1>3. IsFiniteSet(Ending) /\ Cardinality(Ending) \in Nat
  BY <1>1, FiniteIndices DEF Ending
<1>4. Ending' = IF m.type = "END" THEN Ending \cup {Len(toR) + 1} ELSE Ending
  BY <1>1, <1>2 DEF Ending
<1>5. Len(toR) + 1 \notin Ending
  BY <1>1 DEF Ending
<1>6. Cardinality(Ending \cup {Len(toR) + 1}) = Cardinality(Ending) + 1
  BY <1>3, <1>5, FS_AddElement
<1>. QED  BY <1>3, <1>4, <1>6

\* A frame that is taken is counted no more.
LEMMA EndsTaken ==
    ASSUME FilesTypeOK, toR # <<>>, toR' = Tail(toR)
    PROVE  /\ Cardinality(Ending') \in Nat
           /\ Cardinality(Ending) = Cardinality(Ending') + (IF toR[1].type = "END" THEN 1 ELSE 0)
<1>1. toR \in Seq(Frame) /\ Len(toR) \in Nat /\ Len(toR) > 0
  BY DEF FilesTypeOK
<1>2. Len(toR') = Len(toR) - 1 /\ \A i \in 1 .. Len(toR) - 1 : toR'[i] = toR[i + 1]
  BY <1>1
<1>. DEFINE A == Ending'
            B == Ending \ {1}
            shift == [i \in A |-> i + 1]
<1>3. A \subseteq 1 .. Len(toR) - 1 /\ Ending \subseteq 1 .. Len(toR)
  BY <1>1, <1>2 DEF Ending
<1>4. IsFiniteSet(A) /\ Cardinality(A) \in Nat /\ IsFiniteSet(Ending)
  <2>. HIDE DEF A
  <2>1. Len(toR) - 1 \in Nat
    BY <1>1
  <2>2. IsFiniteSet(A) /\ Cardinality(A) \in Nat
    BY <1>3, <2>1, FiniteIndices
  <2>3. IsFiniteSet(Ending)
    BY <1>1, <1>3, FiniteIndices
  <2>. QED  BY <2>2, <2>3
<1>5. \A i \in A : i + 1 \in B
  BY <1>1, <1>2 DEF Ending
<1>6. \A j \in B : j - 1 \in A /\ shift[j - 1] = j
  BY <1>1, <1>2 DEF Ending
<1>7. shift \in Injection(A, B) /\ shift \in Surjection(A, B)
  BY <1>3, <1>5, <1>6 DEF Injection, Surjection, IsInjective
<1>8. IsFiniteSet(B) /\ Cardinality(B) = Cardinality(A)
  <2>. HIDE DEF A, B, shift
  <2>. QED  BY <1>4, <1>7, FS_Surjection
<1>9. Cardinality(B) = IF 1 \in Ending THEN Cardinality(Ending) - 1 ELSE Cardinality(Ending)
  BY <1>4, FS_RemoveElement
<1>10. 1 \in Ending <=> toR[1].type = "END"
  BY <1>1 DEF Ending
<1>11. Cardinality(Ending) \in Nat
  BY <1>4, FS_CardinalityType
<1>. QED  BY <1>4, <1>8, <1>9, <1>10, <1>11

\* A file begins or stops to be sent.
LEMMA StreamsChange ==
    ASSUME NEW f \in Files, NEW v, IsFiniteSet(Streams), FilesTypeOK,
           sending' = [sending EXCEPT ![f] = v]
    PROVE  /\ IsFiniteSet(Streams') /\ Cardinality(Streams) \in Nat /\ Cardinality(Streams') \in Nat
           /\ Cardinality(Streams') + (IF sending[f] = "idle" THEN 0 ELSE 1)
                = Cardinality(Streams) + (IF v = "idle" THEN 0 ELSE 1)
<1>1. f \in Streams <=> sending[f] # "idle"
  BY DEF Streams
<1>2. Streams' = IF v = "idle" THEN Streams \ {f} ELSE Streams \cup {f}
  BY DEF Streams, FilesTypeOK
<1>3. Cardinality(Streams) \in Nat
  BY FS_CardinalityType
<1>4. /\ IsFiniteSet(Streams \ {f})
      /\ Cardinality(Streams \ {f}) = IF f \in Streams THEN Cardinality(Streams) - 1 ELSE Cardinality(Streams)
  BY FS_RemoveElement
<1>5. /\ IsFiniteSet(Streams \cup {f})
      /\ Cardinality(Streams \cup {f}) = IF f \in Streams THEN Cardinality(Streams) ELSE Cardinality(Streams) + 1
  BY FS_AddElement
<1>6. IsFiniteSet(Streams') /\ Cardinality(Streams') \in Nat
  BY <1>2, <1>4, <1>5, FS_CardinalityType
<1>. QED  BY <1>1, <1>2, <1>3, <1>4, <1>5, <1>6

\* What the sender does is of no concern to what the receiver has.
LEMMA ReceiverAside ==
    ASSUME FInv, UNCHANGED receiver
    PROVE  /\ Received' /\ Separate' /\ SavedIsWhole' /\ Saved' = Saved
           /\ \A f \in Files, s \in Nat : Here(f, s) => Here(f, s)'
<1>. USE DEF receiver
<1>1. Saved' = Saved
  BY DEF Saved, Whole
<1>2. Received'
  BY <1>1 DEF FInv, Received, Now, Busy, Free, Built, Pre
<1>3. Separate' /\ SavedIsWhole'
  BY DEF FInv, Separate, SavedIsWhole, Whole
<1>4. \A f \in Files, s \in Nat : Here(f, s) => Here(f, s)'
  BY DEF Here, Busy, Now, Free
<1>. QED  BY <1>1, <1>2, <1>3, <1>4

\* No more is to come than was sent.
LEMMA RoomLeft ==
    ASSUME FInv, UNCHANGED receiver, IsFiniteSet(Streams'),
           Cardinality(Ending) \in Nat, Cardinality(Ending') \in Nat,
           Cardinality(Streams) \in Nat, Cardinality(Streams') \in Nat,
           sends \in Nat, sends' \in Nat,
           Cardinality(Ending') + Cardinality(Streams') + sends
              <= Cardinality(Ending) + Cardinality(Streams) + sends'
    PROVE  Counted'
<1>1. PICK k \in 0 .. MaxSends : Room(k)
  BY DEF FInv, Counted
<1>2. /\ {n \in Targets : final[n] # 0}' = 1 .. k
      /\ Now' = Now
      /\ Now.step = "replacing" => Now.target = k + 1
  BY <1>1 DEF Room, receiver, Now
<1>3. k \in Nat
  BY TransferAssumption
<1>4. k + Cardinality(Ending') + Cardinality(Streams')
         + (IF Now.step = "replacing" THEN 1 ELSE 0) <= sends'
  BY <1>1, <1>3 DEF Room
<1>5. Room(k)'
  BY <1>2, <1>4 DEF Room
<1>. QED  BY <1>5 DEF Counted

\* What the sender is told of success was saved, however little of it is left.
LEMMA ToldLess ==
    ASSUME FInv, Saved' = Saved,
           toS' = toS \/ (toS # <<>> /\ toS' = Tail(toS))
    PROVE  Truthful'
<1>1. toS \in Seq(Done) /\ Len(toS) \in Nat
  BY DEF FInv, FilesTypeOK
<1>2. CASE toS' = toS
  BY <1>2 DEF FInv, Truthful
<1>3. CASE toS # <<>> /\ toS' = Tail(toS)
  <2>1. Len(toS') = Len(toS) - 1 /\ \A i \in 1 .. Len(toS') : toS'[i] = toS[i + 1] /\ i + 1 \in 1 .. Len(toS)
    BY <1>1, <1>3
  <2>. QED  BY <2>1 DEF FInv, Truthful
<1>. QED  BY <1>2, <1>3

-----------------------------------------------------------------------------
\* What is to be shown of a step of the sender.
LEMMA SenderStep ==
    ASSUME Overlap = 1, FInv, UNCHANGED receiver, FilesTypeOK', Streamed', Counted', Truthful'
    PROVE  FInv'
  BY ReceiverAside DEF FInv

\* A new transfer of f, or none over a closed channel.
LEMMA SendKeeps ==
    ASSUME Overlap = 1, FInv, NEW f \in Files, Send(f)
    PROVE  FInv'
<1>. USE DEF Send
<1>1. UNCHANGED receiver /\ toS' = toS
  OBVIOUS
<1>. DEFINE m == [type |-> "META", file |-> f]
<1>2. m \in Frame
  BY DEF Frame
<1>3. FilesTypeOK'
  <2>1. toR' \in Seq(Frame)
    <3>1. toR \in Seq(Frame) /\ (toR' = toR \/ toR' = Append(toR, m))
      BY DEF FInv, FilesTypeOK, Fail
    <3>. HIDE DEF m
    <3>. QED  BY <1>2, <3>1
  <2>2. sending' \in [Files -> {"idle", "streaming", "waiting"}] /\ pos' \in [Files -> 0 .. Chunks]
    <3>1. /\ sending' = [sending EXCEPT ![f] = "streaming"] \/ sending' = [sending EXCEPT ![f] = "idle"]
          /\ pos' = [pos EXCEPT ![f] = 0] \/ pos' = pos
      BY DEF Fail
    <3>2. 0 \in 0 .. Chunks
      BY TransferAssumption
    <3>. QED  BY <3>1, <3>2 DEF FInv, FilesTypeOK
  <2>3. inFlight' \in SUBSET Files /\ told' \in [Files -> {"nothing", "ok", "failed"}] /\ sends' \in 0 .. MaxSends
    <3>1. sends' \in 0 .. MaxSends
      BY TransferAssumption DEF FInv, FilesTypeOK
    <3>2. /\ inFlight' = inFlight \cup {f} \/ inFlight' = inFlight \ {f}
          /\ told' = told \/ told' = [told EXCEPT ![f] = "failed"]
      BY DEF Fail
    <3>. QED  BY <3>1, <3>2 DEF FInv, FilesTypeOK
  <2>. QED  BY <1>1, <2>1, <2>2, <2>3 DEF FInv, FilesTypeOK, receiver, Task
<1>4. \A g \in Files, s \in Nat : Here(g, s) => Here(g, s)'
  BY <1>1, ReceiverAside
<1>. HIDE DEF Here
<1>5. Streamed'
  <2>1. CASE open
    <3>1. /\ toR' = Append(toR, m)
          /\ sending' = [sending EXCEPT ![f] = "streaming"]
          /\ pos' = [pos EXCEPT ![f] = 0]
      BY <2>1
    <3>2. /\ \A g \in Files \ {f} : sending'[g] = sending[g] /\ pos'[g] = pos[g]
          /\ pos'[f] = Come(m) /\ sending'[f] # "waiting"
      BY <3>1 DEF FInv, FilesTypeOK, Come
    <3>3. m.file = f /\ m.type = "META"
      OBVIOUS
    <3>4. FilesTypeOK /\ Streamed
      BY DEF FInv
    <3>. HIDE DEF m
    <3>. QED  BY <1>2, <1>4, <3>1, <3>2, <3>3, <3>4, OneFrameMore
  <2>2. CASE ~open
    <3>1. toR' = toR /\ pos' = pos /\ sending' = [sending EXCEPT ![f] = "idle"]
      BY <2>2 DEF Fail
    <3>2. \A g \in Files : sending'[g] = "idle" \/ sending'[g] = sending[g]
      BY <3>1 DEF FInv, FilesTypeOK
    <3>. QED  BY <1>4, <3>1, <3>2, SameFrames DEF FInv, Streamed
  <2>. QED  BY <2>1, <2>2
<1>6. Counted'
  <2>1. sending[f] = "idle" /\ sends' = sends + 1 /\ IsFiniteSet(Streams) /\ sends \in Nat
    BY DEF FInv, Counted, FilesTypeOK
  <2>2. PICK v \in {"idle", "streaming"} : sending' = [sending EXCEPT ![f] = v]
    BY DEF Fail
  <2>3. /\ IsFiniteSet(Streams') /\ Cardinality(Streams) \in Nat /\ Cardinality(Streams') \in Nat
        /\ Cardinality(Streams') <= Cardinality(Streams) + 1
    <3>1. FilesTypeOK
      BY DEF FInv
    <3>2. /\ IsFiniteSet(Streams') /\ Cardinality(Streams) \in Nat /\ Cardinality(Streams') \in Nat
          /\ Cardinality(Streams') + (IF sending[f] = "idle" THEN 0 ELSE 1)
                = Cardinality(Streams) + (IF v = "idle" THEN 0 ELSE 1)
      BY <2>1, <2>2, <3>1, StreamsChange
    <3>. QED  BY <2>1, <3>2
  <2>4. Cardinality(Ending) \in Nat /\ Cardinality(Ending') = Cardinality(Ending)
    <3>1. CASE toR' = Append(toR, m)
      BY <3>1, EndsBehind DEF FInv
    <3>2. CASE toR' = toR
      BY <3>2, Frames, FiniteIndices DEF FInv, Ending
    <3>. QED  BY <3>1, <3>2 DEF Fail
  <2>. QED  BY <1>1, <2>1, <2>3, <2>4, RoomLeft
<1>7. Truthful'
  BY <1>1, ReceiverAside, ToldLess
<1>. QED  BY <1>1, <1>3, <1>5, <1>6, <1>7, SenderStep

\* The next chunk of f.
LEMMA PutChunkKeeps ==
    ASSUME Overlap = 1, FInv, NEW f \in Files, PutChunk(f), sending[f] # "idle", pos[f] < Chunks
    PROVE  FInv'
<1>. USE DEF PutChunk
<1>1. UNCHANGED receiver /\ toS' = toS /\ sends' = sends
  OBVIOUS
<1>. DEFINE m == [type |-> "CHUNK", file |-> f, seq |-> pos[f]]
<1>0. pos[f] \in Nat /\ pos[f] \in 0 .. Chunks - 1 /\ pos[f] + 1 \in 0 .. Chunks
  BY TransferAssumption DEF FInv, FilesTypeOK
<1>2. m \in Frame
  BY <1>0 DEF Frame
<1>3. FilesTypeOK'
  <2>1. toR' \in Seq(Frame)
    <3>1. toR \in Seq(Frame) /\ (toR' = toR \/ toR' = Append(toR, m))
      BY DEF FInv, FilesTypeOK, Fail
    <3>. HIDE DEF m
    <3>. QED  BY <1>2, <3>1
  <2>2. sending' \in [Files -> {"idle", "streaming", "waiting"}] /\ pos' \in [Files -> 0 .. Chunks]
    BY <1>0, TransferAssumption DEF FInv, FilesTypeOK, Fail
  <2>3. inFlight' \in SUBSET Files /\ told' \in [Files -> {"nothing", "ok", "failed"}] /\ sends' \in 0 .. MaxSends
    BY TransferAssumption DEF FInv, FilesTypeOK, Fail
  <2>. QED  BY <1>1, <2>1, <2>2, <2>3 DEF FInv, FilesTypeOK, receiver, Task
<1>4. \A g \in Files, s \in Nat : Here(g, s) => Here(g, s)'
  BY <1>1, ReceiverAside
<1>. HIDE DEF Here
<1>5. Streamed'
  <2>1. CASE open
    <3>1. /\ toR' = Append(toR, m)
          /\ \/ sending' = [sending EXCEPT ![f] = "streaming"] /\ pos' = [pos EXCEPT ![f] = @ + 1]
             \/ sending' = [sending EXCEPT ![f] = "idle"] /\ pos' = pos
      BY <2>1 DEF Fail
    <3>2. \A g \in Files \ {f} : sending'[g] = sending[g] /\ pos'[g] = pos[g]
      BY <3>1 DEF FInv, FilesTypeOK
    <3>3. sending'[f] # "idle" => pos'[f] = Come(m) /\ sending'[f] # "waiting"
      BY <3>1 DEF FInv, FilesTypeOK, Come
    <3>4. m.file = f /\ m.type # "META" /\ Needs(m) = pos[f]
      BY DEF Needs
    <3>5. Reached(f, Len(toR), Needs(m))
      BY <3>4 DEF FInv, Streamed
    <3>6. FilesTypeOK /\ Streamed
      BY DEF FInv
    <3>. HIDE DEF m
    <3>. QED  BY <1>2, <1>4, <3>1, <3>2, <3>3, <3>4, <3>5, <3>6, OneFrameMore
  <2>2. CASE ~open
    <3>1. toR' = toR /\ pos' = pos /\ sending' = [sending EXCEPT ![f] = "idle"]
      BY <2>2 DEF Fail
    <3>2. \A g \in Files : sending'[g] = "idle" \/ sending'[g] = sending[g]
      BY <3>1 DEF FInv, FilesTypeOK
    <3>. QED  BY <1>4, <3>1, <3>2, SameFrames DEF FInv, Streamed
  <2>. QED  BY <2>1, <2>2
<1>6. Counted'
  <2>1. IsFiniteSet(Streams) /\ sends \in Nat
    BY DEF FInv, Counted, FilesTypeOK
  <2>2. PICK v \in {"idle", "streaming"} : sending' = [sending EXCEPT ![f] = v]
    BY DEF Fail
  <2>3. /\ IsFiniteSet(Streams') /\ Cardinality(Streams) \in Nat /\ Cardinality(Streams') \in Nat
        /\ Cardinality(Streams') <= Cardinality(Streams)
    <3>1. FilesTypeOK
      BY DEF FInv
    <3>2. /\ IsFiniteSet(Streams') /\ Cardinality(Streams) \in Nat /\ Cardinality(Streams') \in Nat
          /\ Cardinality(Streams') + (IF sending[f] = "idle" THEN 0 ELSE 1)
                = Cardinality(Streams) + (IF v = "idle" THEN 0 ELSE 1)
      BY <2>1, <2>2, <3>1, StreamsChange
    <3>. QED  BY <2>1, <3>2
  <2>4. Cardinality(Ending) \in Nat /\ Cardinality(Ending') = Cardinality(Ending)
    <3>1. CASE toR' = Append(toR, m)
      BY <3>1, EndsBehind DEF FInv
    <3>2. CASE toR' = toR
      BY <3>2, Frames, FiniteIndices DEF FInv, Ending
    <3>. QED  BY <3>1, <3>2 DEF Fail
  <2>. QED  BY <1>1, <2>1, <2>3, <2>4, RoomLeft
<1>7. Truthful'
  BY <1>1, ReceiverAside, ToldLess
<1>. QED  BY <1>1, <1>3, <1>5, <1>6, <1>7, SenderStep

\* FILE_END.
LEMMA SendEndKeeps ==
    ASSUME Overlap = 1, FInv, NEW f \in Files, SendEnd(f)
    PROVE  FInv'
<1>. USE DEF SendEnd
<1>1. UNCHANGED receiver /\ toS' = toS /\ sends' = sends /\ pos' = pos
  OBVIOUS
<1>. DEFINE m == [type |-> "END", file |-> f]
<1>2. m \in Frame
  BY DEF Frame
<1>3. FilesTypeOK'
  <2>1. toR' \in Seq(Frame)
    <3>1. toR \in Seq(Frame) /\ (toR' = toR \/ toR' = Append(toR, m))
      BY DEF FInv, FilesTypeOK, Fail
    <3>. HIDE DEF m
    <3>. QED  BY <1>2, <3>1
  <2>2. sending' \in [Files -> {"idle", "streaming", "waiting"}] /\ pos' \in [Files -> 0 .. Chunks]
    BY TransferAssumption DEF FInv, FilesTypeOK, Fail
  <2>3. inFlight' \in SUBSET Files /\ told' \in [Files -> {"nothing", "ok", "failed"}] /\ sends' \in 0 .. MaxSends
    BY TransferAssumption DEF FInv, FilesTypeOK, Fail
  <2>. QED  BY <1>1, <2>1, <2>2, <2>3 DEF FInv, FilesTypeOK, receiver, Task
<1>4. \A g \in Files, s \in Nat : Here(g, s) => Here(g, s)'
  BY <1>1, ReceiverAside
<1>. HIDE DEF Here
<1>0. sending' = [sending EXCEPT ![f] = "idle"] /\ sending[f] # "idle"
  BY DEF Fail
<1>5. Streamed'
  <2>1. CASE open
    <3>1. toR' = Append(toR, m)
      BY <2>1
    <3>2. (\A g \in Files \ {f} : sending'[g] = sending[g] /\ pos'[g] = pos[g]) /\ sending'[f] = "idle"
      BY <1>0, <1>1 DEF FInv, FilesTypeOK
    <3>4. m.file = f /\ m.type # "META" /\ Needs(m) = pos[f]
      BY DEF Needs
    <3>5. Reached(f, Len(toR), Needs(m))
      BY <1>0, <3>4 DEF FInv, Streamed
    <3>6. FilesTypeOK /\ Streamed
      BY DEF FInv
    <3>. HIDE DEF m
    <3>. QED  BY <1>2, <1>4, <3>1, <3>2, <3>4, <3>5, <3>6, OneFrameMore
  <2>2. CASE ~open
    <3>1. toR' = toR
      BY <2>2 DEF Fail
    <3>2. \A g \in Files : sending'[g] = "idle" \/ sending'[g] = sending[g]
      BY <1>0 DEF FInv, FilesTypeOK
    <3>. QED  BY <1>1, <1>4, <3>1, <3>2, SameFrames DEF FInv, Streamed
  <2>. QED  BY <2>1, <2>2
<1>6. Counted'
  <2>1. IsFiniteSet(Streams) /\ sends \in Nat
    BY DEF FInv, Counted, FilesTypeOK
  <2>3. /\ IsFiniteSet(Streams') /\ Cardinality(Streams) \in Nat /\ Cardinality(Streams') \in Nat
        /\ Cardinality(Streams') + 1 = Cardinality(Streams)
    <3>1. FilesTypeOK
      BY DEF FInv
    <3>2. /\ IsFiniteSet(Streams') /\ Cardinality(Streams) \in Nat /\ Cardinality(Streams') \in Nat
          /\ Cardinality(Streams') + (IF sending[f] = "idle" THEN 0 ELSE 1) = Cardinality(Streams) + 0
      BY <1>0, <2>1, <3>1, StreamsChange
    <3>. QED  BY <1>0, <2>1, <3>2
  <2>4. Cardinality(Ending) \in Nat /\ Cardinality(Ending') \in Nat /\ Cardinality(Ending') <= Cardinality(Ending) + 1
    <3>1. CASE toR' = Append(toR, m)
      BY <3>1, EndsBehind DEF FInv
    <3>2. CASE toR' = toR
      BY <3>2, Frames, FiniteIndices DEF FInv, Ending
    <3>. QED  BY <3>1, <3>2 DEF Fail
  <2>. QED  BY <1>1, <2>1, <2>3, <2>4, RoomLeft
<1>7. Truthful'
  BY <1>1, ReceiverAside, ToldLess
<1>. QED  BY <1>1, <1>3, <1>5, <1>6, <1>7, SenderStep

\* The sender waits, gives up, hears of a file, or the channel closes.
LEMMA QuietKeeps ==
    ASSUME Overlap = 1, FInv,
           (\E f \in Files : Wait(f) \/ Cancel(f)) \/ RecvDone \/ Close
    PROVE  FInv'
<1>1. UNCHANGED <<receiver, toR, pos, sends>>
  BY DEF Wait, Cancel, RecvDone, Close, sender
<1>2. toS' = toS \/ (toS # <<>> /\ toS' = Tail(toS))
  BY DEF Wait, Cancel, RecvDone, Close, sender
<1>3. \/ UNCHANGED sending
      \/ \E f \in Files : sending[f] # "idle" /\ (\/ sending' = [sending EXCEPT ![f] = "idle"]
                                                  \/ sending' = [sending EXCEPT ![f] = "waiting"] /\ pos[f] < Chunks)
  BY DEF Wait, Cancel, RecvDone, Close, sender, Fail
<1>4. FilesTypeOK'
  <2>1. inFlight' \in SUBSET Files /\ told' \in [Files -> {"nothing", "ok", "failed"}]
        /\ toS' \in Seq(Done) /\ open' \in BOOLEAN
    <3>1. toS # <<>> => Head(toS) \in Done /\ Tail(toS) \in Seq(Done)
      BY DEF FInv, FilesTypeOK
    <3>. QED  BY <3>1 DEF Wait, Cancel, RecvDone, Close, sender, Fail, FInv, FilesTypeOK, Done
  <2>2. sending' \in [Files -> {"idle", "streaming", "waiting"}]
    BY <1>3 DEF FInv, FilesTypeOK
  <2>. QED  BY <1>1, <2>1, <2>2 DEF FInv, FilesTypeOK, receiver, Task
<1>5. Streamed'
  <2>1. \A g \in Files, s \in Nat : Here(g, s) => Here(g, s)'
    BY <1>1, ReceiverAside
  <2>2. \A f \in Files : \/ sending'[f] = "idle"
                         \/ /\ sending[f] # "idle"
                            /\ sending'[f] = "waiting" => pos[f] < Chunks
    BY <1>3 DEF FInv, FilesTypeOK, Streamed
  <2>. HIDE DEF Here
  <2>. QED  BY <1>1, <2>1, <2>2, SameFrames DEF FInv
<1>6. Counted'
  <2>1. IsFiniteSet(Streams) /\ sends \in Nat
    BY DEF FInv, Counted, FilesTypeOK
  <2>2. /\ IsFiniteSet(Streams') /\ Cardinality(Streams) \in Nat /\ Cardinality(Streams') \in Nat
        /\ Cardinality(Streams') <= Cardinality(Streams)
    <3>1. CASE UNCHANGED sending
      BY <2>1, <3>1, FS_CardinalityType DEF Streams
    <3>2. CASE \E f \in Files : sending[f] # "idle" /\ (\/ sending' = [sending EXCEPT ![f] = "idle"]
                                                  \/ sending' = [sending EXCEPT ![f] = "waiting"])
      <4>1. PICK f \in Files, v \in {"idle", "waiting"} : sending[f] # "idle" /\ sending' = [sending EXCEPT ![f] = v]
        BY <3>2
      <4>3. FilesTypeOK
        BY DEF FInv
      <4>2. /\ IsFiniteSet(Streams') /\ Cardinality(Streams) \in Nat /\ Cardinality(Streams') \in Nat
            /\ Cardinality(Streams') + (IF sending[f] = "idle" THEN 0 ELSE 1)
                  = Cardinality(Streams) + (IF v = "idle" THEN 0 ELSE 1)
        BY <2>1, <4>1, <4>3, StreamsChange
      <4>. QED  BY <4>1, <4>2
    <3>. QED  BY <1>3, <3>1, <3>2
  <2>3. Cardinality(Ending) \in Nat /\ Ending' = Ending
    BY <1>1, Frames, FiniteIndices DEF FInv, Ending
  <2>. QED  BY <1>1, <2>1, <2>2, <2>3, RoomLeft
<1>7. Truthful'
  BY <1>1, <1>2, ReceiverAside, ToldLess
<1>. QED  BY <1>1, <1>4, <1>5, <1>6, <1>7, SenderStep

-----------------------------------------------------------------------------
\* A task goes on to something else, or ends.
LEMMA TaskGoes ==
    ASSUME Overlap = 1, FilesTypeOK, NEW r, Goes(1, r)
    PROVE  /\ Now' = r
           /\ r \in Task' => task' \in [Tasks -> Task']
<1>1. Tasks = {1} /\ DOMAIN task = {1} /\ task' = [task EXCEPT ![1] = r]
  BY OneTask, TransferAssumption DEF FilesTypeOK, Goes, Tasks
<1>2. task' = [t \in {1} |-> r]
  BY <1>1
<1>. QED  BY <1>1, <1>2 DEF Now

\* A task that ends, with its file whole or not, is free again.
LEMMA TaskEnds ==
    ASSUME Overlap = 1, FilesTypeOK, Ends(1)
    PROVE  Now' = Free /\ task' \in [Tasks -> Task'] /\ Now'.step = "free"
<1>1. Goes(1, Free)
  BY DEF Ends, Goes
<1>2. Free \in Task' /\ Free.step = "free"
  BY DEF Task, Free
<1>. QED  BY <1>1, <1>2, TaskGoes

\* The chunks of a file, one by one.
LEMMA OneChunkMore ==
    ASSUME NEW f \in Files, NEW k \in Nat
    PROVE  /\ Pre(f, k) \in Seq(Files \X Nat) /\ Len(Pre(f, k)) = k
           /\ Append(Pre(f, k), <<f, k>>) = Pre(f, k + 1)
           /\ k = 0 => <<>> = Pre(f, k)
           /\ k = Chunks => Pre(f, k) = Whole(f)
           /\ k <= Chunks => Pre(f, k) \in Seq(Chunk)
<1>1. Pre(f, k) \in Seq(Files \X Nat) /\ Len(Pre(f, k)) = k
  BY DEF Pre
<1>2. Append(Pre(f, k), <<f, k>>) = Pre(f, k + 1)
  <2>1. DOMAIN Append(Pre(f, k), <<f, k>>) = 1 .. k + 1
    BY <1>1
  <2>2. \A n \in 1 .. k + 1 : Append(Pre(f, k), <<f, k>>)[n] = <<f, n - 1>>
    BY <1>1 DEF Pre
  <2>3. Append(Pre(f, k), <<f, k>>) \in Seq(Files \X Nat)
    BY <1>1
  <2>4. Append(Pre(f, k), <<f, k>>) = [n \in 1 .. k + 1 |-> Append(Pre(f, k), <<f, k>>)[n]]
    BY <2>1, <2>3
  <2>. QED  BY <2>2, <2>4 DEF Pre
<1>3. k = 0 => <<>> = Pre(f, k)
  BY <1>1
<1>4. k = Chunks => Pre(f, k) = Whole(f)
  BY DEF Pre, Whole
<1>5. k <= Chunks => Pre(f, k) \in Seq(Chunk)
  BY TransferAssumption DEF Pre, Chunk
<1>. QED  BY <1>1, <1>2, <1>3, <1>4, <1>5

\* A frame is taken: what is on its way moves up, and its file is where it was to be.
LEMMA MovesUp ==
    ASSUME FilesTypeOK, Streamed, toR # <<>>, toR' = Tail(toR), UNCHANGED <<sending, pos>>,
           NEW m, m = toR[1],
           \A g \in Files \ {m.file}, s \in Nat : Here(g, s) => Here(g, s)',
           \A s \in Nat : s = Come(m) => Here(m.file, s)'
    PROVE  Streamed'
<1>1. toR \in Seq(Frame) /\ Len(toR) \in Nat /\ Len(toR) > 0
  BY DEF FilesTypeOK
<1>2. PICK n \in Nat : Len(toR) = n + 1
  BY <1>1
<1>3. Len(toR') = n /\ \A i \in 1 .. n : toR'[i] = toR[i + 1] /\ i + 1 \in 1 .. n + 1
  BY <1>1, <1>2
<1>4. ASSUME NEW g \in Files, NEW i \in 0 .. n, NEW s \in Nat, Reached(g, i + 1, s)
      PROVE  Reached(g, i, s)'
  <2>1. CASE \E k \in 1 .. i + 1 : /\ toR[k].file = g /\ Come(toR[k]) = s
                                   /\ \A l \in k + 1 .. i + 1 : toR[l].file # g
    <3>1. PICK k \in 1 .. i + 1 : /\ toR[k].file = g /\ Come(toR[k]) = s
                                  /\ \A l \in k + 1 .. i + 1 : toR[l].file # g
      BY <2>1
    <3>2. \A l \in 1 .. i : l >= k => toR'[l].file # g
      BY <1>3, <3>1
    <3>3. CASE k = 1
      <4>. HIDE DEF Here
      <4>1. Here(g, s)'
        BY <3>1, <3>3
      <4>2. \A l \in 1 .. i : toR'[l].file # g
        <5>1. \A l \in 1 .. i : l \in Int /\ l >= 1
          OBVIOUS
        <5>. QED  BY <3>2, <3>3, <5>1
      <4>. QED  BY <4>1, <4>2 DEF Reached
    <3>4. CASE k # 1
      <4>1. k - 1 \in 1 .. i /\ toR'[k - 1] = toR[k] /\ \A l \in (k - 1) + 1 .. i : toR'[l].file # g
        BY <1>3, <3>1, <3>2, <3>4
      <4>. QED  BY <3>1, <4>1 DEF Reached, Come
    <3>. QED  BY <3>3, <3>4
  <2>2. CASE (\A l \in 1 .. i + 1 : toR[l].file # g) /\ Here(g, s)
    <3>1. 1 \in 1 .. i + 1 /\ \A l \in 1 .. i : toR'[l] = toR[l + 1] /\ l + 1 \in 1 .. i + 1
      BY <1>3
    <3>2. g \in Files \ {m.file}
      BY <2>2, <3>1
    <3>3. Here(g, s)'
      BY <2>2, <3>2
    <3>. HIDE DEF Here
    <3>. QED  BY <2>2, <3>1, <3>3 DEF Reached
  <2>. HIDE DEF Here
  <2>. QED  BY <1>4, <2>1, <2>2 DEF Reached
<1>. HIDE DEF Here, Reached
<1>5. ASSUME NEW i \in 1 .. Len(toR'), toR'[i].type # "META"
      PROVE  Reached(toR[i].file, i - 1, Needs(toR[i]))'
  <2>1. i \in 1 .. n /\ i + 1 \in 1 .. Len(toR) /\ toR'[i] = toR[i + 1]
    BY <1>2, <1>3
  <2>2. Reached(toR[i + 1].file, (i + 1) - 1, Needs(toR[i + 1]))
    BY <1>5, <2>1 DEF Streamed
  <2>3. toR[i + 1].file \in Files /\ Needs(toR[i + 1]) \in Nat /\ i - 1 \in 0 .. n
    BY <2>1, Frames
  <2>4. PICK g \in Files, k \in 0 .. n, s \in Nat : g = toR[i + 1].file /\ k = i - 1 /\ s = Needs(toR[i + 1])
    BY <2>3
  <2>5. Reached(g, k + 1, s)
    <3>1. (i + 1) - 1 = k + 1
      BY <2>4
    <3>. QED  BY <2>2, <2>4, <3>1
  <2>6. Reached(g, k, s)'
    BY <1>4, <2>5
  <2>7. g = (toR[i].file)' /\ k = (i - 1)' /\ s = Needs(toR[i])'
    BY <2>1, <2>4 DEF Needs
  <2>. QED  BY <2>6, <2>7
<1>6. ASSUME NEW f \in Files, sending'[f] # "idle"
      PROVE  Reached(f, Len(toR), pos[f])'
  <2>1. PICK s \in Nat : s = pos[f]
    BY DEF FilesTypeOK
  <2>2. Reached(f, n + 1, s)
    BY <1>2, <1>6, <2>1 DEF Streamed
  <2>3. Reached(f, n, s)' /\ n = Len(toR') /\ s = pos'[f]
    BY <1>3, <1>4, <2>1, <2>2
  <2>. QED  BY <2>3
<1>7. \A f \in Files : sending'[f] = "waiting" => pos'[f] < Chunks
  BY DEF Streamed
<1>. QED  BY <1>5, <1>6, <1>7 DEF Streamed

\* A chunk or FILE_END that is taken by a receiver that goes on with its file: all
\* that comes before it is hashed.
LEMMA NextInLine ==
    ASSUME Overlap = 1, FInv, toR # <<>>, Now = Free,
           NEW m, m = toR[1], m.type # "META", current[m.file] # 0
    PROVE  m.file \in Files /\ Built(m.file, Needs(m), Needs(m)) /\ Needs(m) \in 0 .. Chunks
<1>1. Len(toR) \in Nat /\ Len(toR) > 0 /\ 1 \in 1 .. Len(toR)
  BY DEF FInv, FilesTypeOK
<1>2. m \in Frame /\ m.file \in Files /\ Needs(m) \in Nat
  BY <1>1, Frames DEF FInv
<1>3. Reached(m.file, 1 - 1, Needs(m))
  BY <1>1 DEF FInv, Streamed
<1>4. Here(m.file, Needs(m))
  BY <1>3 DEF Reached
<1>5. Needs(m) = Len(contexts[current[m.file]])
  BY <1>4 DEF Here, Busy
<1>6. PICK k \in 0 .. Chunks : Built(m.file, k, k)
  BY <1>2 DEF FInv, Received, Busy
<1>7. Len(Pre(m.file, k)) = k
  BY <1>2, <1>6, OneChunkMore, TransferAssumption
<1>. QED  BY <1>2, <1>5, <1>6, <1>7 DEF Built

\* The name that is chosen is the next one, and there is one.
LEMMA NextName ==
    ASSUME FilesTypeOK, NEW k \in Nat, k + 1 \in Targets, {n \in Targets : final[n] # 0} = 1 .. k
    PROVE  FreeTarget = k + 1
<1>. DEFINE P(n) == final[n] = 0 /\ \A i \in 1 .. n - 1 : final[i] # 0
<1>1. \A n \in Targets : n \in Nat /\ n > 0
  BY TransferAssumption DEF Targets
<1>2. \A n \in Targets : final[n] # 0 <=> n \in 1 .. k
  OBVIOUS
<1>3. \A i \in 1 .. k : i \in Targets
  BY <1>2
<1>4. P(k + 1)
  BY <1>2, <1>3
<1>5. ASSUME NEW n \in Targets, P(n) PROVE n = k + 1
  <2>1. ~(n <= k)
    BY <1>1, <1>2, <1>5
  <2>2. ~(k + 1 < n)
    <3>1. k + 1 < n => k + 1 \in 1 .. n - 1
      BY <1>1
    <3>. QED  BY <1>2, <1>5, <3>1
  <2>. QED  BY <1>1, <2>1, <2>2
<1>6. (CHOOSE n \in Targets : P(n)) = k + 1
  <2>. HIDE DEF P
  <2>. QED  BY <1>4, <1>5
<1>. QED  BY <1>6 DEF FreeTarget

\* What is filed is left as it is by a step that writes nothing.
LEMMA Untouched ==
    ASSUME FInv, UNCHANGED <<contexts, disk, final>>,
           \A f \in Files : /\ current'[f] \in {0, current[f]} /\ partial'[f] \in {0, partial[f]}
                            /\ current'[f] # 0 => partial'[f] = partial[f]
    PROVE  /\ Saved' = Saved /\ Separate' /\ SavedIsWhole'
           /\ \A f \in Files, h \in Nat, d \in Nat :
                 current'[f] # 0 => (Built(f, h, d) => Built(f, h, d)')
<1>1. Saved' = Saved /\ SavedIsWhole'
  BY DEF FInv, Saved, SavedIsWhole, Whole
<1>2. Separate'
  <2>1. ASSUME NEW f \in Files, NEW g \in Files, f # g
        PROVE  /\ current'[f] = current'[g] => current'[f] = 0
               /\ partial'[f] = partial'[g] => partial'[f] = 0
    BY <2>1 DEF FInv, Separate
  <2>2. ASSUME NEW f \in Files, NEW n \in Targets
        PROVE  final'[n] = partial'[f] => partial'[f] = 0
    BY DEF FInv, Separate
  <2>. QED  BY <2>1, <2>2 DEF Separate
<1>3. \A f \in Files, h \in Nat, d \in Nat : current'[f] # 0 => (Built(f, h, d) => Built(f, h, d)')
  BY DEF Built, Pre
<1>. QED  BY <1>1, <1>2, <1>3

\* The receiver takes a frame.
LEMMA DeliverKeeps ==
    ASSUME Overlap = 1, FInv, NEW t \in Tasks, Deliver(t)
    PROVE  FInv'
<1>1. t = 1 /\ FilesTypeOK
  BY OneTask DEF FInv
<1>2. /\ toR # <<>> /\ toR' = Tail(toR) /\ Now = Free
      /\ UNCHANGED <<open, sends, sending, pos, inFlight, told>>
  BY <1>1 DEF Deliver, sender, Now
<1>3. PICK m : m = toR[1]
  OBVIOUS
<1>4. toR \in Seq(Frame) /\ Len(toR) \in Nat /\ Len(toR) > 0 /\ 1 \in 1 .. Len(toR) /\ Head(toR) = m
      /\ toR' \in Seq(Frame)
  BY <1>1, <1>2, <1>3 DEF FilesTypeOK
<1>5. /\ m \in Frame /\ m.file \in Files /\ m.type \in {"META", "CHUNK", "END"}
      /\ m.type = "CHUNK" => m.seq \in 0 .. Chunks - 1
      /\ Come(m) \in Nat
  BY <1>1, <1>3, <1>4, Frames
<1>. DEFINE f == m.file
<1>6. \/ m.type = "META" /\ TakeMeta(1, f)
      \/ m.type = "END" /\ TakeEnd(1, f)
      \/ m.type = "CHUNK" /\ TakeChunk(1, f, m.seq)
  BY <1>1, <1>4 DEF Deliver, OnTextMessage
<1>7. UNCHANGED <<contexts, disk, partial, final>>
      /\ current' \in [Files -> 0 .. Len(contexts)]
      /\ (\A g \in Files \ {f} : current'[g] = current[g]) /\ current'[f] \in {0, current[f]}
      /\ (m.type # "META" => current' = current)
  <2>1. UNCHANGED <<contexts, disk, partial, final>>
    BY <1>6 DEF TakeMeta, TakeEnd, TakeChunk
  <2>2. current' = current \/ current' = [current EXCEPT ![f] = 0]
    BY <1>6 DEF TakeMeta, TakeEnd, TakeChunk, Forget
  <2>3. m.type # "META" => current' = current
    BY <1>6 DEF TakeEnd, TakeChunk
  <2>4. current \in [Files -> 0 .. Len(contexts)] /\ 0 \in 0 .. Len(contexts)
    BY <1>1, Frames DEF FilesTypeOK
  <2>. HIDE DEF f
  <2>5. f \in Files
    BY <1>5 DEF f
  <2>6. current' \in [Files -> 0 .. Len(contexts)]
    BY <2>2, <2>4
  <2>7. (\A g \in Files \ {f} : current'[g] = current[g]) /\ current'[f] \in {0, current[f]}
    BY <2>2, <2>4, <2>5
  <2>. QED  BY <2>1, <2>3, <2>6, <2>7
<1>8. Saved' = Saved /\ Separate' /\ SavedIsWhole'
      /\ \A g \in Files, h \in Nat : current'[g] # 0 => (Built(g, h, h) => Built(g, h, h)')
  <2>1. \A g \in Files : /\ current'[g] \in {0, current[g]} /\ partial'[g] \in {0, partial[g]}
                         /\ current'[g] # 0 => partial'[g] = partial[g]
    BY <1>7
  <2>2. Saved' = Saved /\ Separate' /\ SavedIsWhole'
        /\ \A g \in Files, h \in Nat, d \in Nat : current'[g] # 0 => (Built(g, h, d) => Built(g, h, d)')
    BY <1>7, <2>1, Untouched
  <2>. QED  BY <2>2
<1>9. PICK k \in 0 .. MaxSends : Room(k)
  BY DEF FInv, Counted
<1>10. k \in Nat /\ MaxSends \in Nat /\ sends \in 0 .. MaxSends /\ IsFiniteSet(Streams) /\ Cardinality(Streams) \in Nat
  BY TransferAssumption, FS_CardinalityType DEF FInv, FilesTypeOK, Counted
<1>11. /\ Cardinality(Ending') \in Nat
       /\ Cardinality(Ending) = Cardinality(Ending') + (IF m.type = "END" THEN 1 ELSE 0)
  BY <1>1, <1>2, <1>3, EndsTaken
<1>12. Now.step = "free"
  BY <1>2 DEF Free
<1>13. k + Cardinality(Ending') + (IF m.type = "END" THEN 1 ELSE 0) + Cardinality(Streams) <= sends
  BY <1>9, <1>10, <1>11, <1>12 DEF Room
<1>14. m.type = "END" => FreeTarget = k + 1 /\ k + 1 \in Targets
  <2>1. m.type = "END" => k + 1 \in Targets
    BY <1>10, <1>11, <1>13 DEF Targets
  <2>2. {n \in Targets : final[n] # 0} = 1 .. k
    BY <1>9 DEF Room
  <2>. QED  BY <1>1, <1>10, <2>1, <2>2, NextName
\* What has become of the task.
<1>15. /\ task' \in [Tasks -> Task'] /\ toS' \in Seq(Done)
       /\ \/ m.type = "META" /\ Now' \in [step : {"discarding", "creating"}, file : {f}] /\ current'[f] = 0
          \/ /\ m.type = "CHUNK" /\ current[f] # 0
             /\ Now' = [step |-> "opening", file |-> f, seq |-> m.seq, ctx |-> current[f], node |-> 0]
          \/ /\ m.type = "END" /\ current[f] # 0
             /\ Now' = [step |-> "replacing", file |-> f, match |-> contexts[current[f]] = Whole(f), target |-> FreeTarget]
          \/ Now' = Free /\ Now'.step = "free" /\ current[f] = 0
       /\ toS' = toS \/ (toS' = Append(toS, [file |-> f, ok |-> FALSE, match |-> FALSE]))
  <2>1. CASE m.type = "META" /\ TakeMeta(1, f)
    <3>1. PICK step \in {"discarding", "creating"} : Goes(1, [step |-> step, file |-> f])
      BY <2>1 DEF TakeMeta
    <3>2. [step |-> step, file |-> f] \in Task'
      BY <1>5 DEF Task
    <3>3. current'[f] = 0 /\ toS' = toS
      BY <1>1, <1>5, <2>1 DEF TakeMeta, Forget, FilesTypeOK
    <3>4. Now' = [step |-> step, file |-> f] /\ task' \in [Tasks -> Task']
      BY <1>1, <3>1, <3>2, TaskGoes
    <3>5. toS \in Seq(Done)
      BY <1>1 DEF FilesTypeOK
    <3>. QED  BY <2>1, <3>3, <3>4, <3>5
  <2>2. CASE m.type = "CHUNK" /\ TakeChunk(1, f, m.seq)
    <3>0. toS' = toS /\ toS \in Seq(Done)
      BY <1>1, <2>2 DEF TakeChunk, FilesTypeOK
    <3>1. CASE current[f] # 0
      <4>. DEFINE r == [step |-> "opening", file |-> f, seq |-> m.seq, ctx |-> current[f], node |-> 0]
      <4>1. Goes(1, r)
        BY <2>2, <3>1 DEF TakeChunk
      <4>2. current[f] \in 1 .. Len(contexts) /\ 0 \in 0 .. Len(disk) /\ m.seq \in 0 .. Chunks - 1
        BY <1>1, <1>5, <2>2, <3>1, Frames DEF FilesTypeOK
      <4>3. r \in Task'
        BY <1>5, <1>7, <4>2 DEF Task
      <4>. HIDE DEF r
      <4>4. Now' = r /\ task' \in [Tasks -> Task']
        BY <1>1, <4>1, <4>3, TaskGoes
      <4>. QED  BY <2>2, <3>0, <3>1, <4>4 DEF r
    <3>2. CASE current[f] = 0
      <4>1. Ends(1)
        BY <2>2, <3>2 DEF TakeChunk
      <4>. QED  BY <1>1, <3>0, <3>2, <4>1, TaskEnds
    <3>. QED  BY <3>1, <3>2
  <2>3. CASE m.type = "END" /\ TakeEnd(1, f)
    <3>0. toS \in Seq(Done) /\ [file |-> f, ok |-> FALSE, match |-> FALSE] \in Done
      BY <1>1, <1>5 DEF FilesTypeOK, Done
    <3>1. CASE current[f] # 0
      <4>. DEFINE r == [step |-> "replacing", file |-> f, match |-> contexts[current[f]] = Whole(f), target |-> FreeTarget]
      <4>1. Goes(1, r) /\ toS' = toS
        BY <2>3, <3>1 DEF TakeEnd
      <4>2. FreeTarget \in Targets
        BY <1>14, <2>3
      <4>3. r \in Task'
        BY <1>5, <4>2 DEF Task
      <4>. HIDE DEF r
      <4>4. Now' = r /\ task' \in [Tasks -> Task']
        BY <1>1, <4>1, <4>3, TaskGoes
      <4>. QED  BY <2>3, <3>0, <3>1, <4>1, <4>4 DEF r
    <3>2. CASE current[f] = 0
      <4>1. Ends(1) /\ Reply(f, FALSE, FALSE)
        BY <2>3, <3>2 DEF TakeEnd
      <4>2. toS' = toS \/ (toS' = Append(toS, [file |-> f, ok |-> FALSE, match |-> FALSE]))
        BY <4>1 DEF Reply
      <4>3. toS' \in Seq(Done)
        BY <3>0, <4>2
      <4>. QED  BY <1>1, <3>2, <4>1, <4>2, <4>3, TaskEnds
    <3>. QED  BY <3>1, <3>2
  <2>. QED  BY <1>6, <2>1, <2>2, <2>3
<1>16. FilesTypeOK'
  <2>1. contexts' = contexts /\ disk' = disk /\ partial' = partial /\ final' = final
    BY <1>7
  <2>. QED  BY <1>1, <1>2, <1>4, <1>7, <1>15, <2>1 DEF FilesTypeOK
<1>17. Streamed'
  <2>1. ASSUME NEW g \in Files \ {f}, NEW s \in Nat, Here(g, s)
        PROVE  Here(g, s)'
    <3>1. ~Busy(g) /\ ~Busy(g)'
      BY <1>2, <1>15 DEF Busy
    <3>. QED  BY <1>7, <2>1, <3>1 DEF Here
  <2>2. ASSUME NEW s \in Nat, s = Come(m)
        PROVE  Here(m.file, s)'
    <3>1. CASE m.type = "META" /\ Now' \in [step : {"discarding", "creating"}, file : {f}]
      BY <2>2, <3>1 DEF Here, Busy, Come, Free
    <3>2. CASE /\ m.type = "CHUNK"
               /\ Now' = [step |-> "opening", file |-> f, seq |-> m.seq, ctx |-> current[f], node |-> 0]
      BY <2>2, <3>2 DEF Here, Busy, Come, Free
    <3>3. CASE Now'.step = "replacing" /\ Now'.file = f
      BY <2>2, <3>3 DEF Here, Busy, Free
    <3>4. CASE Now' = Free /\ current[f] = 0
      BY <2>2, <1>7, <3>4 DEF Here, Busy
    <3>. QED  BY <1>15, <3>1, <3>2, <3>3, <3>4
  <2>. HIDE DEF Here
  <2>3. UNCHANGED <<sending, pos>> /\ Streamed
    BY <1>2 DEF FInv
  <2>. QED  BY <1>1, <1>2, <1>3, <2>1, <2>2, <2>3, MovesUp
<1>18. Received'
  <2>1. ASSUME NEW g \in Files, current'[g] # 0, ~Busy(g)'
        PROVE  \E h \in 0 .. Chunks : Built(g, h, h)'
    <3>1. current[g] # 0 /\ ~Busy(g)
      BY <1>2, <1>7, <2>1 DEF Busy
    <3>2. PICK h \in 0 .. Chunks : Built(g, h, h)
      BY <3>1 DEF FInv, Received
    <3>. QED  BY <1>8, <2>1, <3>2, TransferAssumption
  <2>2. CASE m.type = "META" /\ Now' \in [step : {"discarding", "creating"}, file : {f}] /\ current'[f] = 0
    BY <2>1, <2>2 DEF Received
  <2>3. CASE /\ m.type = "CHUNK" /\ current[f] # 0
             /\ Now' = [step |-> "opening", file |-> f, seq |-> m.seq, ctx |-> current[f], node |-> 0]
    <3>1. current'[f] = current[f] /\ Needs(m) = m.seq /\ m.seq \in Nat
      BY <1>5, <1>7, <2>3 DEF Needs
    <3>2. Built(f, m.seq, m.seq)
      BY <1>2, <1>3, <2>3, <3>1, NextInLine
    <3>3. Built(f, m.seq, m.seq)'
      BY <1>5, <1>8, <2>3, <3>1, <3>2
    <3>4. Built(f, m.seq, m.seq)' <=> Built(Now.file, Now.seq, Now.seq)'
      BY <2>3 DEF Built, Pre
    <3>. QED  BY <2>1, <2>3, <3>1, <3>3, <3>4 DEF Received
  <2>4. CASE /\ m.type = "END" /\ current[f] # 0
             /\ Now' = [step |-> "replacing", file |-> f, match |-> contexts[current[f]] = Whole(f), target |-> FreeTarget]
    <3>1. current'[f] = current[f] /\ Needs(m) = Chunks /\ Chunks \in Nat
      BY <1>7, <2>4, TransferAssumption DEF Needs
    <3>2. Built(f, Chunks, Chunks)
      BY <1>2, <1>3, <2>4, <3>1, NextInLine
    <3>3. Built(f, Chunks, Chunks)'
      BY <1>5, <1>8, <2>4, <3>1, <3>2
    <3>4. Built(f, Chunks, Chunks)' <=> Built(Now.file, Chunks, Chunks)'
      BY <2>4 DEF Built, Pre
    <3>. QED  BY <2>1, <2>4, <3>3, <3>4 DEF Received
  <2>5. CASE Now' = Free /\ Now'.step = "free"
    BY <2>1, <2>5 DEF Received
  <2>. QED  BY <1>15, <2>2, <2>3, <2>4, <2>5
<1>19. Counted'
  <2>1. /\ {n \in Targets : final[n] # 0}' = 1 .. k
        /\ Streams' = Streams
    BY <1>2, <1>7, <1>9 DEF Room, Streams
  <2>2. Now'.step = "replacing" => m.type = "END" /\ Now'.target = k + 1
    BY <1>14, <1>15
  <2>3. sends' = sends
    BY <1>2
  <2>4. k + Cardinality(Ending') + Cardinality(Streams) + (IF Now'.step = "replacing" THEN 1 ELSE 0) <= sends
    BY <1>10, <1>11, <1>13, <2>2
  <2>5. Room(k)'
    BY <2>1, <2>2, <2>3, <2>4 DEF Room
  <2>6. IsFiniteSet(Streams')
    BY <1>10, <2>1
  <2>. QED  BY <2>5, <2>6 DEF Counted
<1>20. Truthful'
  <2>1. toS \in Seq(Done)
    BY <1>1 DEF FilesTypeOK
  <2>2. \A i \in 1 .. Len(toS') : (i \in 1 .. Len(toS) /\ toS'[i] = toS[i]) \/ ~toS'[i].ok
    BY <1>15, <2>1
  <2>. QED  BY <1>8, <2>2 DEF FInv, Truthful
<1>. QED  BY <1>8, <1>16, <1>17, <1>18, <1>19, <1>20 DEF FInv

-----------------------------------------------------------------------------
\* A thread of the receiver leaves the sender and the frames as they are, and the
\* saved files or all that was not yet taken.
LEMMA WorkAside ==
    ASSUME Overlap = 1, FInv, NEW x, UNCHANGED <<sender, toR, final>>, FilesTypeOK',
           \A f \in Files, s \in Nat : Here(f, s) => Here(f, s)',
           Now'.step # "replacing", Saved' = Saved,
           toS' = toS \/ toS' = Append(toS, x), x \in Done, x.ok /\ x.match => x.file \in Saved
    PROVE  Streamed' /\ Counted' /\ Truthful'
<1>1. FilesTypeOK /\ Streamed /\ Truthful
  BY DEF FInv
<1>2. Streamed'
  <2>1. \A f \in Files : \/ sending'[f] = "idle"
                         \/ /\ pos'[f] = pos[f] /\ sending[f] # "idle"
                            /\ sending'[f] = "waiting" => pos[f] < Chunks
    BY <1>1 DEF sender, Streamed
  <2>. HIDE DEF Here
  <2>. QED  BY <1>1, <2>1, SameFrames
<1>3. Counted'
  <2>1. PICK k \in 0 .. MaxSends : Room(k)
    BY DEF FInv, Counted
  <2>2. Ending' = Ending /\ Streams' = Streams /\ sends' = sends /\ final' = final
    BY DEF Ending, Streams, sender
  <2>3. Cardinality(Ending) \in Nat /\ Cardinality(Streams) \in Nat /\ sends \in Nat /\ IsFiniteSet(Streams)
    BY <1>1, Frames, FiniteIndices, FS_CardinalityType DEF Ending, FInv, Counted, FilesTypeOK
  <2>4. Room(k)'
    BY <2>1, <2>2, <2>3, TransferAssumption DEF Room
  <2>. QED  BY <2>2, <2>3, <2>4 DEF Counted
<1>4. Truthful'
  <2>1. toS \in Seq(Done) /\ Len(toS) \in Nat
    BY <1>1 DEF FilesTypeOK
  <2>2. CASE toS' = toS
    BY <1>1, <2>2 DEF Truthful
  <2>3. CASE toS' = Append(toS, x)
    <3>1. \A i \in 1 .. Len(toS') : (i \in 1 .. Len(toS) /\ toS'[i] = toS[i]) \/ toS'[i] = x
      BY <2>1, <2>3
    <3>. QED  BY <1>1, <3>1 DEF Truthful
  <2>. QED  BY <2>2, <2>3
<1>. QED  BY <1>2, <1>3, <1>4

\* Answers are of their type.
LEMMA Answered ==
    ASSUME FilesTypeOK, NEW x \in Done, toS' = toS \/ toS' = Append(toS, x)
    PROVE  toS' \in Seq(Done)
<1>1. toS \in Seq(Done)
  BY DEF FilesTypeOK
<1>. QED  BY <1>1

\* What of the receiver's types a step leaves alone that writes nothing.
LEMMA WorkTypes ==
    ASSUME FilesTypeOK, UNCHANGED <<open, sender, toR>>,
           toS' \in Seq(Done), task' \in [Tasks -> Task'],
           contexts' \in Seq(ReceiveContext), disk' \in Seq(Seq(Chunk)),
           current' \in [Files -> 0 .. Len(contexts')],
           partial' \in [Files -> 0 .. Len(disk')],
           final' \in [Targets -> 0 .. Len(disk')]
    PROVE  FilesTypeOK'
  BY DEF FilesTypeOK, sender

\* A file is discarded, cannot be made, is opened or fails, a rename fails, or a
\* transfer is over: nothing is written.
LEMMA IdleWorkKeeps ==
    ASSUME Overlap = 1, FInv, NEW t \in Tasks,
           Discard(t) \/ CreateFails(t) \/ Open(t) \/ WriteFails(t) \/ RenameFails(t) \/ Finish(t)
    PROVE  FInv' /\ Saved' = Saved
<1>1. t = 1 /\ FilesTypeOK
  BY OneTask DEF FInv
<1>. DEFINE f == Now.file
<1>2. /\ Now # Free /\ f \in Files
      /\ Now.step \in {"discarding", "creating", "opening", "writing", "replacing", "renamed", "unrenamed"}
      /\ task[t] = Now
  BY <1>1, OneTask DEF Discard, CreateFails, Open, WriteFails, RenameFails, Finish, Now, Free
<1>3. UNCHANGED <<open, toR, sender, contexts, disk, final>>
  <2>1. ASSUME Open(t) PROVE disk' = disk
    <3>1. partial[f] # 0
      BY <1>1, <2>1 DEF FInv, Received, Built, Open, Now
    <3>. QED  BY <1>2, <2>1, <3>1 DEF Open
  <2>. QED  BY <2>1 DEF Discard, CreateFails, Open, WriteFails, RenameFails, Finish
<1>4. \/ /\ Now.step \in {"discarding", "opening", "replacing"} /\ current' = current
         /\ \/ Now' = [step |-> "creating", file |-> f] /\ current[f] = 0 /\ Now.step = "discarding"
               /\ (partial' = partial \/ partial' = [partial EXCEPT ![f] = 0])
            \/ Now.step = "opening" /\ partial' = partial
               /\ Now' = [Now EXCEPT !.step = "writing", !.node = partial[f]]
            \/ Now.step = "replacing" /\ partial' = partial /\ Now' = [Now EXCEPT !.step = "unrenamed"]
         /\ toS' = toS /\ task' \in [Tasks -> Task']
      \/ /\ Now' = Free /\ Now'.step = "free" /\ task' \in [Tasks -> Task']
         /\ \/ current' = current /\ current[f] = 0
            \/ current' = [current EXCEPT ![f] = 0]
         /\ partial' = partial \/ partial' = [partial EXCEPT ![f] = 0]
         /\ \/ toS' = toS
            \/ \E ok \in BOOLEAN, match \in BOOLEAN :
                  /\ toS' = Append(toS, [file |-> f, ok |-> ok, match |-> match])
                  /\ ok => Now.step = "renamed"
  <2>1. CASE Discard(t)
    <3>. DEFINE r == [step |-> "creating", file |-> f]
    <3>1. Goes(1, r) /\ current' = current /\ toS' = toS /\ Now.step = "discarding"
          /\ (partial' = partial \/ partial' = [partial EXCEPT ![f] = 0])
      BY <1>1, <1>2, <2>1 DEF Discard
    <3>2. r \in Task'
      BY <1>2 DEF Task
    <3>3. current[f] = 0
      BY <3>1 DEF FInv, Received
    <3>4. Now' = r /\ task' \in [Tasks -> Task']
      <4>. HIDE DEF r
      <4>. QED  BY <1>1, <3>1, <3>2, TaskGoes
    <3>. QED  BY <3>1, <3>3, <3>4
  <2>2. CASE Open(t)
    <3>. DEFINE r == [Now EXCEPT !.step = "writing", !.node = partial[f]]
    <3>1. partial[f] # 0 /\ Now.step = "opening"
      BY <1>1, <1>2, <2>2 DEF FInv, Received, Built, Open
    <3>2. Goes(1, r) /\ current' = current /\ toS' = toS /\ partial' = partial
      BY <1>1, <1>2, <2>2, <3>1 DEF Open
    <3>3. r \in Task'
      <4>1. /\ Now \in Task /\ Now.seq \in 0 .. Chunks - 1 /\ Now.ctx \in 1 .. Len(contexts)
            /\ partial[f] \in 0 .. Len(disk)
        BY <1>1, <1>2, <3>1, OneTask DEF FilesTypeOK
      <4>2. Now \in [step : {"opening", "writing", "written"}, file : Files,
                     seq : 0 .. Chunks - 1, ctx : 1 .. Len(contexts), node : 0 .. Len(disk)]
        BY <3>1, <4>1 DEF Task, Free
      <4>3. r \in [step : {"opening", "writing", "written"}, file : Files,
                   seq : 0 .. Chunks - 1, ctx : 1 .. Len(contexts), node : 0 .. Len(disk)]
        BY <4>1, <4>2
      <4>. QED  BY <1>3, <4>3 DEF Task
    <3>4. Now' = r /\ task' \in [Tasks -> Task']
      <4>. HIDE DEF r
      <4>. QED  BY <1>1, <3>2, <3>3, TaskGoes
    <3>. QED  BY <3>1, <3>2, <3>4
  <2>3. CASE RenameFails(t)
    <3>. DEFINE r == [Now EXCEPT !.step = "unrenamed"]
    <3>1. Goes(1, r) /\ current' = current /\ toS' = toS /\ partial' = partial /\ Now.step = "replacing"
      BY <1>1, <1>2, <2>3 DEF RenameFails
    <3>2. r \in Task'
      <4>1. Now \in [step : {"replacing", "renamed", "unrenamed"}, file : Files, match : BOOLEAN, target : Targets]
        BY <1>1, <3>1, OneTask DEF Task, Free
      <4>. QED  BY <4>1 DEF Task
    <3>3. Now' = r /\ task' \in [Tasks -> Task']
      <4>. HIDE DEF r
      <4>. QED  BY <1>1, <3>1, <3>2, TaskGoes
    <3>. QED  BY <3>1, <3>3
  <2>4. CASE CreateFails(t)
    <3>1. Ends(1) /\ UNCHANGED <<toS, current, partial>> /\ Now.step = "creating"
      BY <1>1, <1>2, <2>4 DEF CreateFails
    <3>2. current[f] = 0
      BY <3>1 DEF FInv, Received
    <3>. QED  BY <1>1, <3>1, <3>2, TaskEnds
  <2>5. CASE WriteFails(t)
    <3>1. Ends(1) /\ current' = [current EXCEPT ![f] = 0]
          /\ (partial' = partial \/ partial' = [partial EXCEPT ![f] = 0])
          /\ (toS' = toS \/ (toS' = Append(toS, [file |-> f, ok |-> FALSE, match |-> FALSE])))
      BY <1>1, <1>2, <2>5 DEF WriteFails, Reply, Forget
    <3>. QED  BY <1>1, <3>1, TaskEnds
  <2>6. CASE Finish(t)
    <3>1. Ends(1) /\ current' = [current EXCEPT ![f] = 0] /\ partial' = partial
          /\ (toS' = toS \/ (toS' = Append(toS, [file |-> f, ok |-> Now.step = "renamed", match |-> Now.match])))
      BY <1>1, <1>2, <2>6 DEF Finish, Reply, Forget
    <3>2. Now.match \in BOOLEAN /\ (Now.step = "renamed") \in BOOLEAN
      BY <1>1, <1>2, <2>6, OneTask DEF Finish
    <3>3. PICK ok \in BOOLEAN, match \in BOOLEAN : ok = (Now.step = "renamed") /\ match = Now.match
      BY <3>2
    <3>4. toS' = toS \/ (toS' = Append(toS, [file |-> f, ok |-> ok, match |-> match]) /\ (ok => Now.step = "renamed"))
      BY <3>1, <3>3
    <3>5. Now' = Free /\ Now'.step = "free" /\ task' \in [Tasks -> Task']
      BY <1>1, <3>1, TaskEnds
    <3>. QED  BY <3>1, <3>4, <3>5
  <2>. QED  BY <2>1, <2>2, <2>3, <2>4, <2>5, <2>6

<1>11. /\ Now' # Free => Now'.file = f
       /\ Now'.step \in {"free", "creating", "writing", "unrenamed"}
       /\ Now' = [step |-> "creating", file |-> f] => Now.step = "discarding"
  <2>1. CASE Now' = [step |-> "creating", file |-> f] /\ Now.step = "discarding"
    BY <2>1
  <2>2. CASE Now.step = "opening" /\ Now' = [Now EXCEPT !.step = "writing", !.node = partial[f]]
    <3>1. Now'.step = "writing" /\ Now'.file = f
      BY <1>1, <2>2, OneTask DEF Task, Free
    <3>. QED  BY <3>1
  <2>3. CASE Now.step = "replacing" /\ Now' = [Now EXCEPT !.step = "unrenamed"]
    <3>1. Now'.step = "unrenamed" /\ Now'.file = f
      BY <1>1, <2>3, OneTask DEF Task, Free
    <3>. QED  BY <3>1
  <2>4. CASE Now' = Free /\ Now'.step = "free"
    BY <2>4
  <2>. QED  BY <1>4, <2>1, <2>2, <2>3, <2>4
<1>5. \A g \in Files : /\ current'[g] \in {0, current[g]} /\ partial'[g] \in {0, partial[g]}
                       /\ current'[g] # 0 => partial'[g] = partial[g]
                       /\ g # f => current'[g] = current[g] /\ partial'[g] = partial[g]
  <2>. HIDE DEF f
  <2>. QED  BY <1>1, <1>2, <1>4 DEF FilesTypeOK
<1>6. FilesTypeOK'
  <2>1. /\ current' \in [Files -> 0 .. Len(contexts)] /\ partial' \in [Files -> 0 .. Len(disk)]
        /\ contexts \in Seq(ReceiveContext) /\ disk \in Seq(Seq(Chunk)) /\ final \in [Targets -> 0 .. Len(disk)]
        /\ toS \in Seq(Done)
    <3>1. 0 \in 0 .. Len(contexts) /\ 0 \in 0 .. Len(disk)
      BY <1>1, Frames
    <3>2. \/ current' = current \/ current' = [current EXCEPT ![f] = 0]
      BY <1>4
    <3>3. \/ partial' = partial \/ partial' = [partial EXCEPT ![f] = 0]
      BY <1>4
    <3>. HIDE DEF f
    <3>. QED  BY <1>1, <3>1, <3>2, <3>3 DEF FilesTypeOK
  <2>2. toS' \in Seq(Done)
    <3>1. CASE toS' = toS
      BY <2>1, <3>1
    <3>2. CASE \E ok \in BOOLEAN, match \in BOOLEAN : toS' = Append(toS, [file |-> f, ok |-> ok, match |-> match])
      <4>1. PICK ok \in BOOLEAN, match \in BOOLEAN : toS' = Append(toS, [file |-> f, ok |-> ok, match |-> match])
        BY <3>2
      <4>2. [file |-> f, ok |-> ok, match |-> match] \in Done
        BY <1>2 DEF Done
      <4>. QED  BY <1>1, <4>1, <4>2, Answered
    <3>. QED  BY <1>4, <3>1, <3>2
  <2>3. task' \in [Tasks -> Task']
    BY <1>4
  <2>. QED  BY <1>1, <1>3, <2>1, <2>2, <2>3, WorkTypes
<1>7. Saved' = Saved /\ Separate' /\ SavedIsWhole'
      /\ \A g \in Files, h \in Nat, d \in Nat : current'[g] # 0 => (Built(g, h, d) => Built(g, h, d)')
  BY <1>3, <1>5, Untouched
<1>8. \A g \in Files, s \in Nat : Here(g, s) => Here(g, s)'
  <2>1. SUFFICES ASSUME NEW g \in Files, NEW s \in Nat, Here(g, s) PROVE Here(g, s)'
    OBVIOUS
  <2>2. CASE g # f
    <3>1. ~Busy(g)
      BY <2>2 DEF Busy
    <3>2. ~Busy(g)'
      BY <1>11, <2>2 DEF Busy, Free
    <3>. QED  BY <1>3, <1>5, <2>1, <2>2, <3>1, <3>2 DEF Here
  <2>3. CASE g = f /\ Now' = Free
    <3>1. current'[f] = 0
      <4>. HIDE DEF f
      <4>. QED  BY <1>1, <1>2, <1>4, <2>3 DEF FilesTypeOK, Free
    <3>. QED  BY <2>3, <3>1 DEF Here, Busy
  <2>4. CASE g = f /\ Now' # Free
    <3>1. Busy(f)
      BY <1>2 DEF Busy
    <3>2. CASE Now' = [step |-> "creating", file |-> f]
      <4>1. Now.step = "discarding"
        BY <1>11, <3>2
      <4>. QED  BY <2>1, <2>4, <3>1, <3>2, <4>1 DEF Here, Busy, Free
    <3>3. CASE Now.step = "opening" /\ Now' = [Now EXCEPT !.step = "writing", !.node = partial[f]]
      <4>1. Now'.step = "writing" /\ Now'.file = f /\ Now'.seq = Now.seq
        BY <1>1, <3>3, OneTask DEF Task, Free
      <4>. QED  BY <2>1, <2>4, <3>1, <3>3, <4>1 DEF Here, Busy
    <3>4. CASE Now.step = "replacing" /\ Now' = [Now EXCEPT !.step = "unrenamed"]
      <4>1. Now'.step = "unrenamed" /\ Now'.file = f
        BY <1>1, <3>4, OneTask DEF Task, Free
      <4>. QED  BY <2>1, <2>4, <3>1, <3>4, <4>1 DEF Here, Busy
    <3>. QED  BY <1>4, <2>4, <3>2, <3>3, <3>4
  <2>. QED  BY <2>2, <2>3, <2>4
<1>9. Received'
  <2>1. ASSUME NEW g \in Files, current'[g] # 0, ~Busy(g)'
        PROVE  \E h \in 0 .. Chunks : Built(g, h, h)'
    <3>1. g # f
      <4>1. CASE Now' = Free
        <5>1. current'[f] = 0
          <6>. HIDE DEF f
          <6>. QED  BY <1>1, <1>2, <1>4, <4>1 DEF FilesTypeOK, Free
        <5>. QED  BY <2>1, <5>1
      <4>2. CASE Now' # Free
        <5>1. Now'.file = f
          BY <1>11, <4>2
        <5>. QED  BY <2>1, <4>2, <5>1 DEF Busy
      <4>. QED  BY <4>1, <4>2
    <3>2. current[g] # 0 /\ ~Busy(g)
      BY <1>5, <2>1, <3>1 DEF Busy
    <3>3. PICK h \in 0 .. Chunks : Built(g, h, h)
      BY <3>2 DEF FInv, Received
    <3>. QED  BY <1>7, <2>1, <3>3, TransferAssumption
  <2>2. CASE Now'.step = "free"
    BY <2>1, <2>2 DEF Received
  <2>3. CASE Now' = [step |-> "creating", file |-> f] /\ current[f] = 0 /\ current' = current
    BY <2>1, <2>3 DEF Received
  <2>4. CASE Now.step = "opening" /\ Now' = [Now EXCEPT !.step = "writing", !.node = partial[f]]
             /\ current' = current /\ partial' = partial
    <3>1. Now'.step = "writing" /\ Now'.file = f /\ Now'.seq = Now.seq /\ Now'.ctx = Now.ctx
          /\ Now'.node = partial'[f] /\ Now.seq \in Nat
      BY <1>1, <2>4, OneTask DEF Task, Free
    <3>2. Now.ctx = current'[f] /\ Built(f, Now.seq, Now.seq) /\ current'[f] # 0
      BY <2>4 DEF FInv, Received, Built
    <3>3. PICK s \in Nat : s = Now.seq
      BY <3>1
    <3>4. Built(f, s, s)
      BY <3>2, <3>3
    <3>5. PICK g \in Files : g = f
      BY <1>2
    <3>6. Built(g, s, s)'
      BY <1>7, <3>2, <3>4, <3>5
    <3>7. g = Now'.file /\ s = Now'.seq
      BY <3>1, <3>3, <3>5
    <3>. QED  BY <2>1, <3>1, <3>2, <3>6, <3>7 DEF Received
  <2>5. CASE Now.step = "replacing" /\ Now' = [Now EXCEPT !.step = "unrenamed"]
    <3>1. Now'.step = "unrenamed"
      BY <1>1, <2>5, OneTask DEF Task, Free
    <3>. QED  BY <2>1, <3>1 DEF Received
  <2>. QED  BY <1>4, <2>2, <2>3, <2>4, <2>5
<1>10. Streamed' /\ Counted' /\ Truthful'
  <2>1. Now'.step # "replacing"
    BY <1>11
  <2>2. PICK ok \in BOOLEAN, match \in BOOLEAN :
           /\ toS' = toS \/ toS' = Append(toS, [file |-> f, ok |-> ok, match |-> match])
           /\ ok => Now.step = "renamed"
    BY <1>4
  <2>. DEFINE x == [file |-> f, ok |-> ok, match |-> match]
  <2>3. x \in Done /\ (x.ok /\ x.match => x.file \in Saved)
    BY <1>2, <2>2 DEF Done, FInv, Received
  <2>4. toS' = toS \/ toS' = Append(toS, x)
    BY <2>2
  <2>. HIDE DEF x, Here
  <2>. QED  BY <1>3, <1>6, <1>7, <1>8, <2>1, <2>3, <2>4, WorkAside
<1>. QED  BY <1>6, <1>7, <1>9, <1>10 DEF FInv

-----------------------------------------------------------------------------
\* A step that writes to the file of f, or hashes a chunk of it, leaves what was
\* saved and what the other files have.
LEMMA OthersKept ==
    ASSUME FInv, NEW f \in Files, final' = final,
           \A n \in 1 .. Len(disk) \ {partial[f]} : disk'[n] = disk[n],
           \A c \in 1 .. Len(contexts) \ {current[f]} : contexts'[c] = contexts[c],
           \A g \in Files \ {f} : current'[g] = current[g] /\ partial'[g] = partial[g]
    PROVE  /\ Saved' = Saved /\ SavedIsWhole'
           /\ \A g \in Files \ {f}, h \in Nat, d \in Nat : Built(g, h, d) => Built(g, h, d)'
<1>1. FilesTypeOK /\ Separate /\ SavedIsWhole
  BY DEF FInv
<1>2. \A n \in Targets : final[n] # 0 => final[n] \in 1 .. Len(disk) \ {partial[f]}
  BY <1>1, Frames DEF FilesTypeOK, Separate
<1>3. \A n \in Targets : final[n] # 0 => disk'[final[n]] = disk[final[n]]
  BY <1>2
<1>4. Saved' = Saved
  BY <1>3 DEF Saved, Whole
<1>5. SavedIsWhole'
  BY <1>1, <1>3 DEF SavedIsWhole, Whole
<1>6. ASSUME NEW g \in Files \ {f}, NEW h \in Nat, NEW d \in Nat, Built(g, h, d)
      PROVE  Built(g, h, d)'
  <2>1. current[g] \in 1 .. Len(contexts) \ {current[f]}
    <3>1. current[g] \in 0 .. Len(contexts) /\ current[g] # 0 /\ Len(contexts) \in Nat
      BY <1>1, <1>6, Frames DEF FilesTypeOK, Built
    <3>2. current[g] # current[f]
      BY <1>1, <3>1 DEF Separate
    <3>. QED  BY <3>1, <3>2
  <2>2. partial[g] \in 1 .. Len(disk) \ {partial[f]}
    <3>1. partial[g] \in 0 .. Len(disk) /\ partial[g] # 0 /\ Len(disk) \in Nat
      BY <1>1, <1>6, Frames DEF FilesTypeOK, Built
    <3>2. partial[g] # partial[f]
      BY <1>1, <3>1 DEF Separate
    <3>. QED  BY <3>1, <3>2
  <2>. QED  BY <1>6, <2>1, <2>2 DEF Built, Pre
<1>. QED  BY <1>4, <1>5, <1>6

\* What the files of others know of themselves while f is busy or has just ended.
LEMMA OthersReceived ==
    ASSUME FInv, NEW f \in Files, Now # Free, Now.file = f,
           \A g \in Files \ {f} : current'[g] = current[g],
           \A g \in Files \ {f}, h \in Nat, d \in Nat : Built(g, h, d) => Built(g, h, d)'
    PROVE  \A g \in Files \ {f} : current'[g] # 0 => \E h \in 0 .. Chunks : Built(g, h, h)'
<1>1. SUFFICES ASSUME NEW g \in Files \ {f}, current'[g] # 0
               PROVE  \E h \in 0 .. Chunks : Built(g, h, h)'
  OBVIOUS
<1>2. ~Busy(g) /\ current[g] # 0
  BY <1>1 DEF Busy
<1>3. PICK h \in 0 .. Chunks : Built(g, h, h)
  BY <1>2 DEF FInv, Received
<1>. QED  BY <1>3, TransferAssumption

\* The same of how far they have come.
LEMMA OthersHere ==
    ASSUME FilesTypeOK, NEW f \in Files, Now # Free, Now.file = f, Now' = Free \/ Now'.file = f,
           \A g \in Files \ {f} : current'[g] = current[g],
           \A c \in 1 .. Len(contexts) \ {current[f]} : contexts'[c] = contexts[c],
           \A g \in Files \ {f} : current[g] = current[f] => current[g] = 0
    PROVE  \A g \in Files \ {f}, s \in Nat : Here(g, s) => Here(g, s)'
<1>1. SUFFICES ASSUME NEW g \in Files \ {f}, NEW s \in Nat, Here(g, s)
               PROVE  Here(g, s)'
  OBVIOUS
<1>2. ~Busy(g) /\ ~Busy(g)'
  BY <1>1 DEF Busy
<1>3. current[g] # 0 => current[g] \in 1 .. Len(contexts) \ {current[f]}
  <2>1. current[g] \in 0 .. Len(contexts) /\ Len(contexts) \in Nat
    BY Frames DEF FilesTypeOK
  <2>. QED  BY <1>1, <2>1
<1>. QED  BY <1>1, <1>2, <1>3 DEF Here

\* An empty .partial file is made, and a context filed.
LEMMA CreateKeeps ==
    ASSUME Overlap = 1, FInv, NEW t \in Tasks, Create(t)
    PROVE  FInv' /\ Saved' = Saved
<1>1. t = 1 /\ FilesTypeOK /\ Separate
  BY OneTask DEF FInv
<1>2. PICK f \in Files : /\ f = Now.file /\ Now # Free /\ Now.step = "creating" /\ task[t] = Now
                         /\ current[f] = 0
  BY <1>1, OneTask DEF Create, Now, Free, FInv, Received
<1>3. /\ UNCHANGED <<open, toR, toS, sender, final>> /\ Ends(1)
      /\ contexts' = Append(contexts, <<>>) /\ current' = [current EXCEPT ![f] = Len(contexts')]
      /\ IF partial[f] = 0
         THEN disk' = Append(disk, <<>>) /\ partial' = [partial EXCEPT ![f] = Len(disk')]
         ELSE disk' = [disk EXCEPT ![partial[f]] = <<>>] /\ partial' = partial
  BY <1>1, <1>2 DEF Create
<1>4. Now' = Free /\ Now'.step = "free" /\ task' \in [Tasks -> Task']
  BY <1>1, <1>3, TaskEnds
<1>5. /\ contexts \in Seq(ReceiveContext) /\ disk \in Seq(Seq(Chunk)) /\ Len(contexts) \in Nat /\ Len(disk) \in Nat
      /\ current \in [Files -> 0 .. Len(contexts)] /\ partial \in [Files -> 0 .. Len(disk)]
      /\ final \in [Targets -> 0 .. Len(disk)] /\ toS \in Seq(Done)
  BY <1>1, Frames DEF FilesTypeOK
<1>6. /\ contexts' \in Seq(ReceiveContext) /\ Len(contexts') = Len(contexts) + 1
      /\ contexts'[Len(contexts) + 1] = <<>> /\ \A c \in 1 .. Len(contexts) : contexts'[c] = contexts[c]
      /\ current' \in [Files -> 0 .. Len(contexts')] /\ current'[f] = Len(contexts) + 1
      /\ \A g \in Files \ {f} : current'[g] = current[g]
  <2>1. <<>> \in ReceiveContext
    BY DEF ReceiveContext
  <2>. QED  BY <1>2, <1>3, <1>5, <2>1
<1>7. /\ disk' \in Seq(Seq(Chunk)) /\ Len(disk') >= Len(disk) /\ Len(disk') \in Nat
      /\ \A n \in 1 .. Len(disk) \ {partial[f]} : disk'[n] = disk[n]
      /\ partial' \in [Files -> 0 .. Len(disk')] /\ partial'[f] # 0 /\ disk'[partial'[f]] = <<>>
      /\ \A g \in Files \ {f} : partial'[g] = partial[g]
      /\ partial'[f] = partial[f] \/ partial'[f] = Len(disk) + 1
  <2>1. <<>> \in Seq(Chunk)
    OBVIOUS
  <2>2. CASE partial[f] = 0
    <3>1. disk' = Append(disk, <<>>) /\ partial' = [partial EXCEPT ![f] = Len(disk')]
      BY <1>3, <2>2
    <3>2. /\ disk' \in Seq(Seq(Chunk)) /\ Len(disk') = Len(disk) + 1 /\ disk'[Len(disk) + 1] = <<>>
          /\ \A n \in 1 .. Len(disk) : disk'[n] = disk[n]
      BY <1>5, <2>1, <3>1
    <3>3. partial' \in [Files -> 0 .. Len(disk')] /\ partial'[f] = Len(disk) + 1
          /\ \A g \in Files \ {f} : partial'[g] = partial[g]
      BY <1>5, <3>1, <3>2
    <3>. QED  BY <1>5, <3>2, <3>3
  <2>3. CASE partial[f] # 0
    <3>1. partial[f] \in 1 .. Len(disk)
      BY <1>2, <1>5, <2>3
    <3>2. disk' \in Seq(Seq(Chunk)) /\ Len(disk') = Len(disk) /\ disk'[partial[f]] = <<>>
          /\ \A n \in 1 .. Len(disk) \ {partial[f]} : disk'[n] = disk[n]
      <4>1. disk' = [disk EXCEPT ![partial[f]] = <<>>] /\ DOMAIN disk = 1 .. Len(disk)
        BY <1>3, <1>5, <2>3
      <4>3. disk' \in Seq(Seq(Chunk)) /\ Len(disk') = Len(disk)
        BY <1>5, <2>1, <3>1, <4>1, ExceptSeq
      <4>. QED  BY <1>5, <3>1, <4>1, <4>3
    <3>. QED  BY <1>2, <1>3, <1>5, <2>3, <3>2
  <2>. QED  BY <2>2, <2>3
<1>8. final' \in [Targets -> 0 .. Len(disk')]
  BY <1>3, <1>5, <1>7
<1>9. FilesTypeOK'
  BY <1>1, <1>3, <1>4, <1>5, <1>6, <1>7, <1>8, WorkTypes
<1>10. Saved' = Saved /\ SavedIsWhole'
       /\ \A g \in Files \ {f}, h \in Nat, d \in Nat : Built(g, h, d) => Built(g, h, d)'
  <2>1. \A c \in 1 .. Len(contexts) \ {current[f]} : contexts'[c] = contexts[c]
    BY <1>6
  <2>2. final' = final
    BY <1>3
  <2>3. \A n \in 1 .. Len(disk) \ {partial[f]} : disk'[n] = disk[n]
    BY <1>7
  <2>4. \A g \in Files \ {f} : current'[g] = current[g] /\ partial'[g] = partial[g]
    BY <1>6, <1>7
  <2>. QED  BY <1>2, <2>1, <2>2, <2>3, <2>4, OthersKept
<1>11. Separate'
  <2>1. \A g \in Files \ {f} : current'[f] # current'[g] /\ (partial'[f] = partial'[g] => partial'[g] = 0)
    <3>1. ASSUME NEW g \in Files \ {f}
          PROVE  current'[f] # current'[g] /\ (partial'[f] = partial'[g] => partial'[g] = 0)
      <4>1. current[g] \in 0 .. Len(contexts) /\ partial[g] \in 0 .. Len(disk)
            /\ (partial[f] = partial[g] => partial[f] = 0)
        BY <1>1, <1>5 DEF Separate
      <4>2. current'[f] = Len(contexts) + 1 /\ current'[g] = current[g] /\ Len(contexts) \in Nat
        BY <1>5, <1>6
      <4>3. current'[f] # current'[g]
        BY <4>1, <4>2
      <4>4. /\ partial'[g] = partial[g] /\ Len(disk) \in Nat
            /\ partial'[f] = partial[f] \/ partial'[f] = Len(disk) + 1
            /\ partial'[f] # 0
        BY <1>5, <1>7
      <4>5. partial'[f] = partial'[g] => partial'[g] = 0
        BY <4>1, <4>4
      <4>. QED  BY <4>3, <4>5
    <3>. QED  BY <3>1
  <2>2. \A n \in Targets : final'[n] # partial'[f]
    <3>1. ASSUME NEW n \in Targets PROVE final[n] # partial'[f]
      <4>1. final[n] \in 0 .. Len(disk) /\ (final[n] = partial[f] => partial[f] = 0)
        BY <1>1, <1>5 DEF Separate
      <4>. QED  BY <1>5, <1>7, <4>1
    <3>. QED  BY <1>3, <3>1
  <2>3. \A g \in Files \ {f}, n \in Targets : final'[n] = partial'[g] => partial'[g] = 0
    BY <1>1, <1>3, <1>7 DEF Separate
  <2>4. \A g, h \in Files : g # h => \/ g = f \/ h = f
                                     \/ /\ current'[g] = current'[h] => current'[g] = 0
                                        /\ partial'[g] = partial'[h] => partial'[g] = 0
    <3>1. ASSUME NEW g \in Files \ {f}, NEW h \in Files \ {f}, g # h
          PROVE  /\ current[g] = current[h] => current[g] = 0
                 /\ partial[g] = partial[h] => partial[g] = 0
      BY <1>1, <3>1 DEF Separate
    <3>2. \A g \in Files \ {f} : current'[g] = current[g] /\ partial'[g] = partial[g]
      BY <1>6, <1>7
    <3>. QED  BY <3>1, <3>2
  <2>5. \A g, h \in Files : g # h => /\ current'[g] = current'[h] => current'[g] = 0
                                     /\ partial'[g] = partial'[h] => partial'[g] = 0
    BY <1>2, <2>1, <2>4
  <2>6. \A g \in Files, n \in Targets : final'[n] = partial'[g] => partial'[g] = 0
    BY <1>2, <2>2, <2>3
  <2>. QED  BY <2>5, <2>6 DEF Separate
<1>12. Built(f, 0, 0)'
  <2>1. Pre(f, 0) = <<>> /\ Pre(f, 0)' = Pre(f, 0)
    BY OneChunkMore DEF Pre
  <2>2. current'[f] # 0 /\ contexts'[current'[f]] = <<>>
    BY <1>5, <1>6
  <2>. QED  BY <1>7, <2>1, <2>2 DEF Built
<1>13. \A g \in Files : ~Busy(g)'
  BY <1>4 DEF Busy
<1>14. Received'
  <2>1. \A g \in Files \ {f} : current'[g] # 0 => \E h \in 0 .. Chunks : Built(g, h, h)'
    BY <1>2, <1>6, <1>10, OthersReceived
  <2>2. 0 \in 0 .. Chunks
    BY TransferAssumption
  <2>3. \A g \in Files : current'[g] # 0 => \E h \in 0 .. Chunks : Built(g, h, h)'
    BY <1>12, <2>1, <2>2
  <2>. QED  BY <1>4, <2>3 DEF Received
<1>15. \A g \in Files, s \in Nat : Here(g, s) => Here(g, s)'
  <2>1. \A c \in 1 .. Len(contexts) \ {current[f]} : contexts'[c] = contexts[c]
    BY <1>6
  <2>2. \A g \in Files \ {f} : current[g] = current[f] => current[g] = 0
    BY <1>2
  <2>3. \A g \in Files \ {f}, s \in Nat : Here(g, s) => Here(g, s)'
    BY <1>1, <1>2, <1>4, <1>6, <2>1, <2>2, OthersHere
  <2>4. ASSUME NEW s \in Nat, Here(f, s) PROVE Here(f, s)'
    <3>1. s = 0
      BY <1>2, <2>4 DEF Here, Busy
    <3>2. Len(contexts'[current'[f]]) = 0
      BY <1>5, <1>6
    <3>. QED  BY <1>13, <3>1, <3>2 DEF Here
  <2>. HIDE DEF Here
  <2>. QED  BY <2>3, <2>4
<1>16. Streamed' /\ Counted' /\ Truthful'
  <2>. DEFINE x == [file |-> f, ok |-> FALSE, match |-> FALSE]
  <2>1. x \in Done /\ (x.ok /\ x.match => x.file \in Saved)
    BY DEF Done
  <2>2. Now'.step # "replacing"
    BY <1>4
  <2>. HIDE DEF x, Here
  <2>. QED  BY <1>3, <1>9, <1>10, <1>15, <2>1, <2>2, WorkAside
<1>. QED  BY <1>9, <1>10, <1>11, <1>14, <1>16 DEF FInv

\* A chunk is written.
LEMMA WriteKeeps ==
    ASSUME Overlap = 1, FInv, NEW t \in Tasks, Write(t)
    PROVE  FInv' /\ Saved' = Saved
<1>1. t = 1 /\ FilesTypeOK /\ Separate
  BY OneTask DEF FInv
<1>2. PICK f \in Files : f = Now.file /\ Now # Free /\ Now.step = "writing" /\ task[t] = Now
  BY <1>1, OneTask DEF Write, Now, Free
<1>3. PICK q \in 0 .. Chunks - 1 : q = Now.seq
  BY <1>1, <1>2, OneTask
<1>4. Built(f, q, q) /\ Now.ctx = current[f] /\ Now.node = partial[f]
  BY <1>2, <1>3 DEF FInv, Received
<1>. DEFINE r == [Now EXCEPT !.step = "written"]
<1>5. /\ UNCHANGED <<open, toR, toS, sender, contexts, current, partial, final>> /\ Goes(1, r)
      /\ disk' = [disk EXCEPT ![partial[f]] = Append(disk[partial[f]], <<f, q>>)]
  BY <1>1, <1>2, <1>3, <1>4 DEF Write
<1>6. Now' = r /\ task' \in [Tasks -> Task'] /\ Now'.step = "written" /\ Now'.file = f
      /\ Now'.seq = q /\ Now'.ctx = current[f] /\ Now' # Free
  <2>1. Len(disk') = Len(disk)
    BY <1>1, <1>5 DEF FilesTypeOK
  <2>2. Now \in [step : {"opening", "writing", "written"}, file : Files,
                 seq : 0 .. Chunks - 1, ctx : 1 .. Len(contexts), node : 0 .. Len(disk)]
    BY <1>1, <1>2, OneTask DEF Task, Free
  <2>3. r \in [step : {"opening", "writing", "written"}, file : Files,
                 seq : 0 .. Chunks - 1, ctx : 1 .. Len(contexts), node : 0 .. Len(disk)]
        /\ r.step = "written" /\ r.file = f /\ r.seq = q /\ r.ctx = current[f]
    BY <1>2, <1>3, <1>4, <2>2
  <2>4. r \in Task'
    BY <1>5, <2>1, <2>3 DEF Task
  <2>. HIDE DEF r
  <2>5. Now' = r /\ task' \in [Tasks -> Task']
    BY <1>1, <1>5, <2>4, TaskGoes
  <2>. QED  BY <2>3, <2>5 DEF Free
<1>. HIDE DEF r
<1>7. /\ contexts \in Seq(ReceiveContext) /\ disk \in Seq(Seq(Chunk)) /\ Len(contexts) \in Nat /\ Len(disk) \in Nat
      /\ current \in [Files -> 0 .. Len(contexts)] /\ partial \in [Files -> 0 .. Len(disk)]
      /\ final \in [Targets -> 0 .. Len(disk)] /\ toS \in Seq(Done)
      /\ partial[f] \in 1 .. Len(disk)
  <2>1. partial \in [Files -> 0 .. Len(disk)] /\ Len(disk) \in Nat
    BY <1>1, Frames DEF FilesTypeOK
  <2>2. partial[f] \in 1 .. Len(disk)
    BY <1>2, <1>4, <2>1 DEF Built
  <2>. QED  BY <1>1, <2>1, <2>2, Frames DEF FilesTypeOK
<1>8. /\ Append(disk[partial[f]], <<f, q>>) = Pre(f, q + 1) /\ q \in Nat /\ q + 1 \in Nat /\ q + 1 <= Chunks
      /\ Pre(f, q + 1) \in Seq(Chunk)
  <2>1. q \in Nat /\ q + 1 \in Nat /\ q + 1 <= Chunks
    BY TransferAssumption
  <2>2. Append(Pre(f, q), <<f, q>>) = Pre(f, q + 1) /\ Pre(f, q + 1) \in Seq(Chunk)
    BY <2>1, OneChunkMore
  <2>. QED  BY <1>4, <2>1, <2>2 DEF Built
<1>9. /\ disk' \in Seq(Seq(Chunk)) /\ Len(disk') = Len(disk) /\ disk'[partial[f]] = Pre(f, q + 1)
      /\ \A n \in 1 .. Len(disk) \ {partial[f]} : disk'[n] = disk[n]
  <2>1. disk' = [disk EXCEPT ![partial[f]] = Pre(f, q + 1)] /\ DOMAIN disk = 1 .. Len(disk)
    <3>1. disk' = [disk EXCEPT ![partial[f]] = Append(disk[partial[f]], <<f, q>>)]
      BY <1>5
    <3>2. Append(disk[partial[f]], <<f, q>>) = Pre(f, q + 1)
      BY <1>8
    <3>3. disk' = [disk EXCEPT ![partial[f]] = Pre(f, q + 1)]
      BY <3>1, <3>2, Zenon
    <3>. QED  BY <1>7, <3>3
  <2>2. disk' \in Seq(Seq(Chunk)) /\ Len(disk') = Len(disk)
    BY <1>7, <1>8, <2>1, ExceptSeq
  <2>. QED  BY <1>7, <2>1, <2>2
<1>10. FilesTypeOK'
  BY <1>1, <1>5, <1>6, <1>7, <1>9, WorkTypes
<1>11. Saved' = Saved /\ SavedIsWhole'
       /\ \A g \in Files \ {f}, h \in Nat, d \in Nat : Built(g, h, d) => Built(g, h, d)'
  <2>1. /\ \A c \in 1 .. Len(contexts) \ {current[f]} : contexts'[c] = contexts[c]
        /\ \A g \in Files \ {f} : current'[g] = current[g] /\ partial'[g] = partial[g]
    BY <1>5
  <2>. QED  BY <1>5, <1>9, <2>1, OthersKept
<1>12. Separate'
  BY <1>1, <1>5 DEF Separate
<1>13. Built(f, q, q + 1)'
  BY <1>4, <1>5, <1>9 DEF Built, Pre
<1>14. Received'
  <2>1. \A g \in Files \ {f} : current'[g] # 0 => \E h \in 0 .. Chunks : Built(g, h, h)'
    BY <1>2, <1>5, <1>11, OthersReceived
  <2>2. \A g \in Files : ~Busy(g)' => g # f
    BY <1>6 DEF Busy
  <2>. QED  BY <1>5, <1>6, <1>13, <2>1, <2>2 DEF Received
<1>15. \A g \in Files, s \in Nat : Here(g, s) => Here(g, s)'
  <2>1. /\ \A c \in 1 .. Len(contexts) \ {current[f]} : contexts'[c] = contexts[c]
        /\ \A g \in Files \ {f} : current[g] = current[f] => current[g] = 0
        /\ \A g \in Files \ {f} : current'[g] = current[g]
    BY <1>1, <1>5 DEF Separate
  <2>2. \A g \in Files \ {f}, s \in Nat : Here(g, s) => Here(g, s)'
    BY <1>1, <1>2, <1>6, <2>1, OthersHere
  <2>3. ASSUME NEW s \in Nat, Here(f, s) PROVE Here(f, s)'
    BY <1>2, <1>3, <1>6, <2>3 DEF Here, Busy
  <2>. HIDE DEF Here
  <2>. QED  BY <2>2, <2>3
<1>16. Streamed' /\ Counted' /\ Truthful'
  <2>. DEFINE x == [file |-> f, ok |-> FALSE, match |-> FALSE]
  <2>1. x \in Done /\ (x.ok /\ x.match => x.file \in Saved)
    BY DEF Done
  <2>2. Now'.step # "replacing"
    BY <1>6
  <2>. HIDE DEF x, Here
  <2>. QED  BY <1>5, <1>10, <1>11, <1>15, <2>1, <2>2, WorkAside
<1>. QED  BY <1>10, <1>11, <1>12, <1>14, <1>16 DEF FInv

\* A chunk is hashed.
LEMMA HashKeeps ==
    ASSUME Overlap = 1, FInv, NEW t \in Tasks, Hash(t)
    PROVE  FInv' /\ Saved' = Saved
<1>1. t = 1 /\ FilesTypeOK /\ Separate
  BY OneTask DEF FInv
<1>2. PICK f \in Files : f = Now.file /\ Now # Free /\ Now.step = "written" /\ task[t] = Now
  BY <1>1, OneTask DEF Hash, Now, Free
<1>3. PICK q \in 0 .. Chunks - 1 : q = Now.seq
  BY <1>1, <1>2, OneTask
<1>4. Built(f, q, q + 1) /\ Now.ctx = current[f]
  BY <1>2, <1>3 DEF FInv, Received
<1>5. /\ UNCHANGED <<open, toR, toS, sender, current, disk, partial, final>> /\ Ends(1)
      /\ contexts' = [contexts EXCEPT ![current[f]] = Append(contexts[current[f]], <<f, q>>)]
  BY <1>1, <1>2, <1>3, <1>4 DEF Hash
<1>6. Now' = Free /\ task' \in [Tasks -> Task'] /\ Now'.step = "free"
  BY <1>1, <1>5, TaskEnds
<1>7. /\ contexts \in Seq(ReceiveContext) /\ disk \in Seq(Seq(Chunk)) /\ Len(contexts) \in Nat /\ Len(disk) \in Nat
      /\ current \in [Files -> 0 .. Len(contexts)] /\ partial \in [Files -> 0 .. Len(disk)]
      /\ final \in [Targets -> 0 .. Len(disk)] /\ toS \in Seq(Done)
      /\ current[f] \in 1 .. Len(contexts)
  <2>1. current \in [Files -> 0 .. Len(contexts)] /\ Len(contexts) \in Nat
    BY <1>1, Frames DEF FilesTypeOK
  <2>2. current[f] \in 1 .. Len(contexts)
    BY <1>2, <1>4, <2>1 DEF Built
  <2>. QED  BY <1>1, <2>1, <2>2, Frames DEF FilesTypeOK
<1>8. /\ Append(contexts[current[f]], <<f, q>>) = Pre(f, q + 1) /\ q \in Nat /\ q + 1 \in 0 .. Chunks
      /\ Pre(f, q + 1) \in ReceiveContext /\ Len(Pre(f, q + 1)) = q + 1
  <2>1. q \in Nat /\ q + 1 \in Nat /\ q + 1 <= Chunks /\ Chunks \in Nat
    BY TransferAssumption
  <2>2. Append(Pre(f, q), <<f, q>>) = Pre(f, q + 1) /\ Pre(f, q + 1) \in Seq(Chunk) /\ Len(Pre(f, q + 1)) = q + 1
    BY <2>1, OneChunkMore
  <2>. QED  BY <1>4, <2>1, <2>2 DEF Built, ReceiveContext
<1>9. /\ contexts' \in Seq(ReceiveContext) /\ Len(contexts') = Len(contexts) /\ contexts'[current[f]] = Pre(f, q + 1)
      /\ \A c \in 1 .. Len(contexts) \ {current[f]} : contexts'[c] = contexts[c]
  <2>1. contexts' = [contexts EXCEPT ![current[f]] = Pre(f, q + 1)] /\ DOMAIN contexts = 1 .. Len(contexts)
    <3>1. contexts' = [contexts EXCEPT ![current[f]] = Append(contexts[current[f]], <<f, q>>)]
      BY <1>5
    <3>2. Append(contexts[current[f]], <<f, q>>) = Pre(f, q + 1)
      BY <1>8
    <3>3. contexts' = [contexts EXCEPT ![current[f]] = Pre(f, q + 1)]
      BY <3>1, <3>2, Zenon
    <3>. QED  BY <1>7, <3>3
  <2>2. contexts' \in Seq(ReceiveContext) /\ Len(contexts') = Len(contexts)
    BY <1>7, <1>8, <2>1, ExceptSeq
  <2>. QED  BY <1>7, <2>1, <2>2
<1>10. FilesTypeOK'
  BY <1>1, <1>5, <1>6, <1>7, <1>9, WorkTypes
<1>11. Saved' = Saved /\ SavedIsWhole'
       /\ \A g \in Files \ {f}, h \in Nat, d \in Nat : Built(g, h, d) => Built(g, h, d)'
  <2>1. /\ \A n \in 1 .. Len(disk) \ {partial[f]} : disk'[n] = disk[n]
        /\ \A g \in Files \ {f} : current'[g] = current[g] /\ partial'[g] = partial[g]
    BY <1>5
  <2>. QED  BY <1>5, <1>9, <2>1, OthersKept
<1>12. Separate'
  BY <1>1, <1>5 DEF Separate
<1>13. Built(f, q + 1, q + 1)'
  BY <1>4, <1>5, <1>9 DEF Built, Pre
<1>14. Received'
  <2>1. \A g \in Files \ {f} : current'[g] # 0 => \E h \in 0 .. Chunks : Built(g, h, h)'
    BY <1>2, <1>5, <1>11, OthersReceived
  <2>2. \A g \in Files : current'[g] # 0 => \E h \in 0 .. Chunks : Built(g, h, h)'
    BY <1>8, <1>13, <2>1
  <2>. QED  BY <1>6, <2>2 DEF Received
<1>15. \A g \in Files, s \in Nat : Here(g, s) => Here(g, s)'
  <2>1. /\ \A g \in Files \ {f} : current[g] = current[f] => current[g] = 0
        /\ \A g \in Files \ {f} : current'[g] = current[g]
    BY <1>1, <1>5 DEF Separate
  <2>2. \A g \in Files \ {f}, s \in Nat : Here(g, s) => Here(g, s)'
    BY <1>1, <1>2, <1>6, <1>9, <2>1, OthersHere
  <2>3. ASSUME NEW s \in Nat, Here(f, s) PROVE Here(f, s)'
    <3>1. s = q + 1
      BY <1>2, <1>3, <2>3 DEF Here, Busy
    <3>2. Len(contexts'[current'[f]]) = q + 1
      BY <1>5, <1>8, <1>9
    <3>. QED  BY <1>6, <3>1, <3>2 DEF Here, Busy
  <2>. HIDE DEF Here
  <2>. QED  BY <2>2, <2>3
<1>16. Streamed' /\ Counted' /\ Truthful'
  <2>. DEFINE x == [file |-> f, ok |-> FALSE, match |-> FALSE]
  <2>1. x \in Done /\ (x.ok /\ x.match => x.file \in Saved)
    BY DEF Done
  <2>2. Now'.step # "replacing"
    BY <1>6
  <2>. HIDE DEF x, Here
  <2>. QED  BY <1>5, <1>10, <1>11, <1>15, <2>1, <2>2, WorkAside
<1>. QED  BY <1>10, <1>11, <1>12, <1>14, <1>16 DEF FInv

\* A whole file gets the first name that is free.
LEMMA RenameKeeps ==
    ASSUME Overlap = 1, FInv, NEW t \in Tasks, Rename(t)
    PROVE  FInv' /\ \E f \in Files : Saved' = Saved \cup {f}
<1>1. t = 1 /\ FilesTypeOK /\ Separate /\ SavedIsWhole /\ Streamed /\ Received /\ Truthful
  BY OneTask DEF FInv
<1>2. PICK f \in Files : f = Now.file /\ Now # Free /\ Now.step = "replacing" /\ task[t] = Now
  BY <1>1, OneTask DEF Rename, Now, Free
<1>3. Built(f, Chunks, Chunks) /\ partial[f] # 0
  BY <1>1, <1>2 DEF Received, Built
<1>4. PICK k \in 0 .. MaxSends : Room(k)
  BY DEF FInv, Counted
<1>5. Now.target = k + 1 /\ k + 1 \in Targets /\ final[k + 1] = 0 /\ k \in Nat
  <2>1. Now.target = k + 1 /\ Now.target \in Targets /\ {n \in Targets : final[n] # 0} = 1 .. k
    BY <1>1, <1>2, <1>4, OneTask DEF Room
  <2>2. k + 1 \notin 1 .. k
    OBVIOUS
  <2>. QED  BY <2>1, <2>2
<1>. DEFINE r == [Now EXCEPT !.step = "renamed"]
<1>6. /\ UNCHANGED <<open, toR, toS, sender, contexts, current, disk>> /\ Goes(1, r)
      /\ final' = [final EXCEPT ![k + 1] = partial[f]]
      /\ partial' = [partial EXCEPT ![f] = 0]
  BY <1>1, <1>2, <1>5 DEF Rename
<1>7. Now' = r /\ task' \in [Tasks -> Task'] /\ Now'.step = "renamed" /\ Now'.file = f /\ Now' # Free
  <2>1. Now \in [step : {"replacing", "renamed", "unrenamed"}, file : Files,
                 match : BOOLEAN, target : Targets]
    BY <1>1, <1>2, OneTask DEF Task, Free
  <2>2. r \in [step : {"replacing", "renamed", "unrenamed"}, file : Files,
               match : BOOLEAN, target : Targets]
        /\ r.step = "renamed" /\ r.file = f
    BY <1>2, <2>1
  <2>3. r \in Task'
    BY <2>2 DEF Task
  <2>. HIDE DEF r
  <2>4. Now' = r /\ task' \in [Tasks -> Task']
    BY <1>1, <1>6, <2>3, TaskGoes
  <2>. QED  BY <2>2, <2>4 DEF Free
<1>. HIDE DEF r
<1>8. /\ contexts \in Seq(ReceiveContext) /\ disk \in Seq(Seq(Chunk)) /\ Len(contexts) \in Nat /\ Len(disk) \in Nat
      /\ current \in [Files -> 0 .. Len(contexts)] /\ partial \in [Files -> 0 .. Len(disk)]
      /\ final \in [Targets -> 0 .. Len(disk)] /\ toS \in Seq(Done)
      /\ partial[f] \in 0 .. Len(disk)
  BY <1>1, Frames DEF FilesTypeOK
<1>9. /\ final' \in [Targets -> 0 .. Len(disk)] /\ partial' \in [Files -> 0 .. Len(disk)]
      /\ final'[k + 1] = partial[f] /\ \A n \in Targets : n # k + 1 => final'[n] = final[n]
      /\ partial'[f] = 0 /\ \A g \in Files \ {f} : partial'[g] = partial[g]
  BY <1>5, <1>6, <1>8
<1>10. FilesTypeOK'
  BY <1>1, <1>6, <1>7, <1>8, <1>9, WorkTypes
<1>11. disk[partial[f]] = Whole(f) /\ Whole(f)' = Whole(f)
  <2>1. Pre(f, Chunks) = Whole(f)
    BY OneChunkMore, TransferAssumption
  <2>. QED  BY <1>3, <2>1 DEF Built, Whole
<1>12. Saved' = Saved \cup {f}
  <2>1. ASSUME NEW g \in Files
        PROVE  (\E n \in Targets : final'[n] # 0 /\ disk'[final'[n]] = Whole(g)')
                 <=> (g = f \/ \E n \in Targets : final[n] # 0 /\ disk[final[n]] = Whole(g))
    <3>1. Whole(g)' = Whole(g) /\ disk' = disk
      BY <1>6 DEF Whole
    <3>2. g # f => Whole(g) # Whole(f)
      <4>1. 1 \in 1 .. Chunks
        BY TransferAssumption
      <4>2. Whole(g)[1] = <<g, 0>> /\ Whole(f)[1] = <<f, 0>>
        BY <4>1 DEF Whole
      <4>. QED  BY <4>2
    <3>3. CASE g = f
      BY <1>3, <1>5, <1>9, <1>11, <3>1, <3>3
    <3>4. CASE g # f
      <4>1. ASSUME NEW n \in Targets
            PROVE  (final'[n] # 0 /\ disk[final'[n]] = Whole(g))
                      <=> (final[n] # 0 /\ disk[final[n]] = Whole(g))
        BY <1>5, <1>9, <1>11, <3>2, <3>4
      <4>. QED  BY <3>1, <3>4, <4>1
    <3>. QED  BY <3>3, <3>4
  <2>. QED  BY <1>2, <2>1 DEF Saved
<1>13. SavedIsWhole'
  <2>1. ASSUME NEW n \in Targets, final'[n] # 0
        PROVE  \E g \in Files : disk'[final'[n]] = Whole(g)'
    <3>1. CASE n = k + 1
      BY <1>2, <1>6, <1>9, <1>11, <3>1
    <3>2. CASE n # k + 1
      <4>1. PICK g \in Files : disk[final[n]] = Whole(g)
        BY <1>1, <1>9, <2>1, <3>2 DEF SavedIsWhole
      <4>2. Whole(g)' = Whole(g)
        BY DEF Whole
      <4>. QED  BY <1>6, <1>9, <3>2, <4>1, <4>2
    <3>. QED  BY <3>1, <3>2
  <2>. QED  BY <2>1 DEF SavedIsWhole
<1>14. Separate'
  <2>1. \A g, h \in Files : g # h => /\ current[g] = current[h] => current[g] = 0
                                     /\ partial[g] = partial[h] => partial[g] = 0
    BY <1>1 DEF Separate
  <2>2. \A g \in Files, n \in Targets : final[n] = partial[g] => partial[g] = 0
    BY <1>1 DEF Separate
  <2>3. ASSUME NEW g \in Files, NEW h \in Files, g # h
        PROVE  partial'[g] = partial'[h] => partial'[g] = 0
    BY <1>9, <2>1, <2>3
  <2>4. ASSUME NEW g \in Files, NEW n \in Targets, final'[n] = partial'[g]
        PROVE  partial'[g] = 0
    <3>1. CASE g = f
      BY <1>9, <3>1
    <3>2. CASE g # f /\ n = k + 1
      <4>1. partial[f] = partial[g]
        BY <1>9, <2>4, <3>2
      <4>. QED  BY <1>3, <2>1, <3>2, <4>1
    <3>3. CASE g # f /\ n # k + 1
      BY <1>9, <2>2, <2>4, <3>3
    <3>. QED  BY <3>1, <3>2, <3>3
  <2>. QED  BY <1>6, <2>1, <2>3, <2>4 DEF Separate
<1>15. Received'
  <2>1. ASSUME NEW g \in Files, current'[g] # 0, ~Busy(g)'
        PROVE  \E h \in 0 .. Chunks : Built(g, h, h)'
    <3>1. g # f
      BY <1>7, <2>1 DEF Busy
    <3>2. current[g] # 0 /\ ~Busy(g)
      BY <1>2, <1>6, <2>1, <3>1 DEF Busy
    <3>3. PICK h \in 0 .. Chunks : Built(g, h, h)
      BY <1>1, <3>2 DEF Received
    <3>4. Built(g, h, h)'
      BY <1>6, <1>9, <3>1, <3>3 DEF Built, Pre
    <3>. QED  BY <3>4, TransferAssumption
  <2>2. Now'.file \in Saved'
    BY <1>7, <1>12
  <2>. QED  BY <1>7, <2>1, <2>2 DEF Received
<1>16. Streamed'
  <2>1. ASSUME NEW g \in Files, NEW s \in Nat, Here(g, s) PROVE Here(g, s)'
    <3>1. CASE g = f
      BY <1>7, <3>1 DEF Here, Busy
    <3>2. CASE g # f
      BY <1>2, <1>6, <1>7, <2>1, <3>2 DEF Here, Busy
    <3>. QED  BY <3>1, <3>2
  <2>2. \A g \in Files : \/ sending'[g] = "idle"
                         \/ /\ pos'[g] = pos[g] /\ sending[g] # "idle"
                            /\ sending'[g] = "waiting" => pos[g] < Chunks
    BY <1>1, <1>6 DEF sender, Streamed
  <2>. HIDE DEF Here
  <2>. QED  BY <1>1, <1>6, <2>1, <2>2, SameFrames
<1>17. Counted'
  <2>1. Ending' = Ending /\ Streams' = Streams /\ sends' = sends
    BY <1>6 DEF Ending, Streams, sender
  <2>2. IsFiniteSet(Streams) /\ IsFiniteSet(Ending)
    <3>1. Len(toR) \in Nat /\ Ending \subseteq 1 .. Len(toR)
      BY <1>1, Frames DEF Ending
    <3>. QED  BY <3>1, FiniteIndices DEF FInv, Counted
  <2>3. Cardinality(Streams) \in Nat /\ Cardinality(Ending) \in Nat /\ sends \in Nat /\ sends <= MaxSends
    BY <1>1, <2>2, FS_CardinalityType, TransferAssumption DEF FilesTypeOK
  <2>4. k + Cardinality(Ending) + Cardinality(Streams) + 1 <= sends
    BY <1>2, <1>4 DEF Room
  <2>5. {n \in Targets : final[n] # 0} = 1 .. k
    BY <1>4 DEF Room
  <2>6. {n \in Targets : final'[n] # 0} = 1 .. k + 1
    <3>1. ASSUME NEW n PROVE n \in Targets /\ final'[n] # 0 <=> n \in 1 .. k + 1
      <4>1. n \in 1 .. k + 1 <=> n \in 1 .. k \/ n = k + 1
        BY <1>5
      <4>2. n \in Targets /\ final[n] # 0 <=> n \in 1 .. k
        BY <2>5
      <4>. QED  BY <1>3, <1>5, <1>9, <4>1, <4>2
    <3>. QED  BY <3>1
  <2>7. k + 1 \in 0 .. MaxSends
    BY <1>5, <2>3, <2>4, TransferAssumption DEF Targets
  <2>8. Targets' = Targets
    BY DEF Targets
  <2>9. PICK j \in 0 .. MaxSends : j = k + 1
    BY <2>7
  <2>10. Room(j)'
    BY <1>5, <1>7, <2>1, <2>3, <2>4, <2>6, <2>8, <2>9 DEF Room
  <2>. QED  BY <2>1, <2>2, <2>10 DEF Counted
<1>18. Truthful'
  BY <1>1, <1>6, <1>12 DEF Truthful
<1>. QED  BY <1>2, <1>10, <1>12, <1>13, <1>14, <1>15, <1>16, <1>17, <1>18 DEF FInv

-----------------------------------------------------------------------------
\* Before the first frame nothing is on its way, filed or saved.
LEMMA InitFInv == FileInit => FInv
<1>1. SUFFICES ASSUME FileInit PROVE FInv
  OBVIOUS
<1>2. toR = <<>> /\ toS = <<>> /\ contexts = <<>> /\ disk = <<>>
      /\ Len(toR) = 0 /\ Len(toS) = 0 /\ Len(contexts) = 0 /\ Len(disk) = 0
  BY <1>1 DEF FileInit
<1>3. /\ \A f \in Files : sending[f] = "idle" /\ current[f] = 0 /\ partial[f] = 0
      /\ \A n \in Targets : final[n] = 0
      /\ Now = Free
  BY <1>1, TransferAssumption DEF FileInit, Now, Tasks
<1>4. FilesTypeOK
  <2>1. /\ toR \in Seq(Frame) /\ toS \in Seq(Done) /\ contexts \in Seq(ReceiveContext)
        /\ disk \in Seq(Seq(Chunk))
    BY <1>2
  <2>2. Free \in Task /\ 0 \in 0 .. Len(contexts) /\ 0 \in 0 .. Len(disk) /\ 0 \in 0 .. MaxSends /\ 0 \in 0 .. Chunks
    BY <1>2, TransferAssumption DEF Task
  <2>. QED  BY <1>1, <2>1, <2>2 DEF FileInit, FilesTypeOK
<1>5. Streamed /\ Truthful
  BY <1>2, <1>3 DEF Streamed, Truthful
<1>6. Received
  BY <1>3 DEF Received, Free
<1>7. Separate /\ SavedIsWhole
  BY <1>3 DEF Separate, SavedIsWhole
<1>8. Counted
  <2>1. Streams = {} /\ Ending = {}
    BY <1>2, <1>3 DEF Streams, Ending
  <2>2. IsFiniteSet({}) /\ Cardinality({}) = 0
    BY FS_EmptySet
  <2>3. {n \in Targets : final[n] # 0} = 1 .. 0
    BY <1>3
  <2>4. sends = 0 /\ Now.step = "free" /\ 0 \in 0 .. MaxSends
    BY <1>1, <1>3, TransferAssumption DEF FileInit, Free
  <2>5. Room(0)
    BY <2>1, <2>2, <2>3, <2>4 DEF Room
  <2>. QED  BY <2>1, <2>2, <2>4, <2>5 DEF Counted
<1>. QED  BY <1>4, <1>5, <1>6, <1>7, <1>8 DEF FInv

\* Every step of sender, channel and receiver keeps the invariant.
LEMMA NextFInv == Overlap = 1 /\ FInv /\ [FileNext]_transferVars => FInv'
<1>1. SUFFICES ASSUME Overlap = 1, FInv, [FileNext]_transferVars
               PROVE  FInv'
  OBVIOUS
<1>2. ASSUME NEW f \in Files, Send(f) PROVE FInv'
  BY <1>1, <1>2, SendKeeps
<1>3. ASSUME NEW f \in Files, NextChunk(f) PROVE FInv'
  BY <1>1, <1>3, PutChunkKeeps DEF NextChunk
<1>4. ASSUME NEW f \in Files, Resume(f) PROVE FInv'
  BY <1>1, <1>4, PutChunkKeeps DEF Resume, FInv, Streamed
<1>5. ASSUME NEW f \in Files, SendEnd(f) PROVE FInv'
  BY <1>1, <1>5, SendEndKeeps
<1>6. CASE (\E f \in Files : Wait(f) \/ Cancel(f)) \/ RecvDone \/ Close
  BY <1>1, <1>6, QuietKeeps
<1>7. ASSUME NEW t \in Tasks, Deliver(t) PROVE FInv'
  BY <1>1, <1>7, DeliverKeeps
<1>8. ASSUME NEW t \in Tasks, Working(t) PROVE FInv'
  BY <1>1, <1>8, IdleWorkKeeps, CreateKeeps, WriteKeeps, HashKeeps, RenameKeeps DEF Working
<1>9. CASE UNCHANGED transferVars
  <2>1. UNCHANGED receiver /\ toR' = toR /\ toS' = toS /\ UNCHANGED sender /\ open' = open
    BY <1>9 DEF transferVars, receiver, sender
  <2>2. FilesTypeOK'
    BY <1>1, <2>1 DEF FInv, FilesTypeOK, receiver, sender, Task
  <2>3. \A f \in Files, s \in Nat : Here(f, s) => Here(f, s)'
    BY <1>1, <2>1, ReceiverAside
  <2>4. \A f \in Files : \/ sending'[f] = "idle"
                         \/ /\ pos'[f] = pos[f] /\ sending[f] # "idle"
                            /\ sending'[f] = "waiting" => pos[f] < Chunks
    BY <1>1, <2>1 DEF sender, FInv, Streamed
  <2>5. Streamed'
    <3>. HIDE DEF Here
    <3>. QED  BY <1>1, <2>1, <2>3, <2>4, SameFrames DEF FInv
  <2>6. Truthful' /\ Counted'
    BY <1>1, <2>1 DEF FInv, Truthful, Saved, Whole, Counted, Room, Ending, Streams, Targets, Now, receiver, sender
  <2>. QED  BY <1>1, <2>1, <2>2, <2>5, <2>6, SenderStep
<1>. QED  BY <1>1, <1>2, <1>3, <1>4, <1>5, <1>6, <1>7, <1>8, <1>9 DEF FileNext, Sending

\* The variables of both ends keep their types: no task names a context, a file of
\* the disk or a free name that there is not (FileReceiver._handle_file_end).
THEOREM FilesTyped == Overlap = 1 => (FileSpec => []FilesTypeOK)
<1>1. SUFFICES ASSUME Overlap = 1 PROVE FileSpec => []FilesTypeOK
  OBVIOUS
<1>2. FileInit => FInv
  BY InitFInv
<1>3. FInv /\ [FileNext]_transferVars => FInv'
  BY <1>1, NextFInv
<1>4. FInv => FilesTypeOK
  BY DEF FInv
<1>. QED  BY <1>2, <1>3, <1>4, PTL DEF FileSpec

\* With one message task at a time no torn file gets its final name, whatever was
\* cancelled, sent again, lost or failed before (FileReceiver._handle_file_end).
THEOREM WholeFilesOnly == Overlap = 1 => (FileSpec => []SavedIsWhole)
<1>1. SUFFICES ASSUME Overlap = 1 PROVE FileSpec => []SavedIsWhole
  OBVIOUS
<1>2. FileInit => FInv
  BY InitFInv
<1>3. FInv /\ [FileNext]_transferVars => FInv'
  BY <1>1, NextFInv
<1>4. FInv => SavedIsWhole
  BY DEF FInv
<1>. QED  BY <1>2, <1>3, <1>4, PTL DEF FileSpec

-----------------------------------------------------------------------------
\* At first nothing is saved, and nobody was told anything.
LEMMA PromiseStarts == FileInit => Promise!Init
<1>1. SUFFICES ASSUME FileInit PROVE Promise!Init
  OBVIOUS
<1>2. \A n \in Targets : final[n] = 0
  BY <1>1 DEF FileInit
<1>3. Saved = {}
  BY <1>2 DEF Saved
<1>. QED  BY <1>1, <1>3 DEF FileInit, Promise!Init

\* A step of the sender tells of failure or nothing, or what a FILE_DONE says.
LEMMA TellsTruth ==
    ASSUME FInv, (\E f \in Files : Send(f) \/ Sending(f) \/ Cancel(f)) \/ RecvDone \/ Close
    PROVE  [Promise!Next]_<<Saved, told>>
<1>1. UNCHANGED receiver
  BY DEF Send, Sending, NextChunk, Wait, Resume, PutChunk, SendEnd, Cancel, RecvDone, Close
<1>2. Saved' = Saved
  BY <1>1, ReceiverAside
<1>3. told \in [Files -> {"nothing", "ok", "failed"}]
  BY DEF FInv, FilesTypeOK
<1>4. CASE told' = told
  BY <1>2, <1>4
<1>5. CASE \E f \in Files : told' = [told EXCEPT ![f] = "failed"]
  <2>1. PICK f \in Files : told' = [told EXCEPT ![f] = "failed"]
    BY <1>5
  <2>2. told'[f] # "ok"
    BY <1>3, <2>1
  <2>3. Promise!Tell(f)
    BY <1>2, <2>1, <2>2 DEF Promise!Tell
  <2>. QED  BY <2>3 DEF Promise!Next
<1>6. CASE RecvDone
  <2>1. PICK m \in Done, r \in {"ok", "failed"} :
           /\ told' = [told EXCEPT ![m.file] = r]
           /\ r = "ok" => m.file \in Saved
    <3>1. toS # <<>> /\ toS \in Seq(Done)
      BY <1>6 DEF RecvDone, FInv, FilesTypeOK
    <3>2. Head(toS) \in Done /\ 1 \in 1 .. Len(toS) /\ Head(toS) = toS[1]
      BY <3>1
    <3>3. toS[1].ok /\ toS[1].match => toS[1].file \in Saved
      BY <3>2 DEF FInv, Truthful
    <3>. DEFINE r == IF Head(toS).ok /\ Head(toS).match THEN "ok" ELSE "failed"
    <3>4. told' = [told EXCEPT ![Head(toS).file] = r]
      BY <1>6 DEF RecvDone
    <3>5. r \in {"ok", "failed"} /\ (r = "ok" => Head(toS).file \in Saved)
      BY <3>2, <3>3
    <3>. HIDE DEF r
    <3>. QED  BY <3>2, <3>4, <3>5
  <2>2. m.file \in Files
    BY <2>1 DEF Done
  <2>3. told'[m.file] = "ok" => m.file \in Saved
    BY <1>3, <2>1, <2>2
  <2>4. Promise!Tell(m.file)
    BY <1>2, <2>1, <2>3 DEF Promise!Tell
  <2>. QED  BY <2>2, <2>4 DEF Promise!Next
<1>7. CASE (\E f \in Files : Send(f) \/ Sending(f) \/ Cancel(f)) \/ Close
  <2>1. told' = told \/ \E f \in Files : told' = [told EXCEPT ![f] = "failed"]
    BY <1>7 DEF Send, Sending, NextChunk, Wait, Resume, PutChunk, SendEnd, Cancel, Close, Fail, sender
  <2>. QED  BY <1>4, <1>5, <2>1
<1>. QED  BY <1>6, <1>7

\* Every step of the transfer saves a file, tells the sender the truth, or does
\* nothing that Delivery speaks of.
LEMMA PromiseGoesOn ==
    Overlap = 1 /\ FInv /\ [FileNext]_transferVars => [Promise!Next]_<<Saved, told>>
<1>1. SUFFICES ASSUME Overlap = 1, FInv, [FileNext]_transferVars
               PROVE  [Promise!Next]_<<Saved, told>>
  OBVIOUS
<1>2. CASE (\E f \in Files : Send(f) \/ Sending(f) \/ Cancel(f)) \/ RecvDone \/ Close
  BY <1>1, <1>2, TellsTruth
<1>3. ASSUME NEW t \in Tasks, Deliver(t) PROVE Saved' = Saved /\ told' = told
  BY <1>3 DEF Deliver, OnTextMessage, TakeMeta, TakeChunk, TakeEnd, Saved, Whole, Targets, sender
<1>4. ASSUME NEW t \in Tasks, Working(t), ~Rename(t) PROVE Saved' = Saved /\ told' = told
  <2>1. Saved' = Saved
    BY <1>1, <1>4, IdleWorkKeeps, CreateKeeps, WriteKeeps, HashKeeps DEF Working
  <2>2. told' = told
    BY <1>4 DEF Working, Discard, Create, CreateFails, Open, Write, Hash, WriteFails, RenameFails, Finish, sender
  <2>. QED  BY <2>1, <2>2
<1>5. ASSUME NEW t \in Tasks, Rename(t) PROVE [Promise!Next]_<<Saved, told>>
  <2>1. PICK f \in Files : Saved' = Saved \cup {f}
    BY <1>1, <1>5, RenameKeeps
  <2>2. told' = told
    BY <1>5 DEF Rename, sender
  <2>3. Promise!Save(f)
    BY <2>1, <2>2 DEF Promise!Save
  <2>. QED  BY <2>3 DEF Promise!Next
<1>6. CASE UNCHANGED transferVars
  BY <1>6 DEF transferVars, Saved, Whole, Targets
<1>. QED  BY <1>1, <1>2, <1>3, <1>4, <1>5, <1>6 DEF FileNext

\* With one message task at a time the transfer implements Delivery: what was saved
\* stays saved, and the sender hears of success only then (FileSender.on_done).
THEOREM PromiseKept == Overlap = 1 => (FileSpec => KeepsPromise)
<1>1. SUFFICES ASSUME Overlap = 1 PROVE FileSpec => KeepsPromise
  OBVIOUS
<1>2. FileInit => FInv /\ Promise!Init
  BY InitFInv, PromiseStarts
<1>3. FInv /\ [FileNext]_transferVars => FInv' /\ [Promise!Next]_<<Saved, told>>
  BY <1>1, NextFInv, PromiseGoesOn
<1>. QED  BY <1>2, <1>3, PTL DEF FileSpec, KeepsPromise, Promise!Spec

-----------------------------------------------------------------------------
(***************************************************************************)
(* Remote sessions.  Whatever the controller aims at, transform_coordinates *)
(* clamps it to the screen of the host, unless the policy cuts it off.     *)
(***************************************************************************)

Points == Int \X Int
InputEvents ==
    [type : {"mouse_move", "mouse_click", "key"}, x : Int, y : Int,
     what : {"none", "left", "key"}, pressed : BOOLEAN]

RemoteInv ==
    /\ platform \in Platforms /\ policy \in Policies /\ mine \in Screens /\ theirs \in Screens
    /\ inputs \in Seq(InputEvents) /\ PointerOnScreen

\* int() of a quotient is an integer.
LEMMA CutIsInt ==
    ASSUME NEW a \in Int, NEW b \in Nat, b # 0
    PROVE  Cut(a, b) \in Int
<1>1. a \div b \in Int /\ (-a) \div b \in Int
  OBVIOUS
<1>. QED  BY <1>1 DEF Cut

\* What max(0, min(a, n - 1)) gives.
LEMMA Clamped ==
    ASSUME NEW a \in Int, NEW n \in Nat, n # 0
    PROVE  Max({0, Min({a, n - 1})}) \in 0 .. n - 1
<1>. DEFINE m == Min({a, n - 1})
<1>1. m \in {a, n - 1} /\ m <= n - 1
  <2>1. \E x \in {a, n - 1} : \A y \in {a, n - 1} : x <= y
    <3>1. CASE a <= n - 1
      BY <3>1
    <3>2. CASE ~(a <= n - 1)
      BY <3>2
    <3>. QED  BY <3>1, <3>2
  <2>. QED  BY <2>1 DEF Min
<1>2. m \in Int
  BY <1>1
<1>. HIDE DEF m
<1>3. Max({0, m}) \in {0, m} /\ Max({0, m}) >= 0
  <2>1. \E x \in {0, m} : \A y \in {0, m} : x >= y
    <3>1. CASE m >= 0
      BY <1>2, <3>1
    <3>2. CASE ~(m >= 0)
      BY <1>2, <3>2
    <3>. QED  BY <3>1, <3>2
  <2>. QED  BY <2>1 DEF Max
<1>4. Max({0, m}) \in 0 .. n - 1
  BY <1>1, <1>2, <1>3
<1>. QED  BY <1>4 DEF m

\* A screen has pixels both ways.
LEMMA ScreenSides ==
    ASSUME NEW s \in Screens
    PROVE  /\ s.width \in Nat /\ s.height \in Nat /\ s.dpi \in Nat
           /\ s.width # 0 /\ s.height # 0
  BY ScreensAssumption DEF RemoteScreenInfo

\* A point of the controller that is not cut off comes out on the screen of the host.
LEMMA TransformStays ==
    ASSUME NEW s \in Screens, NEW t \in Screens, NEW x \in Int, NEW y \in Int, NEW how \in {"letterbox", "stretch"}
    PROVE  TransformCoordinates(s, t, x, y, how) \in (0 .. t.width - 1) \X (0 .. t.height - 1)
<1>1. /\ s.width \in Nat /\ s.height \in Nat /\ t.width \in Nat /\ t.height \in Nat /\ t.dpi \in Nat
      /\ s.width # 0 /\ s.height # 0 /\ t.width # 0 /\ t.height # 0
  BY ScreenSides
<1>2. /\ x * t.width \in Int /\ x * t.height \in Int /\ y * t.width \in Int /\ y * t.height \in Int
      /\ s.height * t.width \in Int /\ s.width * t.height \in Int
  BY <1>1
<1>3. Stretched(s, t, x, y) \in Points
  <2>1. Cut(x * t.width, s.width) \in Int /\ Cut(y * t.height, s.height) \in Int
    BY <1>1, <1>2, CutIsInt
  <2>. QED  BY <2>1 DEF Stretched, Points
<1>4. Letterboxed(s, t, x, y) \in Points
  <2>. DEFINE h == (s.height * t.width) \div s.width
              w == (s.width * t.height) \div s.height
              a == Cut(x * t.width, s.width)   b == Cut(y * t.width, s.width)
              c == Cut(x * t.height, s.height) d == Cut(y * t.height, s.height)
  <2>1. a \in Int /\ b \in Int /\ c \in Int /\ d \in Int
    BY <1>1, <1>2, CutIsInt
  <2>2. h \in Int /\ w \in Int
    BY <1>1, <1>2
  <2>3. Letterboxed(s, t, x, y) \in {<<a, (t.height - h) \div 2 + b>>, <<(t.width - w) \div 2 + c, d>>}
    BY DEF Letterboxed
  <2>. HIDE DEF h, w, a, b, c, d
  <2>4. (t.height - h) \div 2 + b \in Int /\ (t.width - w) \div 2 + c \in Int
    BY <1>1, <2>1, <2>2
  <2>. QED  BY <2>1, <2>3, <2>4 DEF Points
<1>5. PICK p \in Points : TransformCoordinates(s, t, x, y, how) = Clamp(t, ScaleDpi(t, p))
  <2>1. CASE s.width * t.height = t.width * s.height \/ how = "stretch"
    BY <1>3, <2>1 DEF TransformCoordinates
  <2>2. CASE ~(s.width * t.height = t.width * s.height) /\ how = "letterbox"
    BY <1>4, <2>2 DEF TransformCoordinates
  <2>. QED  BY <2>1, <2>2
<1>6. PICK q \in Points : q = ScaleDpi(t, p)
  <2>1. p[1] \in Int /\ p[2] \in Int
    BY <1>5 DEF Points
  <2>2. p[1] * t.dpi \in Int /\ p[2] * t.dpi \in Int
    BY <1>1, <2>1
  <2>3. Cut(p[1] * t.dpi, 96) \in Int /\ Cut(p[2] * t.dpi, 96) \in Int
    BY <2>2, CutIsInt
  <2>. QED  BY <1>5, <2>3 DEF ScaleDpi, Points
<1>7. Clamp(t, q) \in (0 .. t.width - 1) \X (0 .. t.height - 1)
  <2>1. q[1] \in Int /\ q[2] \in Int
    BY <1>6 DEF Points
  <2>2. /\ Max({0, Min({q[1], t.width - 1})}) \in 0 .. t.width - 1
        /\ Max({0, Min({q[2], t.height - 1})}) \in 0 .. t.height - 1
    BY <1>1, <2>1, Clamped
  <2>. QED  BY <2>2 DEF Clamp
<1>. QED  BY <1>5, <1>6, <1>7

\* At first the pointer is in the corner.
LEMMA InitRemote == RemoteInit => RemoteInv
<1>. SUFFICES ASSUME RemoteInit PROVE RemoteInv
  OBVIOUS
<1>1. /\ platform \in Platforms /\ policy \in Policies /\ mine \in Screens /\ theirs \in Screens
      /\ inputs = <<>> /\ pointer = <<0, 0>>
  BY DEF RemoteInit
<1>2. inputs \in Seq(InputEvents)
  BY <1>1
<1>3. PointerOnScreen
  BY <1>1, ScreenSides DEF PointerOnScreen
<1>. QED  BY <1>1, <1>2, <1>3 DEF RemoteInv

\* Steps of the grant and of the capture loops move no pointer.
LEMMA RemoteAside ==
    ASSUME RemoteInv, UNCHANGED <<platform, policy, mine, theirs, inputs, pointer>>
    PROVE  RemoteInv'
  BY DEF RemoteInv, PointerOnScreen

\* The controller sends an event.
LEMMA SendInputKeeps ==
    ASSUME RemoteInv, SendLocalInput
    PROVE  RemoteInv'
<1>1. UNCHANGED <<platform, policy, mine, theirs, pointer>>
  BY DEF SendLocalInput, screenVars
<1>2. PICK e : e \in InputEvents /\ inputs' = Append(inputs, e)
  <2>1. PICK a \in Aims, p \in BOOLEAN :
           \E e \in {Move(a[1], a[2]), Click(a[1], a[2], p), Key(p)} : inputs' = Append(inputs, e)
    BY DEF SendLocalInput
  <2>2. a[1] \in Int /\ a[2] \in Int
    BY <2>1, ScreenSides DEF Aims, RemoteInv
  <2>3. Move(a[1], a[2]) \in InputEvents /\ Click(a[1], a[2], p) \in InputEvents /\ Key(p) \in InputEvents
    BY <2>1, <2>2 DEF Move, Click, Key, InputEvents
  <2>. QED  BY <2>1, <2>3
<1>3. inputs' \in Seq(InputEvents)
  BY <1>2, AppendProperties DEF RemoteInv
<1>. QED  BY <1>1, <1>3 DEF RemoteInv, PointerOnScreen

\* The host takes an event, maps it to its own screen and hands it to its backend.
LEMMA TakeInputKeeps ==
    ASSUME RemoteInv, HandleIncomingInput
    PROVE  RemoteInv'
<1>1. UNCHANGED <<platform, policy, mine, theirs>> /\ inputs # <<>> /\ inputs' = Tail(inputs)
  BY DEF HandleIncomingInput, screenVars
<1>2. Head(inputs) \in InputEvents /\ inputs' \in Seq(InputEvents)
  BY <1>1, HeadTailProperties DEF RemoteInv
<1>3. CASE pointer' = pointer
  BY <1>1, <1>2, <1>3 DEF RemoteInv, PointerOnScreen
<1>4. CASE pointer' # pointer
  <2>. DEFINE e == Head(inputs)
              p == TransformCoordinates(theirs, mine, e.x, e.y, policy)
  <2>1. e.type # "key" /\ pointer' = <<TransformInput(e).x, TransformInput(e).y>>
    <3>1. ApplyEvents(TransformInput(e))
      BY <1>4 DEF HandleIncomingInput
    <3>2. platform \in {"mock", "darwin", "win32", "linux"}
      BY RemoteAssumption DEF RemoteInv
    <3>3. pointer' = <<TransformInput(e).x, TransformInput(e).y>> /\ TransformInput(e).type # "key"
      BY <1>4, <3>1, <3>2 DEF ApplyEvents, SelectInputBackend, MacOSApply, WindowsApply, LinuxApply
    <3>. QED  BY <3>3 DEF TransformInput
  <2>2. TransformInput(e) = [e EXCEPT !.x = p[1], !.y = p[2]]
    BY <2>1 DEF TransformInput
  <2>3. pointer' = <<p[1], p[2]>>
    <3>. HIDE DEF p
    <3>. QED  BY <1>2, <2>1, <2>2 DEF InputEvents
  <2>4. ASSUME policy # "crop" PROVE p \in (0 .. mine.width - 1) \X (0 .. mine.height - 1)
    <3>1. policy \in {"letterbox", "stretch"}
      BY <2>4, RemoteAssumption DEF RemoteInv, AspectRatioPolicy
    <3>2. e.x \in Int /\ e.y \in Int /\ theirs \in Screens /\ mine \in Screens
      BY <1>2 DEF InputEvents, RemoteInv
    <3>. QED  BY <3>1, <3>2, TransformStays
  <2>. HIDE DEF p
  <2>5. PointerOnScreen'
    BY <1>1, <2>3, <2>4 DEF PointerOnScreen
  <2>. QED  BY <1>1, <1>2, <2>5 DEF RemoteInv
<1>. QED  BY <1>3, <1>4

\* Every step of a session keeps it so.
LEMMA NextRemote == RemoteInv /\ [RemoteNext]_remoteVars => RemoteInv'
<1>. SUFFICES ASSUME RemoteInv, [RemoteNext]_remoteVars PROVE RemoteInv'
  OBVIOUS
<1>1. CASE SendLocalInput
  BY <1>1, SendInputKeeps
<1>2. CASE HandleIncomingInput
  BY <1>2, TakeInputKeeps
<1>3. CASE UNCHANGED <<platform, policy, mine, theirs, inputs, pointer>>
  BY <1>3, RemoteAside
<1>. QED
  BY <1>1, <1>2, <1>3
     DEF RemoteNext, Ask, Accept, Reject, Tick, Start, Stop, Stopped, Capture, Sleep, Cancelled, remoteVars,
         screenVars, inputVars

\* The pointer of the host stays on its screen whatever the two screens and wherever
\* the controller aims, unless the policy cuts the picture off (transform_coordinates).
THEOREM PointerStays == RemoteSpec => []PointerOnScreen
<1>1. RemoteInv => PointerOnScreen
  BY DEF RemoteInv
<1>. QED  BY <1>1, InitRemote, NextRemote, PTL DEF RemoteSpec

-----------------------------------------------------------------------------
(***************************************************************************)
(* Group calls.  A tile belongs to the producer its connection subscribed  *)
(* to, so two tiles never show one track, and the renderer that stops with *)
(* a tile is no other tile's.                                              *)
(***************************************************************************)

LinkStates == {"offering", "sending", "closed", "answered", "video", "audio"}
LinkRows == [call : Calls, of : Producers, state : LinkStates]
CloseStates == {"open", "publisher", "closing", "closed", "failed"}
Sizes == {Cardinality(S) : S \in SUBSET Producers}
Closings == [Calls -> [state : CloseStates, left : SUBSET Producers, size : Sizes]]

GroupInv ==
    /\ GroupTypeOK /\ RenderersAreTiles
    /\ links \in Seq(LinkRows)
    /\ tasks \subseteq [call : Calls, left : Seq(Producers), link : Nat]
    /\ \A t \in tasks : t.left # <<>>
    /\ closing \in Closings
    /\ tiles \in [Producers -> [dialog : Nat, link : Nat, kind : {"none", "video", "audio"}]]
    /\ \A p \in Producers : tiles[p] # NoStream => links[tiles[p].link].of = p

\* The connections are a sequence of rows.
LEMMA OneLink ==
    ASSUME GroupInv
    PROVE  /\ Len(links) \in Nat /\ DOMAIN links = 1 .. Len(links)
           /\ \A i \in DOMAIN links : links[i] \in LinkRows
<1>. DEFINE R == LinkRows
<1>1. links \in Seq(R)
  BY DEF GroupInv
<1>. HIDE DEF R
<1>2. Len(links) \in Nat /\ DOMAIN links = 1 .. Len(links) /\ \A i \in DOMAIN links : links[i] \in R
  BY <1>1
<1>. QED  BY <1>2 DEF R

\* A connection changes its state, and stays the one of its producer.
LEMMA LinkChanges ==
    ASSUME GroupInv, NEW i \in DOMAIN links, NEW s \in LinkStates
    PROVE  /\ Link(i, s) \in Seq(LinkRows) /\ Len(Link(i, s)) = Len(links)
           /\ \A j \in 1 .. Len(links) : Link(i, s)[j].of = links[j].of
<1>. DEFINE R == LinkRows
            r == [links[i] EXCEPT !.state = s]
<1>1. links[i] \in LinkRows /\ i \in 1 .. Len(links)
  BY OneLink
<1>2. r \in R /\ r.of = links[i].of
  BY <1>1 DEF LinkRows
<1>3. Link(i, s) = [links EXCEPT ![i] = r] /\ links \in Seq(R)
  BY DEF Link, GroupInv
<1>. HIDE DEF R, r
<1>4. /\ Link(i, s) \in Seq(R) /\ Len(Link(i, s)) = Len(links)
      /\ \A j \in 1 .. Len(links) : Link(i, s)[j] = IF j = i THEN r ELSE links[j]
  BY <1>1, <1>2, <1>3, ExceptSeq
<1>. QED  BY <1>2, <1>4 DEF R

\* The connections go on, and the tiles keep theirs.
LEMMA LinksGoOn ==
    ASSUME GroupInv, UNCHANGED <<tiles, renderers>>,
           links' \in Seq(LinkRows), Len(links) <= Len(links'), Len(links') <= MaxLinks,
           \A j \in 1 .. Len(links) : links'[j].of = links[j].of,
           calls' \in 0 .. MaxCalls, window' \in BOOLEAN, answers' \subseteq Producers,
           subs' \in [Calls -> [Producers -> 0 .. Len(links')]],
           tasks' \subseteq [call : Calls, left : Seq(Producers), link : Nat],
           \A t \in tasks' : t.left # <<>> /\ t.link \in DOMAIN links',
           closing' \in Closings
    PROVE  GroupInv'
<1>1. DOMAIN links = 1 .. Len(links) /\ Len(links) \in Nat
  BY OneLink
<1>2. DOMAIN links' = 1 .. Len(links') /\ Len(links') \in Nat
  <2>. DEFINE R == LinkRows
  <2>1. links' \in Seq(R)
    OBVIOUS
  <2>. HIDE DEF R
  <2>. QED  BY <2>1
<1>3. \A p \in Producers : tiles[p] # NoStream => tiles'[p].link \in DOMAIN links' /\ links'[tiles'[p].link].of = p
  <2>1. ASSUME NEW p \in Producers, tiles[p] # NoStream
        PROVE  tiles[p].link \in 1 .. Len(links) /\ links[tiles[p].link].of = p
    BY <1>1, <2>1 DEF GroupInv, GroupTypeOK
  <2>2. tiles' = tiles
    OBVIOUS
  <2>. QED  BY <1>1, <1>2, <2>1, <2>2
<1>4. \A t \in tasks' : t.call \in Calls
  OBVIOUS
<1>5. GroupTypeOK'
  BY <1>3, <1>4 DEF GroupInv, GroupTypeOK
<1>6. RenderersAreTiles'
  BY DEF GroupInv, RenderersAreTiles
<1>. QED  BY <1>3, <1>5, <1>6 DEF GroupInv

\* At first there is no call.
LEMMA InitGroup == GroupInit => GroupInv
<1>. SUFFICES ASSUME GroupInit PROVE GroupInv
  OBVIOUS
<1>. DEFINE R == LinkRows
<1>. HIDE DEF R
<1>1. links \in Seq(R) /\ Len(links) = 0
  BY DEF GroupInit
<1>2. {MaxCalls, MaxLinks} \subseteq Nat
  BY GroupAssumption
<1>3. tiles = [p \in Producers |-> NoStream] /\ renderers = {}
  BY DEF GroupInit
<1>4. GroupTypeOK
  <2>1. subs \in [Calls -> [Producers -> 0 .. 0]]
    BY DEF GroupInit
  <2>2. subs \in [Calls -> [Producers -> 0 .. Len(links)]]
    BY <1>1, <2>1
  <2>3. MaxCalls \in Nat /\ MaxLinks \in Nat
    BY <1>2
  <2>4. \A p \in Producers : tiles[p] = NoStream
    BY <1>3
  <2>5. calls = 0 /\ window = FALSE /\ tasks = {} /\ answers = {}
    BY DEF GroupInit
  <2>6. Len(links) <= MaxLinks /\ calls \in 0 .. MaxCalls /\ window \in BOOLEAN
    <3>1. Len(links) <= MaxLinks
      BY <1>1, <2>3
    <3>2. calls \in 0 .. MaxCalls
      BY <2>3, <2>5
    <3>3. window \in BOOLEAN
      BY <2>5
    <3>. QED  BY <3>1, <3>2, <3>3
  <2>7. answers \subseteq Producers /\ \A t \in tasks : t.call \in Calls /\ t.link \in DOMAIN links
    BY <2>5
  <2>8. \A p \in Producers : tiles[p] = NoStream \/ tiles[p].link \in DOMAIN links
    BY <2>4
  <2>. QED  BY <2>2, <2>6, <2>7, <2>8 DEF GroupTypeOK
<1>5. RenderersAreTiles
  BY <1>3 DEF RenderersAreTiles, Range
<1>6. closing \in Closings
  <2>1. 0 \in Sizes
    <3>1. Cardinality({}) = 0
      BY FS_EmptySet
    <3>. QED  BY <3>1 DEF Sizes
  <2>2. Idle \in [state : CloseStates, left : SUBSET Producers, size : Sizes]
    BY <2>1 DEF Idle, CloseStates
  <2>. QED  BY <2>2 DEF GroupInit, Closings
<1>7. tiles \in [Producers -> [dialog : Nat, link : Nat, kind : {"none", "video", "audio"}]]
  BY <1>3 DEF NoStream
<1>. QED  BY <1>1, <1>3, <1>4, <1>5, <1>6, <1>7 DEF GroupInv, GroupInit, R

\* A connection nobody showed yet, or other facts of a call, leave the tiles alone.
LEMMA ConnectionGoesOn ==
    ASSUME GroupInv, UNCHANGED <<calls, viewVars>>, tasks' \subseteq tasks, answers' \subseteq Producers,
           closing' \in Closings,
           subs' \in [Calls -> [Producers -> 0 .. Len(links)]],
           links' = links \/ \E i \in DOMAIN links, s \in LinkStates : links' = Link(i, s)
    PROVE  GroupInv'
<1>1. Len(links) \in Nat /\ DOMAIN links = 1 .. Len(links)
  BY OneLink
<1>2. links' \in Seq(LinkRows) /\ Len(links') = Len(links)
      /\ \A j \in 1 .. Len(links) : links'[j].of = links[j].of
  BY LinkChanges DEF GroupInv
<1>3. DOMAIN links' = 1 .. Len(links)
  <2>. DEFINE R == LinkRows
  <2>1. links' \in Seq(R)
    BY <1>2
  <2>. HIDE DEF R
  <2>. QED  BY <1>2, <2>1
<1>4. \A t \in tasks' : t.left # <<>> /\ t.link \in DOMAIN links'
  BY <1>1, <1>3 DEF GroupInv, GroupTypeOK
<1>5. UNCHANGED <<calls, window, tiles, renderers>>
  BY DEF viewVars
<1>6. /\ calls' \in 0 .. MaxCalls /\ window' \in BOOLEAN
      /\ closing' \in Closings
  BY <1>5 DEF GroupInv, GroupTypeOK
<1>7. tasks' \subseteq [call : Calls, left : Seq(Producers), link : Nat]
  <2>. DEFINE T == [call : Calls, left : Seq(Producers), link : Nat]
  <2>1. tasks \subseteq T
    BY DEF GroupInv
  <2>. HIDE DEF T
  <2>2. tasks' \subseteq T
    BY <2>1
  <2>. QED  BY <2>2 DEF T
<1>8. Len(links) <= Len(links') /\ Len(links') <= MaxLinks
  BY <1>1, <1>2 DEF GroupInv, GroupTypeOK
<1>9. subs' \in [Calls -> [Producers -> 0 .. Len(links')]]
  <2>1. Len(links') = Len(links)
    BY <1>2
  <2>. QED  BY <2>1
<1>. QED
  BY <1>2, <1>4, <1>5, <1>6, <1>7, <1>8, <1>9, LinksGoOn

\* What is left of a list from the first producer that is wanted is a list of producers.
LEMMA RestOfList ==
    ASSUME NEW k, NEW list \in Seq(Producers)
    PROVE  FromFirstWanted(k, list) \in Seq(Producers)
<1>. DEFINE starts == {i \in 1 .. Len(list) : Wanted(k, SubSeq(list, i, Len(list)))}
            first == CHOOSE i \in starts : \A j \in starts : i <= j
<1>1. starts # {} => first \in starts
  <2>1. starts \subseteq Nat
    OBVIOUS
  <2>. HIDE DEF starts
  <2>2. starts # {} => \E i \in starts : \A j \in starts : i <= j
    BY <2>1, Least
  <2>. QED  BY <2>2
<1>2. starts # {} => first \in 1 .. Len(list)
  BY <1>1
<1>. HIDE DEF first
<1>3. starts # {} => SubSeq(list, first, Len(list)) \in Seq(Producers)
  BY <1>2
<1>4. <<>> \in Seq(Producers)
  OBVIOUS
<1>. QED  BY <1>3, <1>4 DEF FromFirstWanted, first

\* A task with the rest of its list and another connection is a task.
LEMMA TaskGoesOn ==
    ASSUME NEW t \in [call : Calls, left : Seq(Producers), link : Nat],
           NEW l \in Seq(Producers), NEW n \in Nat
    PROVE  /\ [t EXCEPT !.left = l, !.link = n] \in [call : Calls, left : Seq(Producers), link : Nat]
           /\ [t EXCEPT !.left = l, !.link = n].left = l
           /\ [t EXCEPT !.left = l, !.link = n].link = n
OBVIOUS

\* A task goes on with a list: it makes one more connection, or is over.
LEMMA RunsOnFits ==
    ASSUME GroupInv, NEW t, t.call \in Calls, NEW list \in Seq(Producers), RunsOn(t, list),
           t \in [call : Calls, left : Seq(Producers), link : Nat],
           UNCHANGED <<callVars, subs, viewVars>>, answers' \subseteq Producers
    PROVE  GroupInv'
<1>. DEFINE rest == FromFirstWanted(t.call, list)
            r == [call |-> t.call, of |-> Head(rest), state |-> "offering"]
            new == [t EXCEPT !.left = rest, !.link = Len(links) + 1]
<1>1. rest \in Seq(Producers) /\ Len(links) \in Nat /\ DOMAIN links = 1 .. Len(links)
  BY RestOfList, OneLink
<1>2. /\ tasks' = (tasks \ {t}) \cup (IF rest = <<>> THEN {} ELSE {new})
      /\ rest # <<>> => Len(links) < MaxLinks
      /\ links' = IF rest = <<>> THEN links ELSE Append(links, r)
  BY DEF RunsOn
<1>. HIDE DEF rest
<1>3. CASE rest = <<>>
  <2>1. tasks' \subseteq tasks /\ links' = links
    BY <1>2, <1>3
  <2>. QED  BY <2>1, ConnectionGoesOn DEF GroupInv, GroupTypeOK, callVars
<1>4. CASE rest # <<>>
  <2>. DEFINE R == LinkRows
  <2>1. r \in R
    BY <1>1, <1>4, HeadTailProperties DEF LinkRows, LinkStates
  <2>2. links \in Seq(R) /\ links' = Append(links, r) /\ Len(links) < MaxLinks
    BY <1>2, <1>4 DEF GroupInv
  <2>. HIDE DEF R, r
  <2>3. /\ links' \in Seq(R) /\ Len(links') = Len(links) + 1
        /\ \A j \in 1 .. Len(links) : links'[j] = links[j]
    BY <2>1, <2>2, AppendProperties
  <2>4. DOMAIN links' = 1 .. Len(links) + 1
    BY <2>3
  <2>5. new \in [call : Calls, left : Seq(Producers), link : Nat] /\ new.left = rest /\ new.link = Len(links) + 1
    <3>1. Len(links) + 1 \in Nat
      BY <1>1
    <3>2. PICK n \in Nat : n = Len(links) + 1
      BY <3>1
    <3>. QED  BY <1>1, <3>2, TaskGoesOn
  <2>. HIDE DEF new
  <2>6. tasks' \subseteq [call : Calls, left : Seq(Producers), link : Nat]
    BY <1>2, <1>4, <2>5 DEF GroupInv
  <2>7. \A u \in tasks' : u.left # <<>> /\ u.link \in DOMAIN links'
    <3>1. ASSUME NEW u \in tasks PROVE u.left # <<>> /\ u.link \in DOMAIN links'
      BY <1>1, <2>4 DEF GroupInv, GroupTypeOK
    <3>. QED  BY <1>1, <1>2, <1>4, <2>4, <2>5, <3>1
  <2>8. subs' \in [Calls -> [Producers -> 0 .. Len(links')]]
    <3>1. 0 .. Len(links) \subseteq 0 .. Len(links')
      BY <1>1, <2>3
    <3>2. subs' \in [Calls -> [Producers -> 0 .. Len(links)]]
      BY DEF GroupInv, GroupTypeOK
    <3>. QED  BY <3>1, <3>2
  <2>9. links' \in Seq(LinkRows) /\ \A j \in 1 .. Len(links) : links'[j].of = links[j].of
    BY <2>3 DEF R
  <2>10. MaxLinks \in Nat /\ UNCHANGED <<tiles, renderers, window, calls, closing>>
    BY GroupAssumption DEF callVars, viewVars
  <2>11. /\ calls' \in 0 .. MaxCalls /\ window' \in BOOLEAN
         /\ closing' \in Closings
    BY <2>10 DEF GroupInv, GroupTypeOK
  <2>. QED  BY <1>1, <2>2, <2>3, <2>6, <2>7, <2>8, <2>9, <2>10, <2>11, LinksGoOn
<1>. QED  BY <1>3, <1>4

\* The dialog's tiles go away, all renderers with them.
LEMMA TilesGone ==
    ASSUME GroupInv, CloseAll, UNCHANGED linkVars,
           calls' \in 0 .. MaxCalls, window' \in BOOLEAN, closing' \in Closings
    PROVE  GroupInv'
<1>1. tiles' = [p \in Producers |-> NoStream] /\ renderers' = renderers \ Range(tiles)
  BY DEF CloseAll
<1>2. renderers' = {}
  BY <1>1 DEF GroupInv, RenderersAreTiles
<1>3. RenderersAreTiles'
  BY <1>1, <1>2 DEF RenderersAreTiles, Range
<1>4. UNCHANGED <<subs, links, tasks, answers>>
  BY DEF linkVars
<1>5. \A p \in Producers : tiles'[p] = NoStream
  BY <1>1
<1>6. GroupTypeOK'
  BY <1>4, <1>5 DEF GroupInv, GroupTypeOK
<1>7. tiles' \in [Producers -> [dialog : Nat, link : Nat, kind : {"none", "video", "audio"}]]
  BY <1>1 DEF NoStream
<1>. QED  BY <1>3, <1>4, <1>5, <1>6, <1>7 DEF GroupInv

\* Closing a client changes what is noted of its closing.
LEMMA CloseNoted ==
    ASSUME GroupInv, NEW k \in Calls, NEW c \in [state : CloseStates, left : SUBSET Producers, size : Sizes],
           closing' = [closing EXCEPT ![k] = c]
    PROVE  closing' \in Closings
BY DEF GroupInv, Closings

\* Going on with the closing of a client changes its state and nothing else.
LEMMA CloseStateNoted ==
    ASSUME GroupInv, NEW k \in Calls, NEW s \in CloseStates, closing' = [closing EXCEPT ![k].state = s]
    PROVE  closing' \in Closings
<1>. DEFINE C == [state : CloseStates, left : SUBSET Producers, size : Sizes]
            c == [closing[k] EXCEPT !.state = s]
<1>1. closing[k] \in C
  BY DEF GroupInv, Closings
<1>2. c \in C
  BY <1>1
<1>3. closing' = [closing EXCEPT ![k] = c]
  OBVIOUS
<1>. HIDE DEF c
<1>. QED  BY <1>2, <1>3, CloseNoted

\* The number of a client that was made is one of the calls.
LEMMA PresentCall == GroupInv /\ calls # 0 => calls \in Calls
<1>1. MaxCalls \in Nat
  BY GroupAssumption
<1>. QED  BY <1>1 DEF GroupInv, GroupTypeOK, Calls

\* A call starts, after the one before it is ended.
LEMMA StartKeeps == ASSUME GroupInv, StartGroupCall PROVE GroupInv'
<1>1. calls' \in 0 .. MaxCalls
  BY GroupAssumption DEF GroupInv, GroupTypeOK, StartGroupCall
<1>2. window' \in BOOLEAN /\ CloseAll /\ UNCHANGED linkVars
  BY DEF StartGroupCall, EndGroupCall
<1>3. closing' \in Closings
  <2>1. CASE calls = 0
    BY <2>1 DEF StartGroupCall, EndGroupCall, GroupInv
  <2>2. CASE calls # 0
    <3>1. calls \in Calls /\ closing' = [closing EXCEPT ![calls].state = "publisher"]
      BY <2>2, PresentCall DEF StartGroupCall, EndGroupCall
    <3>2. PICK k \in Calls : k = calls
      BY <3>1
    <3>. QED  BY <3>1, <3>2, CloseStateNoted DEF CloseStates
  <2>. QED  BY <2>1, <2>2
<1>. QED  BY <1>1, <1>2, <1>3, TilesGone

\* The window is closed.
LEMMA CloseWindowKeeps == ASSUME GroupInv, CloseWindow PROVE GroupInv'
<1>1. CloseAll /\ UNCHANGED <<calls, closing>> /\ UNCHANGED linkVars /\ window' \in BOOLEAN
  BY DEF CloseWindow, callVars
<1>2. calls' \in 0 .. MaxCalls /\ closing' \in Closings
  BY <1>1 DEF GroupInv, GroupTypeOK
<1>. QED  BY <1>1, <1>2, TilesGone

\* A client closes, one connection after the other, to its end or to a failure.
LEMMA CloseKeeps ==
    ASSUME GroupInv, NEW k \in Calls, CloseBegins(k) \/ CloseOne(k) \/ CloseFails(k) \/ CloseEnds(k)
    PROVE  GroupInv'
<1>. DEFINE C == [state : CloseStates, left : SUBSET Producers, size : Sizes]
<1>1. closing[k] \in C /\ subs \in [Calls -> [Producers -> 0 .. Len(links)]] /\ answers \subseteq Producers
  BY DEF GroupInv, GroupTypeOK, Closings
<1>2. Len(links) \in Nat /\ DOMAIN links = 1 .. Len(links)
  BY OneLink
<1>3. CASE CloseBegins(k)
  <2>1. Subscribed(k) \subseteq Producers
    BY DEF Subscribed
  <2>. DEFINE c == [state |-> "closing", left |-> Subscribed(k), size |-> Cardinality(Subscribed(k))]
  <2>2. c \in C
    BY <2>1 DEF CloseStates, Sizes
  <2>3. closing' = [closing EXCEPT ![k] = c] /\ UNCHANGED <<calls, linkVars, viewVars>>
    BY <1>3 DEF CloseBegins
  <2>. HIDE DEF c
  <2>4. closing' \in Closings
    BY <2>2, <2>3, CloseNoted
  <2>. QED  BY <1>1, <2>3, <2>4, ConnectionGoesOn DEF linkVars
<1>4. CASE CloseOne(k)
  <2>1. PICK p \in closing[k].left :
           /\ closing' = [closing EXCEPT ![k].left = @ \ {p}]
           /\ links' = IF subs[k][p] = 0 THEN links ELSE Link(subs[k][p], "closed")
           /\ UNCHANGED <<calls, subs, tasks, answers, viewVars>>
    BY <1>4 DEF CloseOne
  <2>. DEFINE c == [closing[k] EXCEPT !.left = @ \ {p}]
  <2>2. c \in C
    BY <1>1
  <2>3. closing' = [closing EXCEPT ![k] = c]
    BY <2>1
  <2>. HIDE DEF c
  <2>4. closing' \in Closings
    BY <2>2, <2>3, CloseNoted
  <2>5. links' = links \/ \E i \in DOMAIN links, s \in LinkStates : links' = Link(i, s)
    <3>1. CASE subs[k][p] = 0
      BY <2>1, <3>1
    <3>2. CASE subs[k][p] # 0
      <4>1. p \in Producers
        BY <1>1
      <4>2. subs[k][p] \in DOMAIN links
        BY <1>1, <1>2, <3>2, <4>1
      <4>. QED  BY <2>1, <3>2, <4>2 DEF LinkStates
    <3>. QED  BY <3>1, <3>2
  <2>6. /\ UNCHANGED <<calls, viewVars>> /\ tasks' \subseteq tasks /\ answers' \subseteq Producers
        /\ subs' \in [Calls -> [Producers -> 0 .. Len(links)]]
    BY <1>1, <2>1
  <2>. QED  BY <2>4, <2>5, <2>6, ConnectionGoesOn
<1>5. CASE CloseFails(k)
  <2>1. closing' \in Closings
    BY <1>5, CloseStateNoted DEF CloseFails, CloseStates
  <2>2. UNCHANGED <<calls, linkVars, viewVars>>
    BY <1>5 DEF CloseFails
  <2>. QED  BY <1>1, <2>1, <2>2, ConnectionGoesOn DEF linkVars
<1>6. CASE CloseEnds(k)
  <2>1. closing' \in Closings
    BY <1>6, CloseStateNoted DEF CloseEnds, CloseStates
  <2>2. subs' = [subs EXCEPT ![k] = [p \in Producers |-> 0]] /\ UNCHANGED <<calls, links, tasks, answers, viewVars>>
    BY <1>6 DEF CloseEnds
  <2>3. subs' \in [Calls -> [Producers -> 0 .. Len(links)]]
    BY <1>1, <1>2, <2>2
  <2>. QED  BY <1>1, <2>1, <2>2, <2>3, ConnectionGoesOn
<1>. QED  BY <1>3, <1>4, <1>5, <1>6

\* A row of a task: its client was made, its list starts with a producer, and
\* its connection exists.
LEMMA TaskRow ==
    ASSUME GroupInv, NEW t \in tasks
    PROVE  /\ t \in [call : Calls, left : Seq(Producers), link : Nat] /\ t.call \in Calls
           /\ t.link \in DOMAIN links
           /\ Head(t.left) \in Producers /\ Tail(t.left) \in Seq(Producers)
<1>. DEFINE T == [call : Calls, left : Seq(Producers), link : Nat]
<1>1. t \in T
  <2>1. tasks \subseteq T
    BY DEF GroupInv
  <2>. HIDE DEF T
  <2>. QED  BY <2>1
<1>2. t.left \in Seq(Producers) /\ t.call \in Calls
  BY <1>1
<1>. HIDE DEF T
<1>3. t.left # <<>> /\ t.link \in DOMAIN links
  BY DEF GroupInv, GroupTypeOK
<1>4. Head(t.left) \in Producers /\ Tail(t.left) \in Seq(Producers)
  BY <1>2, <1>3, HeadTailProperties
<1>. QED  BY <1>1, <1>2, <1>3, <1>4 DEF T

\* A list of producers arrives.
LEMMA HandleProducersKeeps ==
    ASSUME GroupInv, NEW list \in Lists, HandleProducers(list)
    PROVE  GroupInv'
<1>. DEFINE t == [call |-> calls, left |-> list, link |-> 0]
<1>1. calls \in Calls
  BY PresentCall DEF HandleProducers
<1>2. list \in Seq(Producers)
  BY GroupAssumption
<1>3. t \in [call : Calls, left : Seq(Producers), link : Nat] /\ t.call \in Calls
  BY <1>1, <1>2
<1>4. RunsOn(t, list) /\ UNCHANGED <<callVars, subs, viewVars>>
  BY DEF HandleProducers
<1>5. answers' \subseteq Producers
  BY DEF HandleProducers, GroupInv, GroupTypeOK
<1>. HIDE DEF t
<1>. QED  BY <1>2, <1>3, <1>4, <1>5, RunsOnFits

\* A task's connection is registered, its subscription sent or not.
LEMMA TaskKeeps ==
    ASSUME GroupInv, NEW t \in tasks, Offered(t) \/ Sent(t) \/ SendFails(t)
    PROVE  GroupInv'
<1>1. /\ t \in [call : Calls, left : Seq(Producers), link : Nat] /\ t.call \in Calls
      /\ t.link \in DOMAIN links
      /\ Head(t.left) \in Producers /\ Tail(t.left) \in Seq(Producers)
  BY TaskRow
<1>2. Len(links) \in Nat /\ DOMAIN links = 1 .. Len(links)
  BY OneLink
<1>3. subs \in [Calls -> [Producers -> 0 .. Len(links)]] /\ answers \subseteq Producers
  BY DEF GroupInv, GroupTypeOK
<1>4. closing \in Closings
  BY DEF GroupInv
<1>5. CASE Offered(t)
  <2>1. links' = Link(t.link, "sending") /\ subs' = [subs EXCEPT ![t.call][Head(t.left)] = t.link]
    BY <1>5 DEF Offered
  <2>2. UNCHANGED <<calls, viewVars>> /\ tasks' \subseteq tasks /\ answers' \subseteq Producers /\ closing' \in Closings
    BY <1>3, <1>4, <1>5 DEF Offered, callVars
  <2>3. subs' \in [Calls -> [Producers -> 0 .. Len(links)]]
    BY <1>1, <1>2, <1>3, <2>1
  <2>4. \E i \in DOMAIN links, s \in LinkStates : links' = Link(i, s)
    BY <1>1, <2>1 DEF LinkStates
  <2>. QED  BY <2>2, <2>3, <2>4, ConnectionGoesOn
<1>6. CASE Sent(t)
  <2>1. RunsOn(t, Tail(t.left)) /\ UNCHANGED <<callVars, subs, viewVars>> /\ answers' \subseteq Producers
    BY <1>1, <1>3, <1>6 DEF Sent
  <2>. QED  BY <1>1, <2>1, RunsOnFits
<1>7. CASE SendFails(t)
  <2>1. links' = Link(t.link, "closed") /\ subs' = [subs EXCEPT ![t.call][Head(t.left)] = 0]
    BY <1>7 DEF SendFails
  <2>2. UNCHANGED <<calls, viewVars>> /\ tasks' \subseteq tasks /\ answers' \subseteq Producers /\ closing' \in Closings
    BY <1>3, <1>4, <1>7 DEF SendFails, callVars
  <2>3. subs' \in [Calls -> [Producers -> 0 .. Len(links)]]
    BY <1>1, <1>2, <1>3, <2>1
  <2>4. \E i \in DOMAIN links, s \in LinkStates : links' = Link(i, s)
    BY <1>1, <2>1 DEF LinkStates
  <2>. QED  BY <2>2, <2>3, <2>4, ConnectionGoesOn
<1>. QED  BY <1>5, <1>6, <1>7

\* An answer goes to the connection of the present client.
LEMMA AnswerKeeps ==
    ASSUME GroupInv, NEW p \in Producers, HandleSfuAnswer(p)
    PROVE  GroupInv'
<1>. DEFINE i == IF calls = 0 THEN 0 ELSE subs[calls][p]
<1>1. Len(links) \in Nat /\ DOMAIN links = 1 .. Len(links)
  BY OneLink
<1>2. subs \in [Calls -> [Producers -> 0 .. Len(links)]] /\ answers \subseteq Producers /\ closing \in Closings
  BY DEF GroupInv, GroupTypeOK
<1>3. i # 0 => i \in DOMAIN links
  BY <1>1, <1>2, PresentCall
<1>4. links' = IF i # 0 /\ links[i].state = "sending" THEN Link(i, "answered") ELSE links
  BY DEF HandleSfuAnswer
<1>. HIDE DEF i
<1>5. links' = links \/ \E j \in DOMAIN links, s \in LinkStates : links' = Link(j, s)
  BY <1>3, <1>4 DEF LinkStates
<1>6. UNCHANGED <<calls, viewVars>> /\ tasks' \subseteq tasks /\ answers' \subseteq Producers /\ closing' \in Closings
  BY <1>2 DEF HandleSfuAnswer, callVars
<1>7. subs' \in [Calls -> [Producers -> 0 .. Len(links)]]
  BY <1>2 DEF HandleSfuAnswer
<1>. QED  BY <1>5, <1>6, <1>7, ConnectionGoesOn

\* A track arrives: its tile takes the place of the producer's earlier one.
LEMMA TrackKeeps ==
    ASSUME GroupInv, NEW i \in DOMAIN links, TrackArrives(i)
    PROVE  GroupInv'
<1>. DEFINE next == IF links[i].state = "answered" THEN 1 ELSE 2
            s == VideoRenderer(i, Tracks[next])
            p == links[i].of
            V == [dialog : Nat, link : Nat, kind : {"none", "video", "audio"}]
<1>1. /\ Len(links) \in Nat /\ DOMAIN links = 1 .. Len(links)
      /\ links[i] \in LinkRows /\ p \in Producers
  BY OneLink DEF LinkRows
<1>2. Tracks[next] \in {"video", "audio"}
  BY DEF Tracks
<1>3. calls \in Nat
  BY GroupAssumption DEF GroupInv, GroupTypeOK
<1>4. s \in V /\ s # NoStream /\ s.link = i
  BY <1>1, <1>2, <1>3 DEF VideoRenderer, NoStream
<1>5. /\ links' = Link(i, Tracks[next])
      /\ tiles' = [tiles EXCEPT ![p] = s]
      /\ renderers' = (renderers \ {tiles[p]}) \cup {s}
      /\ UNCHANGED <<callVars, window, subs, tasks, answers>>
  BY DEF TrackArrives, AddRemoteTrack, RemoveProducer
<1>6. /\ links' \in Seq(LinkRows) /\ Len(links') = Len(links)
      /\ \A j \in 1 .. Len(links) : links'[j].of = links[j].of
  BY <1>2, <1>5, LinkChanges DEF LinkStates
<1>7. DOMAIN links' = 1 .. Len(links)
  <2>. DEFINE R == LinkRows
  <2>1. links' \in Seq(R)
    BY <1>6
  <2>. HIDE DEF R
  <2>. QED  BY <1>6, <2>1
<1>8. tiles \in [Producers -> V] /\ tiles' \in [Producers -> V]
  BY <1>1, <1>4, <1>5 DEF GroupInv
<1>9. \A q \in Producers : tiles[q] # NoStream => tiles[q].link \in 1 .. Len(links) /\ links[tiles[q].link].of = q
  BY <1>1 DEF GroupInv, GroupTypeOK
<1>. HIDE DEF s, next
<1>10. \A q \in Producers : tiles'[q] = IF q = p THEN s ELSE tiles[q]
  BY <1>1, <1>5, <1>8
<1>11. \A q \in Producers : tiles'[q] # NoStream => tiles'[q].link \in 1 .. Len(links) /\ links'[tiles'[q].link].of = q
  <2>1. ASSUME NEW q \in Producers, tiles'[q] # NoStream
        PROVE  tiles'[q].link \in 1 .. Len(links) /\ links'[tiles'[q].link].of = q
    <3>1. CASE q = p
      BY <1>1, <1>4, <1>6, <1>10, <3>1
    <3>2. CASE q # p
      BY <1>6, <1>9, <1>10, <2>1, <3>2
    <3>. QED  BY <3>1, <3>2
  <2>. QED  BY <2>1
<1>12. RenderersAreTiles'
  <2>1. \A x : x \in renderers <=> x # NoStream /\ \E q \in Producers : x = tiles[q]
    BY <1>8 DEF GroupInv, RenderersAreTiles, Range
  <2>2. \A x : x \in renderers' <=> x # NoStream /\ \E q \in Producers : x = tiles'[q]
    <3>1. ASSUME NEW x, x \in renderers' PROVE x # NoStream /\ \E q \in Producers : x = tiles'[q]
      <4>1. CASE x = s
        BY <1>1, <1>4, <1>10, <4>1
      <4>2. CASE x # s
        BY <1>5, <1>10, <2>1, <3>1, <4>2
      <4>. QED  BY <4>1, <4>2
    <3>2. ASSUME NEW q \in Producers, tiles'[q] # NoStream PROVE tiles'[q] \in renderers'
      <4>1. CASE q = p
        BY <1>5, <1>10, <4>1
      <4>2. CASE q # p
        <5>1. tiles'[q] = tiles[q] /\ tiles[q] \in renderers
          BY <1>10, <2>1, <3>2, <4>2
        <5>2. tiles[q] # tiles[p]
          BY <1>1, <1>9, <1>10, <3>2, <4>2
        <5>. QED  BY <1>5, <5>1, <5>2
      <4>. QED  BY <4>1, <4>2
    <3>. QED  BY <3>1, <3>2
  <2>. QED  BY <1>8, <2>2 DEF RenderersAreTiles, Range
<1>13. UNCHANGED <<calls, closing, window, subs, tasks, answers>>
  BY <1>5 DEF callVars
<1>14. GroupTypeOK'
  <2>1. Len(links') <= MaxLinks /\ subs' \in [Calls -> [Producers -> 0 .. Len(links')]]
    BY <1>6, <1>13 DEF GroupInv, GroupTypeOK
  <2>2. \A t \in tasks' : t.call \in Calls /\ t.link \in DOMAIN links'
    BY <1>1, <1>7, <1>13 DEF GroupInv, GroupTypeOK
  <2>3. \A q \in Producers : tiles'[q] = NoStream \/ tiles'[q].link \in DOMAIN links'
    BY <1>7, <1>11
  <2>4. calls' \in 0 .. MaxCalls /\ window' \in BOOLEAN /\ answers' \subseteq Producers
    BY <1>13 DEF GroupInv, GroupTypeOK
  <2>. QED  BY <2>1, <2>2, <2>3, <2>4 DEF GroupTypeOK
<1>. QED  BY <1>6, <1>8, <1>11, <1>12, <1>13, <1>14 DEF GroupInv

\* Every step of the call keeps the invariant.
LEMMA NextGroup == GroupInv /\ [GroupNext]_groupVars => GroupInv'
<1>. SUFFICES ASSUME GroupInv, [GroupNext]_groupVars PROVE GroupInv'
  OBVIOUS
<1>1. CASE StartGroupCall
  BY <1>1, StartKeeps
<1>2. CASE CloseWindow
  BY <1>2, CloseWindowKeeps
<1>3. CASE \E k \in Calls : CloseBegins(k) \/ CloseOne(k) \/ CloseFails(k) \/ CloseEnds(k)
  BY <1>3, CloseKeeps
<1>4. CASE \E list \in Lists : HandleProducers(list)
  BY <1>4, HandleProducersKeeps
<1>5. CASE \E t \in tasks : Offered(t) \/ Sent(t) \/ SendFails(t)
  BY <1>5, TaskKeeps
<1>6. CASE \E p \in Producers : HandleSfuAnswer(p)
  BY <1>6, AnswerKeeps
<1>7. CASE \E i \in DOMAIN links : TrackArrives(i)
  BY <1>7, TrackKeeps
<1>8. CASE UNCHANGED groupVars
  <2>1. UNCHANGED <<calls, closing, subs, links, tasks, answers, window, tiles, renderers>>
    BY <1>8 DEF groupVars, callVars, linkVars, viewVars
  <2>. QED  BY <2>1 DEF GroupInv, GroupTypeOK, RenderersAreTiles
<1>. QED  BY <1>1, <1>2, <1>3, <1>4, <1>5, <1>6, <1>7, <1>8 DEF GroupNext

\* Type correctness of the group call.
THEOREM GroupTyped == GroupSpec => []GroupTypeOK
<1>1. GroupInv => GroupTypeOK
  BY DEF GroupInv
<1>. QED  BY <1>1, InitGroup, NextGroup, PTL DEF GroupSpec

\* No renderer reads a track nobody can see, and every tile has its renderer,
\* for any number of calls, producers and connections, whatever a connection of
\* an earlier call still hands over (add_remote_track, remove_producer, close_all).
THEOREM NoHiddenRenderer == GroupSpec => []RenderersAreTiles
<1>1. GroupInv => RenderersAreTiles
  BY DEF GroupInv
<1>. QED  BY <1>1, InitGroup, NextGroup, PTL DEF GroupSpec

-----------------------------------------------------------------------------
(***************************************************************************)
(* Calls between two desktops.  hangup() is scheduled after the task of    *)
(* the offer or answer, so a client that is being hung up has made its     *)
(* connection if it ever makes one, and at the end has none.               *)
(***************************************************************************)

CallRows ==
    [desk : Desktops, role : {"caller", "callee"}, offer : Nat, peered : BOOLEAN,
     at : {"made", "offering", "reading", "answering", "describing", "sent", "failed", "lost"},
     pc : {"none", "open", "closed"}, hang : {"none", "due", "closing", "ended", "lost"}, answer : Nat]
Signals == [type : {"offer", "answer"}, call : Nat]

\* What a hangup() that has begun, or is over, says of its client.
HungUp(c) ==
    /\ c.hang \in {"closing", "ended"} => c.at # "made"
    /\ c.hang = "ended" => c.pc = "none"

\* What a step may make of a client.
GoesTo(c, e) ==
    /\ e \in CallRows /\ HungUp(e)
    /\ c.hang = "ended" => e.hang = "ended" /\ e.pc = "none" /\ (e.at = "sent" => c.at = "sent")

DialInv ==
    /\ clients \in Seq(CallRows) /\ toward \in [Desktops -> Seq(Signals)]
    /\ \A i \in Clients1to1 : HungUp(clients[i])

\* The clients after a step that keeps the invariant.
ClientsGoOn ==
    /\ clients' \in Seq(CallRows)
    /\ \A i \in 1 .. Len(clients') : HungUp(clients'[i])
    /\ \A i \in Clients1to1 : GoesTo(clients[i], clients'[i])

\* A client is a row.
LEMMA OneClient ==
    ASSUME DialInv
    PROVE  /\ Len(clients) \in Nat /\ DOMAIN clients = 1 .. Len(clients)
           /\ \A i \in Clients1to1 : clients[i] \in CallRows /\ HungUp(clients[i])
<1>. DEFINE R == CallRows
<1>1. clients \in Seq(R)
  BY DEF DialInv
<1>. HIDE DEF R
<1>2. Len(clients) \in Nat /\ DOMAIN clients = 1 .. Len(clients) /\ \A i \in 1 .. Len(clients) : clients[i] \in R
  BY <1>1
<1>. QED  BY <1>2 DEF R, DialInv, Clients1to1

\* Nothing becomes of the clients.
LEMMA ClientsStay == ASSUME DialInv, clients' = clients PROVE ClientsGoOn
<1>1. \A i \in Clients1to1 : clients[i] \in CallRows /\ HungUp(clients[i])
  BY OneClient
<1>2. \A i \in Clients1to1 : GoesTo(clients[i], clients[i])
  <2>1. ASSUME NEW c \in CallRows, HungUp(c) PROVE GoesTo(c, c)
    BY <2>1 DEF GoesTo, HungUp
  <2>. QED  BY <1>1, <2>1
<1>. QED  BY <1>1, <1>2 DEF ClientsGoOn, DialInv, Clients1to1

\* One client goes on.
LEMMA ClientChanges ==
    ASSUME DialInv, NEW i \in Clients1to1, NEW c, GoesTo(clients[i], c), clients' = [clients EXCEPT ![i] = c]
    PROVE  ClientsGoOn
<1>. DEFINE R == CallRows
<1>1. c \in R /\ HungUp(c) /\ clients \in Seq(R) /\ i \in 1 .. Len(clients)
  BY DEF GoesTo, DialInv, Clients1to1
<1>2. \A j \in Clients1to1 : GoesTo(clients[j], clients[j]) /\ HungUp(clients[j])
  <2>1. ASSUME NEW e \in CallRows, HungUp(e) PROVE GoesTo(e, e)
    BY <2>1 DEF GoesTo, HungUp
  <2>. QED  BY <2>1, OneClient
<1>. HIDE DEF R
<1>3. /\ clients' \in Seq(R) /\ Len(clients') = Len(clients)
      /\ \A j \in 1 .. Len(clients) : clients'[j] = IF j = i THEN c ELSE clients[j]
  BY <1>1, ExceptSeq
<1>4. \A j \in 1 .. Len(clients) : HungUp(clients'[j]) /\ GoesTo(clients[j], clients'[j])
  <2>1. ASSUME NEW j \in 1 .. Len(clients) PROVE HungUp(clients'[j]) /\ GoesTo(clients[j], clients'[j])
    <3>1. CASE j = i
      BY <1>1, <1>3, <3>1
    <3>2. CASE j # i
      BY <1>2, <1>3, <3>2 DEF Clients1to1
    <3>. QED  BY <3>1, <3>2
  <2>. QED  BY <2>1
<1>. QED  BY <1>3, <1>4 DEF ClientsGoOn, Clients1to1, R

\* A client is made.
LEMMA ClientMade ==
    ASSUME DialInv, NEW d \in Desktops, NEW role \in {"caller", "callee"}, NEW offer \in Nat,
           clients' = Append(clients, CallClient(d, role, offer))
    PROVE  ClientsGoOn
<1>. DEFINE R == CallRows
            c == CallClient(d, role, offer)
<1>1. (role = "callee" \/ met[d]) \in BOOLEAN
  OBVIOUS
<1>2. c \in R /\ HungUp(c)
  <2>1. c \in R
    BY <1>1 DEF CallClient, CallRows
  <2>. QED  BY <2>1 DEF CallClient, HungUp
<1>3. clients \in Seq(R) /\ clients' = Append(clients, c)
  BY DEF DialInv
<1>4. \A j \in Clients1to1 : GoesTo(clients[j], clients[j]) /\ HungUp(clients[j])
  <2>1. ASSUME NEW e \in CallRows, HungUp(e) PROVE GoesTo(e, e)
    BY <2>1 DEF GoesTo, HungUp
  <2>. QED  BY <2>1, OneClient
<1>. HIDE DEF R, c
<1>5. /\ clients' \in Seq(R) /\ Len(clients') = Len(clients) + 1 /\ Len(clients) \in Nat
      /\ \A j \in 1 .. Len(clients) : clients'[j] = clients[j]
      /\ clients'[Len(clients) + 1] = c
  BY <1>2, <1>3, AppendProperties
<1>6. \A j \in 1 .. Len(clients') : HungUp(clients'[j])
  <2>1. ASSUME NEW j \in 1 .. Len(clients') PROVE HungUp(clients'[j])
    <3>1. CASE j = Len(clients) + 1
      BY <1>2, <1>5, <3>1
    <3>2. CASE j # Len(clients) + 1
      <4>1. j \in 1 .. Len(clients)
        BY <1>5, <3>2
      <4>. QED  BY <1>4, <1>5, <4>1 DEF Clients1to1
    <3>. QED  BY <3>1, <3>2
  <2>. QED  BY <2>1
<1>7. \A j \in Clients1to1 : GoesTo(clients[j], clients'[j])
  BY <1>4, <1>5 DEF Clients1to1
<1>. QED  BY <1>5, <1>6, <1>7 DEF ClientsGoOn, R

\* What the steps of a client's tasks and of the user make of it.
LEMMA ClientSteps ==
    ASSUME NEW c \in CallRows, HungUp(c)
    PROVE  /\ c.at = "made" =>
                GoesTo(c, [c EXCEPT !.at = IF c.role = "caller" THEN "offering" ELSE "reading", !.pc = "open"])
           /\ c.at \in {"offering", "reading", "answering"} =>
                GoesTo(c, [c EXCEPT !.at = IF c.pc = "open" THEN Following(c.at) ELSE "failed"])
           /\ c.pc # "none" => GoesTo(c, [c EXCEPT !.at = "sent"])
           /\ GoesTo(c, [c EXCEPT !.at = "failed"]) /\ GoesTo(c, [c EXCEPT !.at = "lost"])
           /\ c.hang = "due" /\ c.at # "made" =>
                GoesTo(c, [c EXCEPT !.pc = IF @ = "none" THEN @ ELSE "closed",
                                    !.hang = IF c.pc = "none" THEN "ended" ELSE "closing"])
           /\ c.hang = "closing" => GoesTo(c, [c EXCEPT !.pc = "none", !.hang = "ended"])
           /\ c.hang \in {"due", "closing"} => GoesTo(c, [c EXCEPT !.hang = "lost"])
           /\ c.hang = "none" => GoesTo(c, [c EXCEPT !.hang = "due"])
           /\ \A n \in Nat : GoesTo(c, [c EXCEPT !.answer = n])
<1>1. c.at = "made" =>
        GoesTo(c, [c EXCEPT !.at = IF c.role = "caller" THEN "offering" ELSE "reading", !.pc = "open"])
  BY DEF GoesTo, HungUp, CallRows
<1>2. c.at \in {"offering", "reading", "answering"} =>
        GoesTo(c, [c EXCEPT !.at = IF c.pc = "open" THEN Following(c.at) ELSE "failed"])
  BY DEF GoesTo, HungUp, CallRows, Following
<1>3. c.pc # "none" => GoesTo(c, [c EXCEPT !.at = "sent"])
  BY DEF GoesTo, HungUp, CallRows
<1>4. GoesTo(c, [c EXCEPT !.at = "failed"]) /\ GoesTo(c, [c EXCEPT !.at = "lost"])
  BY DEF GoesTo, HungUp, CallRows
<1>5. c.hang = "due" /\ c.at # "made" =>
        GoesTo(c, [c EXCEPT !.pc = IF @ = "none" THEN @ ELSE "closed",
                            !.hang = IF c.pc = "none" THEN "ended" ELSE "closing"])
  BY DEF GoesTo, HungUp, CallRows
<1>6. c.hang = "closing" => GoesTo(c, [c EXCEPT !.pc = "none", !.hang = "ended"])
  BY DEF GoesTo, HungUp, CallRows
<1>7. c.hang \in {"due", "closing"} => GoesTo(c, [c EXCEPT !.hang = "lost"])
  BY DEF GoesTo, HungUp, CallRows
<1>8. c.hang = "none" => GoesTo(c, [c EXCEPT !.hang = "due"])
  BY DEF GoesTo, HungUp, CallRows
<1>9. \A n \in Nat : GoesTo(c, [c EXCEPT !.answer = n])
  BY DEF GoesTo, HungUp, CallRows
<1>. QED  BY <1>1, <1>2, <1>3, <1>4, <1>5, <1>6, <1>7, <1>8, <1>9

\* Every step of a call keeps the invariant and leaves a client that was hung up silent.
LEMMA NextDial ==
    ASSUME DialInv, [OneToOneNext]_dialVars
    PROVE  DialInv' /\ ClientsGoOn
<1>. DEFINE M == Signals
            kept == toward' \in [Desktops -> Seq(M)]
<1>1. toward \in [Desktops -> Seq(M)]
  BY DEF DialInv
<1>2. \A i \in Clients1to1 : clients[i] \in CallRows /\ HungUp(clients[i])
  BY OneClient
<1>3. ClientsGoOn /\ kept => DialInv'
  BY DEF ClientsGoOn, DialInv, Clients1to1
<1>4. toward' = toward => kept
  BY <1>1
<1>. HIDE DEF M
<1>5. ASSUME NEW d \in Desktops, HeaderCall(d) PROVE ClientsGoOn /\ kept
  <2>1. clients' = Append(clients, CallClient(d, "caller", 0)) /\ toward' = toward
    BY <1>5 DEF HeaderCall
  <2>. QED  BY <1>4, <2>1, ClientMade
<1>6. ASSUME NEW d \in Desktops, RemoteRequest(d) \/ AcceptCall(d) \/ CancelRemote(d) \/ Dismiss(d) \/ PeerJoined(d)
      PROVE  ClientsGoOn /\ kept
  <2>1. clients' = clients /\ toward' = toward
    BY <1>6 DEF RemoteRequest, RemoteCallDialog, AcceptCall, CancelRemote, Dismiss, PeerJoined
  <2>. QED  BY <1>4, <2>1, ClientsStay
<1>7. ASSUME NEW d \in Desktops, EndCall(d) PROVE ClientsGoOn /\ kept
  <2>1. PICK i : /\ clients[i].hang = "none" /\ clients' = [clients EXCEPT ![i].hang = "due"]
                 /\ toward' = toward
    BY <1>7 DEF EndCall
  <2>2. CASE i \in Clients1to1
    <3>. DEFINE c == [clients[i] EXCEPT !.hang = "due"]
    <3>1. GoesTo(clients[i], c)
      BY <1>2, <2>1, <2>2, ClientSteps
    <3>2. clients' = [clients EXCEPT ![i] = c]
      BY <2>1
    <3>. HIDE DEF c
    <3>. QED  BY <1>4, <2>1, <2>2, <3>1, <3>2, ClientChanges
  <2>3. CASE i \notin Clients1to1
    <3>1. clients' = clients
      <4>. DEFINE R == CallRows
      <4>1. clients \in Seq(R)
        BY DEF DialInv
      <4>. HIDE DEF R
      <4>2. DOMAIN clients = 1 .. Len(clients)
        BY <4>1
      <4>. QED  BY <2>1, <2>3, <4>1, <4>2 DEF Clients1to1
    <3>. QED  BY <1>4, <2>1, <3>1, ClientsStay
  <2>. QED  BY <2>2, <2>3
<1>8. ASSUME NEW d \in Desktops, Receive(d) PROVE ClientsGoOn /\ kept
  <2>. DEFINE m == Head(toward[d])
  <2>1. toward[d] \in Seq(M) /\ toward[d] # <<>> /\ toward' = [toward EXCEPT ![d] = Tail(@)]
    BY <1>1, <1>8 DEF Receive
  <2>2. m \in M /\ Tail(toward[d]) \in Seq(M)
    BY <2>1, HeadTailProperties
  <2>3. kept
    BY <1>1, <2>1, <2>2
  <2>4. m.call \in Nat
    BY <2>2 DEF M, Signals
  <2>5. OfferReceived(d, m) \/ AnswerReceived(d, m)
    BY <1>8 DEF Receive
  <2>. HIDE DEF m
  <2>6. CASE OfferReceived(d, m)
    BY <2>3, <2>4, <2>6, ClientMade DEF OfferReceived
  <2>7. CASE AnswerReceived(d, m)
    <3>1. PICK i : clients' = clients \/ clients' = [clients EXCEPT ![i].answer = m.call]
      BY <2>7 DEF AnswerReceived
    <3>2. CASE clients' = clients
      BY <2>3, <3>2, ClientsStay
    <3>3. CASE i \in Clients1to1 /\ clients' = [clients EXCEPT ![i].answer = m.call]
      <4>. DEFINE c == [clients[i] EXCEPT !.answer = m.call]
      <4>1. GoesTo(clients[i], c)
        BY <1>2, <2>4, <3>3, ClientSteps
      <4>2. clients' = [clients EXCEPT ![i] = c]
        BY <3>3
      <4>. HIDE DEF c
      <4>. QED  BY <2>3, <3>3, <4>1, <4>2, ClientChanges
    <3>4. CASE i \notin Clients1to1 /\ clients' = [clients EXCEPT ![i].answer = m.call]
      <4>1. clients' = clients
        <5>. DEFINE R == CallRows
        <5>1. clients \in Seq(R)
          BY DEF DialInv
        <5>. HIDE DEF R
        <5>2. DOMAIN clients = 1 .. Len(clients)
          BY <5>1
        <5>. QED  BY <3>4, <5>1, <5>2 DEF Clients1to1
      <4>. QED  BY <2>3, <4>1, ClientsStay
    <3>. QED  BY <3>1, <3>2, <3>3, <3>4
  <2>. QED  BY <2>5, <2>6, <2>7
<1>9. ASSUME NEW i \in Clients1to1, TaskSteps(i) \/ Lost(i) PROVE ClientsGoOn /\ kept
  <2>1. clients[i] \in CallRows /\ HungUp(clients[i])
    BY <1>2
  <2>2. ASSUME NEW c, GoesTo(clients[i], c), clients' = [clients EXCEPT ![i] = c] PROVE ClientsGoOn
    BY <2>2, ClientChanges
  <2>3. CASE StartTask(i)
    <3>. DEFINE c == [clients[i] EXCEPT !.at = IF clients[i].role = "caller" THEN "offering" ELSE "reading",
                                        !.pc = "open"]
    <3>1. GoesTo(clients[i], c) /\ toward' = toward
      BY <2>1, <2>3, ClientSteps DEF StartTask
    <3>2. clients' = [clients EXCEPT ![i] = c]
      BY <2>3 DEF StartTask
    <3>. HIDE DEF c
    <3>. QED  BY <1>4, <2>2, <3>1, <3>2
  <2>4. CASE NextStep(i)
    <3>. DEFINE c == [clients[i] EXCEPT !.at = IF clients[i].pc = "open" THEN Following(clients[i].at) ELSE "failed"]
    <3>1. GoesTo(clients[i], c) /\ toward' = toward
      BY <2>1, <2>4, ClientSteps DEF NextStep
    <3>2. clients' = [clients EXCEPT ![i] = c]
      BY <2>4 DEF NextStep, Becomes
    <3>. HIDE DEF c
    <3>. QED  BY <1>4, <2>2, <3>1, <3>2
  <2>5. CASE Describe(i)
    <3>. DEFINE c == [clients[i] EXCEPT !.at = "sent"]
    <3>1. GoesTo(clients[i], c)
      BY <2>1, <2>5, ClientSteps DEF Describe
    <3>2. clients' = [clients EXCEPT ![i] = c]
      BY <2>5 DEF Describe, Becomes
    <3>3. kept
      <4>1. Message(i) \in M
        BY <2>1 DEF Message, M, Signals, CallRows, Clients1to1
      <4>2. toward' = IF clients[i].peered
                      THEN [toward EXCEPT ![Other(clients[i].desk)] = Append(@, Message(i))]
                      ELSE toward
        BY <2>5 DEF Describe
      <4>3. PICK e : toward' = [toward EXCEPT ![e] = Append(@, Message(i))] \/ toward' = toward
        BY <4>2
      <4>4. \A f \in Desktops : Append(toward[f], Message(i)) \in Seq(M)
        BY <1>1, <4>1
      <4>. QED  BY <1>1, <4>3, <4>4
    <3>. HIDE DEF c
    <3>. QED  BY <2>2, <3>1, <3>2, <3>3
  <2>6. CASE DescribeFails(i)
    <3>. DEFINE c == [clients[i] EXCEPT !.at = "failed"]
    <3>1. GoesTo(clients[i], c) /\ toward' = toward
      BY <2>1, <2>6, ClientSteps DEF DescribeFails
    <3>2. clients' = [clients EXCEPT ![i] = c]
      BY <2>6 DEF DescribeFails, Becomes
    <3>. HIDE DEF c
    <3>. QED  BY <1>4, <2>2, <3>1, <3>2
  <2>7. CASE HangUp(i)
    <3>. DEFINE c == [clients[i] EXCEPT !.pc = IF @ = "none" THEN @ ELSE "closed",
                                        !.hang = IF clients[i].pc = "none" THEN "ended" ELSE "closing"]
    <3>1. GoesTo(clients[i], c) /\ toward' = toward
      BY <2>1, <2>7, ClientSteps DEF HangUp
    <3>2. clients' = [clients EXCEPT ![i] = c]
      BY <2>7 DEF HangUp
    <3>. HIDE DEF c
    <3>. QED  BY <1>4, <2>2, <3>1, <3>2
  <2>8. CASE HangUpEnds(i)
    <3>. DEFINE c == [clients[i] EXCEPT !.pc = "none", !.hang = "ended"]
    <3>1. GoesTo(clients[i], c) /\ toward' = toward
      BY <2>1, <2>8, ClientSteps DEF HangUpEnds
    <3>2. clients' = [clients EXCEPT ![i] = c]
      BY <2>8 DEF HangUpEnds
    <3>. HIDE DEF c
    <3>. QED  BY <1>4, <2>2, <3>1, <3>2
  <2>9. CASE Lost(i)
    <3>1. PICK c \in {[clients[i] EXCEPT !.at = "lost"]} \cup {e \in {[clients[i] EXCEPT !.hang = "lost"]} : clients[i].hang \in {"due", "closing"}} :
             clients' = [clients EXCEPT ![i] = c]
      BY <2>9 DEF Lost, Becomes
    <3>2. GoesTo(clients[i], c) /\ toward' = toward
      BY <2>1, <2>9, <3>1, ClientSteps DEF Lost
    <3>. QED  BY <1>4, <2>2, <3>1, <3>2
  <2>. QED  BY <1>9, <2>3, <2>4, <2>5, <2>6, <2>7, <2>8, <2>9 DEF TaskSteps
<1>10. ASSUME UNCHANGED dialVars PROVE ClientsGoOn /\ kept
  <2>1. clients' = clients /\ toward' = toward
    BY <1>10 DEF dialVars
  <2>. QED  BY <1>4, <2>1, ClientsStay
<1>. QED  BY <1>3, <1>5, <1>6, <1>7, <1>8, <1>9, <1>10 DEF OneToOneNext

\* At first nobody calls.
LEMMA InitDial == OneToOneInit => DialInv
<1>. SUFFICES ASSUME OneToOneInit PROVE DialInv
  OBVIOUS
<1>1. clients = <<>> /\ toward = [d \in Desktops |-> <<>>]
  BY DEF OneToOneInit
<1>2. clients \in Seq(CallRows) /\ Len(clients) = 0
  BY <1>1
<1>3. toward \in [Desktops -> Seq(Signals)]
  BY <1>1
<1>. QED  BY <1>2, <1>3 DEF DialInv, Clients1to1

\* A call that was hung up is silent: no connection comes back, no offer and no answer
\* goes out any more, for any number of desktops and calls, and wherever the task of
\* its offer stood when the user gave up (hangup, create_offer, accept_offer).
THEOREM StaysSilent == OneToOneSpec => SilentAfterEnd
<1>1. ASSUME DialInv, [OneToOneNext]_dialVars
      PROVE  \A i \in Clients1to1 : clients[i].hang = "ended" =>
               /\ clients'[i].hang = "ended" /\ clients'[i].pc = "none"
               /\ clients'[i].at = "sent" => clients[i].at = "sent"
  <2>1. ClientsGoOn
    BY <1>1, NextDial
  <2>. QED  BY <2>1 DEF ClientsGoOn, GoesTo
<1>2. DialInv /\ [OneToOneNext]_dialVars =>
        [\A i \in Clients1to1 : clients[i].hang = "ended" =>
           /\ clients'[i].hang = "ended" /\ clients'[i].pc = "none"
           /\ clients'[i].at = "sent" => clients[i].at = "sent"]_dialVars
  BY <1>1
<1>3. DialInv /\ [OneToOneNext]_dialVars => DialInv'
  BY NextDial
<1>. QED  BY <1>2, <1>3, InitDial, PTL DEF OneToOneSpec, SilentAfterEnd

-----------------------------------------------------------------------------
(* All of them. *)

\* The parts that MC_Desk runs side by side each behave as their own module says:
\* what is proved of a part holds of the run.
THEOREM DeskPartsGoOn ==
    DeskSpec => /\ RemoteSpec /\ GroupSpec /\ OneToOneSpec
                /\ Spec /\ FileSpec
<1>1. DeskInit => RemoteInit /\ GroupInit /\ OneToOneInit /\ Init /\ FileInit
  BY DEF DeskInit
<1>2. ASSUME [DeskNext]_deskVars
      PROVE  /\ [RemoteNext]_remoteVars /\ [GroupNext]_groupVars /\ [OneToOneNext]_dialVars
             /\ [Next]_vars /\ [FileNext]_transferVars
  <2>1. CASE UNCHANGED deskVars
    BY <2>1 DEF deskVars
  <2>2. CASE DeskNext
    BY <2>2 DEF DeskNext, OtherParts
  <2>. QED  BY <1>2, <2>1, <2>2
<1>. QED  BY <1>1, <1>2, PTL DEF DeskSpec, RemoteSpec, GroupSpec, OneToOneSpec, Spec, FileSpec

\* Nothing goes on out of sight in the run of all the parts: no renderer without a
\* tile, no pointer off the screen of the host.
THEOREM AllInSight == DeskSpec => []NothingOutOfSight
<1>1. RenderersAreTiles /\ PointerOnScreen => NothingOutOfSight
  BY DEF NothingOutOfSight
<1>. QED  BY <1>1, DeskPartsGoOn, NoHiddenRenderer, PointerStays, PTL

===============================================================================

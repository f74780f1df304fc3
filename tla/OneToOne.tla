------------------------------- MODULE OneToOne -------------------------------
(***************************************************************************)
(* Calls between two desktops: CallClient (app/net/call_client.py) with    *)
(* its tasks, CallDialog and RemoteCallDialog, and the slots that open     *)
(* them (ChatHeaderMixin, SignalingMixin).  The server relays in order.    *)
(*                                                                         *)
(* An action is what happens between two awaits.  The slot of an offer     *)
(* runs inside the receive loop of the signaling client and shows its      *)
(* dialog in an event loop of its own: as long as the dialog is up nothing *)
(* is received, and what becomes of the other tasks is the affair of the   *)
(* bridge between Qt and asyncio - each of their steps happens, or is lost *)
(* with an exception and the task with it.  ICE candidates and tones are   *)
(* left out.                                                               *)
(***************************************************************************)
EXTENDS Naturals, Sequences

CONSTANTS Desktops,       \* the two desktops
          MaxClients,     \* CallClients made (bound)
          MaxRemote       \* dialogs of remote control (bound)

ASSUME OneToOneAssumption == MaxClients \in Nat /\ MaxRemote \in Nat

VARIABLES
    clients,   \* all CallClients: at, where its offer or answer stands; pc; hang, its hangup()
    active,    \* _active_call_client of a desktop, 0: none
    overlays,  \* the open dialogs of a desktop, the last one on top
    toward,    \* what the server relays to a desktop: offers and answers
    met,       \* has a desktop heard PEER_JOINED, so that it has an _active_peer_id
    asked      \* dialogs of remote control so far

dialVars == <<clients, active, overlays, toward, met, asked>>

Other(d) == CHOOSE e \in Desktops : e # d
Clients1to1 == 1..Len(clients)
Remote == 0

\* A client is made: the caller's for the peer it knows, the other one's for
\* the sender of the offer.
CallClient(d, role, offer) ==
    [desk |-> d, role |-> role, offer |-> offer, peered |-> role = "callee" \/ met[d],
     at |-> "made", pc |-> "none", hang |-> "none", answer |-> 0]

Shows(d, i) == overlays' = [overlays EXCEPT ![d] = Append(@, [call |-> i, rings |-> TRUE])]
Top(d) == overlays[d][Len(overlays[d])]
Incoming(o) == o.call # Remote /\ clients[o.call].role = "callee"
Receiving(d) == \A n \in DOMAIN overlays[d] : ~Incoming(overlays[d][n])

Becomes(i, at) == clients' = [clients EXCEPT ![i].at = at]

-----------------------------------------------------------------------------
(* The user.                                                               *)

\* _on_header_call: the header can be reached when no dialog covers it.
HeaderCall(d) ==
    /\ overlays[d] = <<>> /\ Len(clients) < MaxClients
    /\ clients' = Append(clients, CallClient(d, "caller", 0))
    /\ active' = [active EXCEPT ![d] = Len(clients')]
    /\ Shows(d, Len(clients'))
    /\ UNCHANGED <<toward, met, asked>>

RemoteCallDialog(d) == asked' = asked + 1 /\ Shows(d, Remote)

\* _on_remote_request and _on_remote_connect: the dialog of the one who asks has
\* no button to accept with, and nothing is sent.
RemoteRequest(d) ==
    /\ overlays[d] = <<>> /\ asked < MaxRemote
    /\ RemoteCallDialog(d)
    /\ UNCHANGED <<clients, active, toward, met>>

Quiet(d) == overlays' = [overlays EXCEPT ![d][Len(overlays[d])].rings = FALSE]

\* _on_accept of an incoming call stops the ringing and tells nobody.
AcceptCall(d) ==
    /\ overlays[d] # <<>> /\ Incoming(Top(d))
    /\ Quiet(d)
    /\ UNCHANGED <<clients, active, toward, met, asked>>

\* _on_end schedules hangup(); the dialog closes 1.5 s later, see Dismiss.
EndCall(d) ==
    /\ overlays[d] # <<>> /\ Top(d).call # Remote
    /\ clients[Top(d).call].hang = "none"
    /\ clients' = [clients EXCEPT ![Top(d).call].hang = "due"]
    /\ Quiet(d)
    /\ UNCHANGED <<active, toward, met, asked>>

CancelRemote(d) ==
    /\ overlays[d] # <<>> /\ Top(d).call = Remote
    /\ Quiet(d)
    /\ UNCHANGED <<clients, active, toward, met, asked>>

\* The timer of _on_end or _on_cancel, the escape key or a click beside the
\* dialog: only the loop of the topmost one can return.
Dismiss(d) ==
    /\ overlays[d] # <<>>
    /\ overlays' = [overlays EXCEPT ![d] = SubSeq(@, 1, Len(@) - 1)]
    /\ UNCHANGED <<clients, active, toward, met, asked>>

-----------------------------------------------------------------------------
(* The tasks of a client.                                                  *)

\* create_offer, or accept_offer, to its first await.
StartTask(i) ==
    /\ clients[i].at = "made"
    /\ clients' = [clients EXCEPT ![i].at = IF clients[i].role = "caller" THEN "offering" ELSE "reading",
                                  ![i].pc = "open"]
    /\ UNCHANGED <<active, overlays, toward, met, asked>>

Following(at) == IF at = "reading" THEN "answering" ELSE "describing"

\* createOffer, setRemoteDescription or createAnswer has returned, and self._pc
\* is asked for the next step: it raises when it was closed or taken away.
NextStep(i) ==
    /\ clients[i].at \in {"offering", "reading", "answering"}
    /\ Becomes(i, IF clients[i].pc = "open" THEN Following(clients[i].at) ELSE "failed")
    /\ UNCHANGED <<active, overlays, toward, met, asked>>

\* What is said: a caller's offer, or the answer to one.
Message(i) ==
    IF clients[i].role = "caller" THEN [type |-> "offer", call |-> i]
    ELSE [type |-> "answer", call |-> clients[i].offer]

\* Mutant of Describe: the connection is kept in a local variable.
DescribeLocally(i) ==
    /\ clients[i].at = "describing"
    /\ Becomes(i, "sent")
    /\ toward' = IF clients[i].peered
                 THEN [toward EXCEPT ![Other(clients[i].desk)] = Append(@, Message(i))]
                 ELSE toward
    /\ UNCHANGED <<active, overlays, met, asked>>

\* setLocalDescription has returned: the description is read from self._pc again
\* and sent, if there is a peer to send it to.
Describe(i) ==
    /\ clients[i].at = "describing"
    /\ clients[i].pc # "none"
    /\ Becomes(i, "sent")
    /\ toward' = IF clients[i].peered
                 THEN [toward EXCEPT ![Other(clients[i].desk)] = Append(@, Message(i))]
                 ELSE toward
    /\ UNCHANGED <<active, overlays, met, asked>>

\* self._pc is gone, or its closing made setLocalDescription raise.
DescribeFails(i) ==
    /\ clients[i].at = "describing"
    /\ clients[i].pc # "open"
    /\ Becomes(i, "failed")
    /\ UNCHANGED <<active, overlays, toward, met, asked>>

\* hangup(), scheduled after the task of the offer or answer, to the end of close().
HangUp(i) ==
    /\ clients[i].hang = "due"
    /\ clients[i].at # "made"
    /\ clients' = [clients EXCEPT ![i].pc = IF @ = "none" THEN @ ELSE "closed",
                                  ![i].hang = IF clients[i].pc = "none" THEN "ended" ELSE "closing"]
    /\ UNCHANGED <<active, overlays, toward, met, asked>>

HangUpEnds(i) ==
    /\ clients[i].hang = "closing"
    /\ clients' = [clients EXCEPT ![i].pc = "none", ![i].hang = "ended"]
    /\ UNCHANGED <<active, overlays, toward, met, asked>>

TaskSteps(i) ==
    \/ StartTask(i) \/ NextStep(i) \/ Describe(i) \/ DescribeFails(i)
    \/ HangUp(i) \/ HangUpEnds(i)

\* While the slot of an offer is on the stack: the step of a task is refused.
Lost(i) ==
    /\ ~Receiving(clients[i].desk)
    /\ \/ /\ clients[i].at \in {"made", "offering", "reading", "answering", "describing"}
          /\ Becomes(i, "lost")
       \/ /\ clients[i].hang \in {"due", "closing"}
          /\ clients' = [clients EXCEPT ![i].hang = "lost"]
    /\ UNCHANGED <<active, overlays, toward, met, asked>>

-----------------------------------------------------------------------------
(* The receive loop.                                                       *)

\* _on_signaling_offer: its client becomes the active one at once, and its task
\* answers without waiting for the user.
OfferReceived(d, m) ==
    /\ m.type = "offer" /\ Len(clients) < MaxClients
    /\ clients' = Append(clients, CallClient(d, "callee", m.call))
    /\ active' = [active EXCEPT ![d] = Len(clients')]
    /\ Shows(d, Len(clients'))

\* setRemoteDescription takes an answer when an offer of its own waits for one.
AwaitsAnswer(c) ==
    /\ c.pc = "open" /\ c.role = "caller"
    /\ c.at \in {"describing", "sent"} /\ c.answer = 0

\* _on_signaling_answer: to the client that is active now, whoever is answered.
AnswerReceived(d, m) ==
    /\ m.type = "answer"
    /\ clients' = IF active[d] # 0 /\ AwaitsAnswer(clients[active[d]])
                  THEN [clients EXCEPT ![active[d]].answer = m.call] ELSE clients
    /\ UNCHANGED <<active, overlays>>

Receive(d) ==
    /\ Receiving(d) /\ toward[d] # <<>>
    /\ OfferReceived(d, Head(toward[d])) \/ AnswerReceived(d, Head(toward[d]))
    /\ toward' = [toward EXCEPT ![d] = Tail(@)]
    /\ UNCHANGED <<met, asked>>

PeerJoined(d) ==
    /\ Receiving(d) /\ ~met[d]
    /\ met' = [met EXCEPT ![d] = TRUE]
    /\ UNCHANGED <<clients, active, overlays, toward, asked>>

-----------------------------------------------------------------------------
OneToOneInit ==
    /\ clients = <<>> /\ asked = 0
    /\ active = [d \in Desktops |-> 0]
    /\ overlays = [d \in Desktops |-> <<>>]
    /\ toward = [d \in Desktops |-> <<>>]
    /\ met = [d \in Desktops |-> FALSE]

OneToOneNext ==
    \/ \E d \in Desktops :
         \/ HeaderCall(d) \/ RemoteRequest(d)
         \/ AcceptCall(d) \/ EndCall(d) \/ CancelRemote(d) \/ Dismiss(d)
         \/ Receive(d) \/ PeerJoined(d)
    \/ \E i \in Clients1to1 : TaskSteps(i) \/ Lost(i)

OneToOneSpec == OneToOneInit /\ [][OneToOneNext]_dialVars

-----------------------------------------------------------------------------
(* Properties.                                                             *)

\* A call whose hangup() is over has no connection again, and the other side
\* hears no offer and no answer of it any more, wherever its own task was when
\* the user gave up (CallClient.hangup, create_offer, accept_offer).
SilentAfterEnd ==
    [][\A i \in Clients1to1 : clients[i].hang = "ended" =>
         /\ clients'[i].hang = "ended" /\ clients'[i].pc = "none"
         /\ clients'[i].at = "sent" => clients[i].at = "sent"]_dialVars

===============================================================================

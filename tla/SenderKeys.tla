------------------------------ MODULE SenderKeys ------------------------------
(***************************************************************************)
(* Sender keys of a group (app/crypto/sender_keys.py): the chain of one    *)
(* sender, handed to each member in a distribution.  A chain key is the    *)
(* chain it is of and its position; deriving goes forward only.            *)
(* Distributions go to each member alone, messages to the group, so either *)
(* may overtake the other; messages may be lost.                           *)
(***************************************************************************)
EXTENDS Naturals, Sequences, SequencesExt

CONSTANTS Members,
          MaxChains,      \* sender keys created (bound)
          MaxMessages,    \* messages of the sender (bound)
          MaxGiven        \* distributions on their way to a member (bound)

ASSUME SenderKeysAssumption == {MaxChains, MaxMessages, MaxGiven} \subseteq Nat

VARIABLES
    own,       \* SenderKeyState of the sender: [chain, counter]
    sent,      \* the key of each message so far
    given,     \* distributions on their way to each member: [state, after]
    inbox,     \* messages on their way to each member
    states,    \* SenderKeyState of each member
    entered,   \* number of messages sent when that state was built (ghost)
    got        \* messages each member has read with it (ghost)

senderKeyVars == <<own, sent, given, inbox, states, entered, got>>

NoState == [chain |-> 0, counter |-> 0]

-----------------------------------------------------------------------------

\* The state after the key that is due is taken from it.
Derived(state) == [chain |-> state.chain, counter |-> state.counter + 1]

\* create_sender_key.
CreateSenderKey ==
    /\ own.chain < MaxChains
    /\ own' = [chain |-> own.chain + 1, counter |-> 0]
    /\ UNCHANGED <<sent, given, inbox, states, entered, got>>

\* Mutant of BuildDistribution: the key the chain began with.
DistributeFromTheStart(state) == [chain |-> state.chain, counter |-> 0]

\* build_distribution: the key and the counter the chain has now.
BuildDistribution(state) == state

Distribute(m) ==
    /\ own # NoState /\ Len(given[m]) < MaxGiven
    /\ given' = [given EXCEPT ![m] = Append(@, [state |-> BuildDistribution(own), after |-> Len(sent)])]
    /\ UNCHANGED <<own, sent, inbox, states, entered, got>>

\* encrypt_group_message, to everyone.
Say ==
    /\ own # NoState /\ Len(sent) < MaxMessages
    /\ sent' = Append(sent, own)
    /\ own' = Derived(own)
    /\ inbox' = [m \in Members |-> Append(inbox[m], Len(sent'))]
    /\ UNCHANGED <<given, states, entered, got>>

\* apply_distribution: a state like any other, in the place of the last one.
ApplyDistribution(m) ==
    /\ given[m] # <<>>
    /\ states' = [states EXCEPT ![m] = Head(given[m]).state]
    /\ entered' = [entered EXCEPT ![m] = Head(given[m]).after]
    /\ got' = [got EXCEPT ![m] = {}]
    /\ given' = [given EXCEPT ![m] = Tail(@)]
    /\ UNCHANGED <<own, sent, inbox>>

\* decrypt_group_message: the key that is due decrypts, or the call raises and
\* the state stays as it is.
Readable(m, n) == sent[n] = states[m]

Decrypt(m) ==
    /\ inbox[m] # <<>>
    /\ IF Readable(m, Head(inbox[m]))
       THEN /\ states' = [states EXCEPT ![m] = Derived(@)]
            /\ got' = [got EXCEPT ![m] = @ \cup {Head(inbox[m])}]
       ELSE UNCHANGED <<states, got>>
    /\ inbox' = [inbox EXCEPT ![m] = Tail(@)]
    /\ UNCHANGED <<own, sent, given, entered>>

Lose(m) ==
    /\ inbox[m] # <<>>
    /\ inbox' = [inbox EXCEPT ![m] = Tail(@)]
    /\ UNCHANGED <<own, sent, given, states, entered, got>>

SenderKeysInit ==
    /\ own = NoState /\ sent = <<>>
    /\ given = [m \in Members |-> <<>>] /\ inbox = [m \in Members |-> <<>>]
    /\ states = [m \in Members |-> NoState]
    /\ entered = [m \in Members |-> 0] /\ got = [m \in Members |-> {}]

SenderKeysNext ==
    \/ CreateSenderKey \/ Say
    \/ \E m \in Members : Distribute(m) \/ ApplyDistribution(m) \/ Decrypt(m) \/ Lose(m)

SenderKeysSpec == SenderKeysInit /\ [][SenderKeysNext]_senderKeyVars

-----------------------------------------------------------------------------
(* Properties.                                                             *)

\* A SenderKeyState, and a SenderKeyDistribution with the number of messages before it.
SenderKeyStates == [chain : 0..MaxChains, counter : 0..MaxMessages]
Distributions == [state : SenderKeyStates, after : 0..MaxMessages]

(* Type invariant.                                                         *)
SenderKeysTypeOK ==
    /\ own \in SenderKeyStates /\ states \in [Members -> SenderKeyStates]
    /\ sent \in Seq(SenderKeyStates) /\ given \in [Members -> Seq(Distributions)]
    /\ inbox \in [Members -> Seq(1..MaxMessages)]

(* A member who is given the chain can read what is said on it from then on *)
(* and nothing that was said before, however the two overtake each other;  *)
(* and one message that is lost ends the reading until the next            *)
(* distribution, for sender keys keep no skipped keys.                     *)
ReadsFromEntering ==
    \A m \in Members : \A n \in ToSet(inbox[m]) :
        Readable(m, n) <=>
            /\ n > entered[m] /\ sent[n].chain = states[m].chain
            /\ entered[m] + 1 .. n - 1 = got[m]

=============================================================================

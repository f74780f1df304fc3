--------------------------- MODULE RatchetSession ---------------------------
(***************************************************************************)
(* The end-to-end encrypted session of two peers (app/crypto/session.py,   *)
(* double_ratchet.py, skipped_keys.py), one action per function.           *)
(*                                                                         *)
(* A key that HKDF derives is the sequence of the Diffie-Hellman outputs   *)
(* that went into it, a DH output the pair of its public keys, a message   *)
(* key the chain's key and a counter: two keys are equal exactly when they *)
(* were derived alike.  Messages arrive in any order, any number of times  *)
(* or never: net is what has been sent, and nothing is taken from it.      *)
(***************************************************************************)
EXTENDS Naturals, Sequences

CONSTANTS
    MaxSkipPerChain,   \* _MAX_SKIP_PER_CHAIN
    MaxSkip,           \* SkippedKeyStore.max_skip
    MaxTurns,          \* bound: DH key pairs a peer makes after its first
    MaxFirst, MaxLater,\* bounds: messages in the chain of a peer's first key
                       \* pair, and of each later one
    Reattach           \* does the caller put the skipped_store it had into
                       \* the state that encrypting or advancing returns?

ASSUME LimitsAssumption ==
    /\ MaxSkip \in Nat \ {0} /\ MaxSkipPerChain \in Nat
    /\ MaxTurns \in Nat /\ MaxFirst \in Nat /\ MaxLater \in Nat
    /\ Reattach \in BOOLEAN

Peers == {"alice", "bob"}
Other(p) == IF p = "alice" THEN "bob" ELSE "alice"

VARIABLES
    root,      \* root_key
    mine,      \* my_dh_public: number of key pairs the peer made before it
    theirs,    \* peer_dh_public, NoKey: None
    known,     \* public keys of the other that the caller has seen
    sending,   \* sending_chain: key and counter; the empty key: None
    receiving, \* receiving_chain
    stored,    \* skipped_store is not None
    store,     \* entries of skipped_store, the oldest first
    net,       \* messages sent
    opened,    \* messages decrypted
    dropped    \* message keys that a store has evicted, or deleted as expired

dhState == <<root, mine, theirs, known>>
vars == <<dhState, sending, receiving, stored, store, net, opened, dropped>>

NoKey == MaxTurns + 1
Keys == 0 .. MaxTurns
Outputs == Keys \X Keys

\* x25519_shared_secret of p's key pair i and the other's public key j.
Dh(p, i, j) == IF p = "alice" THEN <<i, j>> ELSE <<j, i>>

\* _derive_root_and_chain: the next root key and the chain key.
Derive(key, dh) == Append(key, dh)

NoChain == [key |-> <<>>, counter |-> 0]
NewChain(key) == [key |-> key, counter |-> 0]

Init ==
    LET first == Derive(<<>>, Dh("alice", 0, 0)) IN
    /\ root = [p \in Peers |-> IF p = "alice" THEN first ELSE <<>>]
    /\ mine = [p \in Peers |-> 0]
    /\ theirs = [p \in Peers |-> IF p = "alice" THEN 0 ELSE NoKey]
    /\ known = [p \in Peers |-> IF p = "alice" THEN {0} ELSE {}]
    /\ sending = [p \in Peers |-> IF p = "alice" THEN NewChain(first)
                                  ELSE NoChain]
    /\ receiving = [p \in Peers |-> NoChain]
    /\ stored = [p \in Peers |-> TRUE]
    /\ store = [p \in Peers |-> <<>>]
    /\ net = {}
    /\ opened = {}
    /\ dropped = {}

-----------------------------------------------------------------------------
(* DH ratchet and encryption. *)

\* The states that advance_dh_ratchet and encrypt_with_session return have no
\* skipped_store: what p's store is when the caller gives them one.
Carried(p) == IF Reattach THEN store ELSE [store EXCEPT ![p] = <<>>]

\* Mutant of Advance: the sending chain is derived from the root key that was
\* there before the receiving chain.
AdvanceFromOldRoot(p, j) ==
    LET i == mine[p] + 1
        back == Derive(root[p], Dh(p, mine[p], j))
        forth == Derive(root[p], Dh(p, i, j)) IN
    /\ i <= MaxTurns
    /\ root' = [root EXCEPT ![p] = forth]
    /\ mine' = [mine EXCEPT ![p] = i]
    /\ theirs' = [theirs EXCEPT ![p] = j]
    /\ receiving' = [receiving EXCEPT ![p] = NewChain(back)]
    /\ sending' = [sending EXCEPT ![p] = NewChain(forth)]
    /\ stored' = [stored EXCEPT ![p] = TRUE]
    /\ store' = Carried(p)

\* advance_dh_ratchet.  The caller, who means to decrypt out of order, puts a
\* skipped_store into what it returns.
Advance(p, j) ==
    LET i == mine[p] + 1
        back == Derive(root[p], Dh(p, mine[p], j))
        forth == Derive(back, Dh(p, i, j)) IN
    /\ i <= MaxTurns
    /\ root' = [root EXCEPT ![p] = forth]
    /\ mine' = [mine EXCEPT ![p] = i]
    /\ theirs' = [theirs EXCEPT ![p] = j]
    /\ receiving' = [receiving EXCEPT ![p] = NewChain(back)]
    /\ sending' = [sending EXCEPT ![p] = NewChain(forth)]
    /\ stored' = [stored EXCEPT ![p] = TRUE]
    /\ store' = Carried(p)

\* The caller advances for a public key it has not seen yet.
NewPublicKey(p) ==
    \E m \in net :
        /\ m.to = p
        /\ m.dh \notin known[p]
        /\ known' = [known EXCEPT ![p] = @ \cup {m.dh}]
        /\ Advance(p, m.dh)
        /\ UNCHANGED <<net, opened, dropped>>

\* encrypt_with_session.  A caller that goes by the docstring takes what it
\* returns for the session.
Encrypt(p) ==
    LET chain == sending[p] IN
    /\ chain # NoChain
    /\ chain.counter < IF mine[p] = 0 THEN MaxFirst ELSE MaxLater
    /\ net' = net \cup {[to |-> Other(p), dh |-> mine[p], key |-> chain.key,
                         counter |-> chain.counter]}
    /\ sending' = [sending EXCEPT ![p].counter = @ + 1]
    /\ stored' = [stored EXCEPT ![p] = @ /\ Reattach]
    /\ store' = Carried(p)
    /\ UNCHANGED <<dhState, receiving, opened, dropped>>

-----------------------------------------------------------------------------
(* SkippedKeyStore. *)

KeyOf(e) == [key |-> e.key, counter |-> e.counter]
IsFor(e, m) == e.dh = m.dh /\ e.counter = m.counter
Remove(s, i) == SubSeq(s, 1, i - 1) \o SubSeq(s, i + 1, Len(s))

\* put, of several keys: how many of the oldest entries of s go.
Evicted(s) == IF Len(s) <= MaxSkip THEN 0 ELSE Len(s) - MaxSkip

\* Mutant of Skipped: filed under the counter of the chain after the key was
\* taken from it.
SkippedUnderNext(chain, m) ==
    [k \in 1 .. m.counter - chain.counter |->
        [dh |-> m.dh, counter |-> chain.counter + k, key |-> chain.key,
         late |-> FALSE]]

\* _skip_forward_chain_keys, to the counter of m: the entries.  They bear the
\* public key of m, whatever chain they are from.
Skipped(chain, m) ==
    [k \in 1 .. m.counter - chain.counter |->
        [dh |-> m.dh, counter |-> chain.counter + k - 1, key |-> chain.key,
         late |-> FALSE]]

\* get, of the counter of m, finds nothing or deletes an expired entry.
GetsNone(m) ==
    \A i \in DOMAIN store[m.to] : IsFor(store[m.to][i], m) => store[m.to][i].late

\* The entries of s that a get of m's counter and a put of the entries new leave
\* where they are.
Stays(e, m, new) == ~IsFor(e, m) /\ \A k \in DOMAIN new : ~IsFor(e, new[k])
Staying(s, m, new) ==
    LET kept[i \in 0 .. Len(s)] ==
            IF i = 0 THEN <<>>
            ELSE IF Stays(s[i], m, new) THEN Append(kept[i - 1], s[i]) ELSE kept[i - 1]
    IN  kept[Len(s)]

\* The store of m's receiver after that get and put, which puts the entries new
\* at the end; and the keys that are gone.
GetThenPut(m, new) ==
    LET p == m.to
        all == Staying(store[p], m, new) \o new
        n == Evicted(all)
        late == {i \in DOMAIN store[p] : IsFor(store[p][i], m)} IN
    /\ store' = [store EXCEPT ![p] = SubSeq(all, n + 1, Len(all))]
    /\ dropped' = dropped \cup {KeyOf(all[k]) : k \in 1 .. n}
                          \cup {KeyOf(store[p][i]) : i \in late}

\* ttl_seconds go by for the oldest entries, ...
GrowOld(p) ==
    \E i \in DOMAIN store[p] :
        /\ ~store[p][i].late
        /\ store' = [store EXCEPT ![p] =
                        [k \in DOMAIN store[p] |->
                            [store[p][k] EXCEPT !.late = store[p][k].late \/ k <= i]]]
        /\ UNCHANGED <<dhState, sending, receiving, stored, net, opened,
                       dropped>>

\* ... which expire() deletes.
Expire(p) ==
    LET n == CHOOSE n \in 0 .. Len(store[p]) :
                \A k \in DOMAIN store[p] : store[p][k].late <=> k <= n IN
    /\ n > 0
    /\ store' = [store EXCEPT ![p] = SubSeq(@, n + 1, Len(@))]
    /\ dropped' = dropped \cup {KeyOf(store[p][k]) : k \in 1 .. n}
    /\ UNCHANGED <<dhState, sending, receiving, stored, net, opened>>

-----------------------------------------------------------------------------
(* Decryption.  aes_gcm_decrypt succeeds with the key of the message only. *)

Fits(chain, m) == chain.key = m.key

\* decrypt_with_session, of the next message; of any other it raises, and
\* nothing changes.
DecryptInOrder(m) ==
    LET p == m.to
        chain == receiving[p] IN
    /\ chain # NoChain
    /\ Fits(chain, m) /\ chain.counter = m.counter
    /\ opened' = opened \cup {m}
    /\ receiving' = [receiving EXCEPT ![p].counter = @ + 1]
    /\ UNCHANGED <<dhState, sending, stored, store, net, dropped>>

\* decrypt_with_session_ooo with a stored key, which is used up, also when it is
\* not the message's.
OpenStored(m) ==
    /\ \E i \in DOMAIN store[m.to] : LET e == store[m.to][i] IN
          /\ IsFor(e, m) /\ ~e.late
          /\ store' = [store EXCEPT ![m.to] = Remove(@, i)]
          /\ opened' = IF e.key = m.key THEN opened \cup {m} ELSE opened
    /\ UNCHANGED <<dhState, sending, receiving, stored, net, dropped>>

\* The chain of m's receiver can be wound forward to m.
Ahead(m) ==
    LET n == receiving[m.to].counter IN
    n <= m.counter /\ m.counter - n <= MaxSkipPerChain

\* decrypt_with_session_ooo without a stored key: the keys that the chain passes
\* are stored before the message is decrypted.  The chain itself only moves if
\* it could be.
WindForward(m) ==
    /\ GetsNone(m) /\ Ahead(m)
    /\ GetThenPut(m, Skipped(receiving[m.to], m))
    /\ IF Fits(receiving[m.to], m)
       THEN /\ opened' = opened \cup {m}
            /\ receiving' = [receiving EXCEPT ![m.to].counter = m.counter + 1]
       ELSE UNCHANGED <<opened, receiving>>
    /\ UNCHANGED <<dhState, sending, stored, net>>

\* The same when the chain is past the message, or too far behind: ValueError.
Refused(m) ==
    /\ GetsNone(m) /\ ~Ahead(m)
    /\ GetThenPut(m, <<>>)
    /\ UNCHANGED <<dhState, sending, receiving, stored, net, opened>>

\* The caller has advanced for the public key of the message before.
DecryptOutOfOrder(m) ==
    /\ receiving[m.to] # NoChain
    /\ stored[m.to]
    /\ m.dh \in known[m.to]
    /\ OpenStored(m) \/ WindForward(m) \/ Refused(m)

-----------------------------------------------------------------------------
Next ==
    \/ \E p \in Peers :
          NewPublicKey(p) \/ Encrypt(p) \/ GrowOld(p) \/ Expire(p)
    \/ \E m \in net : DecryptInOrder(m) \/ DecryptOutOfOrder(m)

Spec == Init /\ [][Next]_vars

Chains == [key : Seq(Outputs), counter : Nat]
Messages == [to : Peers, dh : Keys, key : Seq(Outputs), counter : Nat]
Entries == [dh : Keys, counter : Nat, key : Seq(Outputs), late : BOOLEAN]

TypeOK ==
    /\ root \in [Peers -> Seq(Outputs)]
    /\ mine \in [Peers -> Keys]
    /\ theirs \in [Peers -> Keys \cup {NoKey}]
    /\ known \in [Peers -> SUBSET Keys]
    /\ sending \in [Peers -> Chains]
    /\ receiving \in [Peers -> Chains]
    /\ stored \in [Peers -> BOOLEAN]
    /\ \A p \in Peers : store[p] \in Seq(Entries) /\ Len(store[p]) <= MaxSkip
    /\ net \subseteq Messages
    /\ opened \subseteq net

-----------------------------------------------------------------------------
(* Properties. *)

\* Whatever one peer sends, the other is one advance at most away from the chain
\* that opens it, in whatever order the messages of the turns arrive.
InStep ==
    \A p \in Peers : LET q == Other(p) IN
        sending[q] # NoChain =>
            IF mine[q] \in known[p]
            THEN theirs[p] = mine[q] /\ receiving[p].key = sending[q].key
            ELSE Derive(root[p], Dh(p, mine[p], mine[q])) = sending[q].key

\* The key of a message that has been opened is gone: a copy of it that comes
\* later is not taken for a message, neither from the store nor from the chain.
KeyGone ==
    \A m \in opened : LET p == m.to IN
        /\ Fits(receiving[p], m) => m.counter < receiving[p].counter
        /\ \A i \in DOMAIN store[p] :
              IsFor(store[p][i], m) => store[p][i].key # m.key

\* A message of the chain in use that was overtaken can still be opened, unless
\* it has been or its key was evicted or has expired.
OvertakenIsKept ==
    \A m \in net \ opened : LET p == m.to IN
        Fits(receiving[p], m) /\ m.counter < receiving[p].counter =>
            \/ \E i \in DOMAIN store[p] :
                  IsFor(store[p][i], m) /\ KeyOf(store[p][i]) = KeyOf(m)
            \/ KeyOf(m) \in dropped

=============================================================================

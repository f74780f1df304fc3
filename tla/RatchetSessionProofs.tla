------------------------ MODULE RatchetSessionProofs ------------------------
(***************************************************************************)
(* Proofs about RatchetSession, for any number of key pairs and messages,  *)
(* any limits of the store, and either kind of caller.                     *)
(*                                                                         *)
(* The inductive invariant says whose turn it is.  Alice has made one key  *)
(* pair per key of Bob's she has seen after the first, Bob one per key of  *)
(* Alice's, so they are level when the key that Bob has not seen is on its *)
(* way, and Bob is one ahead when his is.  The root key of the one ahead   *)
(* is then what the other derives next.                                    *)
(***************************************************************************)
EXTENDS RatchetSession, ListProofs, TLAPS

Types ==
    /\ root \in [Peers -> Seq(Outputs)]
    /\ mine \in [Peers -> Keys]
    /\ theirs \in [Peers -> Keys \cup {NoKey}]
    /\ known \in [Peers -> SUBSET Keys]
    /\ sending \in [Peers -> Chains]
    /\ receiving \in [Peers -> Chains]
    /\ net \subseteq Messages

\* What each peer has seen, and what is on its way to it.
Seen ==
    /\ known["alice"] = 0 .. mine["alice"]
    /\ known["bob"] = 0 .. mine["bob"] - 1
    /\ theirs["alice"] = mine["alice"]
    /\ mine["bob"] > 0 => theirs["bob"] = mine["bob"] - 1
    /\ \A m \in net : m.dh <= mine[Other(m.to)]

\* A sending chain starts from the root key, a receiving chain from the other's.
Roots ==
    /\ sending["alice"].key = root["alice"]
    /\ mine["bob"] = 0 => sending["bob"] = NoChain
    /\ mine["bob"] > 0 => sending["bob"].key = root["bob"]

Level ==
    /\ mine["bob"] = mine["alice"]
    /\ root["alice"] =
          Derive(root["bob"], Dh("bob", mine["bob"], mine["alice"]))
    /\ mine["bob"] > 0 => receiving["alice"].key = root["bob"]

BobAhead ==
    /\ mine["bob"] = mine["alice"] + 1
    /\ root["bob"] =
          Derive(root["alice"], Dh("alice", mine["alice"], mine["bob"]))
    /\ receiving["bob"].key = root["alice"]

Turns == Seen /\ Roots /\ (Level \/ BobAhead)

RInv == Types /\ Turns

-----------------------------------------------------------------------------
\* A derived key is a key, and the two ends compute the same DH output.
LEMMA DeriveType ==
    ASSUME NEW p \in Peers, NEW i \in Keys, NEW j \in Keys,
           NEW key \in Seq(Outputs)
    PROVE  /\ Derive(key, Dh(p, i, j)) \in Seq(Outputs)
           /\ Dh(p, i, j) = Dh(Other(p), j, i)
<1>1. Dh(p, i, j) \in Outputs
  BY DEF Dh, Outputs
<1>2. Dh(p, i, j) = Dh(Other(p), j, i)
  BY DEF Dh, Other
<1>3. QED
  BY <1>1, <1>2 DEF Derive

\* The session starts with Bob to see Alice's first key.
LEMMA InitTurns == Init => RInv
<1> SUFFICES ASSUME Init PROVE RInv
  OBVIOUS
<1> DEFINE first == Derive(<<>>, Dh("alice", 0, 0))
<1>1. 0 \in Keys /\ "alice" \in Peers /\ "bob" \in Peers
  BY LimitsAssumption DEF Keys, Peers
<1>2. <<>> \in Seq(Outputs) /\ first \in Seq(Outputs)
  <2>1. <<>> \in Seq(Outputs)
    OBVIOUS
  <2>2. QED
    BY <1>1, <2>1, DeriveType
<1>3. NoChain \in Chains /\ NewChain(first) \in Chains
  BY <1>2 DEF Chains, NoChain, NewChain
<1>4. Types
  BY <1>1, <1>2, <1>3 DEF Init, Types
<1>5. Seen
  BY <1>1 DEF Init, Seen
<1>6. Roots
  BY <1>1 DEF Init, Roots, NewChain
<1>7. Level
  BY <1>1 DEF Init, Level, Dh
<1>8. QED
  BY <1>4, <1>5, <1>6, <1>7 DEF RInv, Turns

\* What leaves the DH state, the sending chains and the messages alone, and moves
\* receiving chains along their keys only.
LEMMA QuietStep ==
    ASSUME RInv, UNCHANGED <<dhState, sending, net>>,
           receiving' \in [Peers -> Chains],
           \A p \in Peers : receiving'[p].key = receiving[p].key
    PROVE  RInv'
<1>1. Types'
  BY DEF RInv, Types, dhState
<1>2. Seen' /\ Roots'
  BY DEF RInv, Turns, Seen, Roots, dhState
<1>3. receiving'["alice"].key = receiving["alice"].key
      /\ receiving'["bob"].key = receiving["bob"].key
  BY DEF Peers
<1>4. Level' \/ BobAhead'
  BY <1>3 DEF RInv, Turns, Level, BobAhead, dhState
<1>5. QED
  BY <1>1, <1>2, <1>4 DEF RInv, Turns

\* A receiving chain that has moved along.
LEMMA ChainMoved ==
    ASSUME RInv, NEW p \in Peers, NEW n \in Nat,
           receiving' = [receiving EXCEPT ![p].counter = n]
    PROVE  /\ receiving' \in [Peers -> Chains]
           /\ \A q \in Peers : receiving'[q].key = receiving[q].key
BY DEF RInv, Types, Chains

\* No decryption disturbs the turns, whatever message arrives.
LEMMA DecryptionStep ==
    ASSUME RInv, NEW m \in net, DecryptInOrder(m) \/ DecryptOutOfOrder(m)
    PROVE  RInv'
<1> DEFINE p == m.to
<1>1. p \in Peers /\ m.counter \in Nat /\ receiving[p].counter \in Nat
  BY DEF RInv, Types, Messages, Chains
<1>2. CASE DecryptInOrder(m)
  <2>1. receiving' = [receiving EXCEPT ![p].counter = receiving[p].counter + 1]
    BY <1>2 DEF DecryptInOrder
  <2>2. UNCHANGED <<dhState, sending, net>>
    BY <1>2 DEF DecryptInOrder
  <2>3. receiving[p].counter + 1 \in Nat
    BY <1>1
  <2>4. QED
    BY <1>1, <2>1, <2>2, <2>3, ChainMoved, QuietStep
<1>3. CASE WindForward(m)
  <2>1. UNCHANGED <<dhState, sending, net>>
    BY <1>3 DEF WindForward
  <2>2. CASE receiving' = receiving
    BY <2>1, <2>2, QuietStep DEF RInv, Types
  <2>3. CASE receiving' = [receiving EXCEPT ![p].counter = m.counter + 1]
    <3>1. m.counter + 1 \in Nat
      BY <1>1
    <3>2. QED
      BY <1>1, <2>1, <2>3, <3>1, ChainMoved, QuietStep
  <2>4. QED
    BY <1>3, <2>2, <2>3 DEF WindForward
<1>4. CASE OpenStored(m) \/ Refused(m)
  <2>1. UNCHANGED <<dhState, sending, net, receiving>>
    BY <1>4 DEF OpenStored, Refused
  <2>2. QED
    BY <2>1, QuietStep DEF RInv, Types
<1>5. QED
  BY <1>2, <1>3, <1>4 DEF DecryptOutOfOrder

\* A message bears the newest public key of its sender.
LEMMA EncryptStep ==
    ASSUME RInv, NEW p \in Peers, Encrypt(p)
    PROVE  RInv'
<1> DEFINE new == [to |-> Other(p), dh |-> mine[p], key |-> sending[p].key,
                   counter |-> sending[p].counter]
<1>1. new \in Messages
  BY DEF RInv, Types, Messages, Chains, Peers, Other
<1>2. net' = net \cup {new} /\ UNCHANGED <<dhState, receiving>>
      /\ sending[p] # NoChain
      /\ sending' = [sending EXCEPT ![p].counter = sending[p].counter + 1]
  BY DEF Encrypt
<1>3. /\ sending' \in [Peers -> Chains]
      /\ \A q \in Peers : sending'[q].key = sending[q].key
      /\ \A q \in Peers : q # p => sending'[q] = sending[q]
  <2>1. sending \in [Peers -> Chains] /\ sending[p].counter + 1 \in Nat
    BY DEF RInv, Types, Chains
  <2>2. QED
    BY <1>2, <2>1 DEF Chains
<1>4. Types'
  BY <1>1, <1>2, <1>3 DEF RInv, Types, dhState
<1>5. Seen'
  <2>1. new.dh <= mine[Other(new.to)]
    BY DEF RInv, Types, Keys, Peers, Other
  <2>2. QED
    BY <1>2, <2>1 DEF RInv, Turns, Seen, dhState
<1>6. Roots'
  BY <1>2, <1>3 DEF RInv, Turns, Roots, dhState
<1>7. Level' \/ BobAhead'
  BY <1>2 DEF RInv, Turns, Level, BobAhead, dhState
<1>8. QED
  BY <1>4, <1>5, <1>6, <1>7 DEF RInv, Turns

\* What advance_dh_ratchet does to the types.
LEMMA AdvanceType ==
    ASSUME RInv, NEW p \in Peers, NewPublicKey(p)
    PROVE  Types'
<1> PICK m \in net : m.to = p /\ m.dh \notin known[p] /\ Advance(p, m.dh)
                     /\ known' = [known EXCEPT ![p] = @ \cup {m.dh}]
                     /\ net' = net
  BY DEF NewPublicKey
<1> DEFINE j == m.dh
           back == Derive(root[p], Dh(p, mine[p], j))
           forth == Derive(back, Dh(p, mine[p] + 1, j))
<1>1. j \in Keys /\ mine[p] \in Keys /\ mine[p] + 1 \in Keys
  BY LimitsAssumption DEF RInv, Types, Messages, Advance, Keys
<1>2. back \in Seq(Outputs)
  BY <1>1, DeriveType DEF RInv, Types
<1>3. forth \in Seq(Outputs)
  BY <1>1, <1>2, DeriveType
<1>4. NewChain(back) \in Chains /\ NewChain(forth) \in Chains
  BY <1>2, <1>3 DEF Chains, NewChain
<1>5. root' = [root EXCEPT ![p] = forth]
      /\ receiving' = [receiving EXCEPT ![p] = NewChain(back)]
      /\ sending' = [sending EXCEPT ![p] = NewChain(forth)]
      /\ mine' = [mine EXCEPT ![p] = mine[p] + 1]
      /\ theirs' = [theirs EXCEPT ![p] = j]
  BY DEF Advance
<1> HIDE DEF j, back, forth
<1>6. QED
  BY <1>1, <1>3, <1>4, <1>5 DEF RInv, Types, j

\* A key that Alice has not seen is Bob's last one, and she draws level.
LEMMA AliceStep ==
    ASSUME RInv, NewPublicKey("alice")
    PROVE  RInv'
<1> PICK m \in net : m.to = "alice" /\ m.dh \notin known["alice"]
                     /\ Advance("alice", m.dh)
                     /\ known' = [known EXCEPT !["alice"] = @ \cup {m.dh}]
                     /\ net' = net
  BY DEF NewPublicKey
<1> DEFINE a == mine["alice"]
           b == mine["bob"]
           back == Derive(root["alice"], Dh("alice", a, b))
           forth == Derive(back, Dh("alice", a + 1, b))
<1>1. "alice" \in Peers /\ "bob" \in Peers /\ a \in Nat /\ b \in Nat
      /\ m.dh \in Nat
  BY DEF Peers, RInv, Types, Keys, Messages
<1>2. BobAhead /\ m.dh = b /\ b = a + 1
  <2>1. m.dh <= b
    BY DEF RInv, Turns, Seen, Other
  <2>2. m.dh > a
    BY <1>1 DEF RInv, Turns, Seen
  <2>3. QED
    BY <1>1, <2>1, <2>2 DEF RInv, Turns, Level, BobAhead
<1>3. /\ root'["alice"] = forth /\ root'["bob"] = root["bob"]
      /\ mine'["alice"] = a + 1 /\ mine'["bob"] = b
      /\ theirs'["alice"] = b /\ theirs'["bob"] = theirs["bob"]
      /\ receiving'["alice"] = NewChain(back)
      /\ sending'["alice"] = NewChain(forth) /\ sending'["bob"] = sending["bob"]
      /\ known'["alice"] = known["alice"] \cup {b}
      /\ known'["bob"] = known["bob"]
  BY <1>1, <1>2 DEF Advance, RInv, Types
<1>4. back = root["bob"]
  BY <1>2 DEF BobAhead
<1>5. Seen'
  <2>1. \A k \in net' : k.dh <= mine'[Other(k.to)]
    BY <1>1, <1>3 DEF RInv, Types, Turns, Seen, Messages, Keys, Other
  <2>2. known'["alice"] = 0 .. mine'["alice"]
    <3>1. (0 .. a) \cup {a + 1} = 0 .. a + 1
      BY <1>1
    <3>2. QED
      BY <1>2, <1>3, <3>1 DEF RInv, Turns, Seen
  <2>3. known'["bob"] = 0 .. mine'["bob"] - 1
    BY <1>3 DEF RInv, Turns, Seen
  <2>4. /\ theirs'["alice"] = mine'["alice"]
        /\ mine'["bob"] > 0 => theirs'["bob"] = mine'["bob"] - 1
    BY <1>2, <1>3 DEF RInv, Turns, Seen
  <2>5. QED
    BY <2>1, <2>2, <2>3, <2>4 DEF Seen
<1>6. Roots'
  BY <1>3 DEF RInv, Turns, Roots, NewChain
<1>7. Level'
  <2>1. Dh("alice", a + 1, b) = Dh("bob", b, a + 1)
    BY DEF Dh
  <2>2. QED
    BY <1>2, <1>3, <1>4, <2>1 DEF Level, NewChain
<1>8. QED
  BY <1>5, <1>6, <1>7, <1>1, AdvanceType DEF RInv, Turns

\* A key that Bob has not seen is Alice's last one, and he goes ahead.
LEMMA BobStep ==
    ASSUME RInv, NewPublicKey("bob")
    PROVE  RInv'
<1> PICK m \in net : m.to = "bob" /\ m.dh \notin known["bob"]
                     /\ Advance("bob", m.dh)
                     /\ known' = [known EXCEPT !["bob"] = @ \cup {m.dh}]
                     /\ net' = net
  BY DEF NewPublicKey
<1> DEFINE a == mine["alice"]
           b == mine["bob"]
           back == Derive(root["bob"], Dh("bob", b, a))
           forth == Derive(back, Dh("bob", b + 1, a))
<1>1. "alice" \in Peers /\ "bob" \in Peers /\ a \in Nat /\ b \in Nat
      /\ m.dh \in Nat
  BY DEF Peers, RInv, Types, Keys, Messages
<1>2. Level /\ m.dh = a /\ b = a
  <2>1. m.dh <= a
    BY DEF RInv, Turns, Seen, Other
  <2>2. m.dh >= b
    BY <1>1 DEF RInv, Turns, Seen
  <2>3. QED
    BY <1>1, <2>1, <2>2 DEF RInv, Turns, Level, BobAhead
<1>3. /\ root'["bob"] = forth /\ root'["alice"] = root["alice"]
      /\ mine'["bob"] = b + 1 /\ mine'["alice"] = a
      /\ theirs'["bob"] = a /\ theirs'["alice"] = theirs["alice"]
      /\ receiving'["bob"] = NewChain(back)
      /\ sending'["bob"] = NewChain(forth)
      /\ sending'["alice"] = sending["alice"]
      /\ known'["bob"] = known["bob"] \cup {a}
      /\ known'["alice"] = known["alice"]
  BY <1>1, <1>2 DEF Advance, RInv, Types
<1>4. back = root["alice"]
  BY <1>2 DEF Level
<1>5. Seen'
  <2>1. \A k \in net' : k.dh <= mine'[Other(k.to)]
    BY <1>1, <1>3 DEF RInv, Types, Turns, Seen, Messages, Keys, Other
  <2>2. known'["bob"] = 0 .. mine'["bob"] - 1
    <3>1. (0 .. b - 1) \cup {b} = 0 .. b
      BY <1>1
    <3>2. mine'["bob"] - 1 = b
      BY <1>1, <1>3
    <3>3. QED
      BY <1>2, <1>3, <3>1, <3>2 DEF RInv, Turns, Seen
  <2>3. known'["alice"] = 0 .. mine'["alice"]
    BY <1>3 DEF RInv, Turns, Seen
  <2>4. /\ theirs'["alice"] = mine'["alice"]
        /\ mine'["bob"] > 0 => theirs'["bob"] = mine'["bob"] - 1
    BY <1>1, <1>2, <1>3 DEF RInv, Turns, Seen
  <2>5. QED
    BY <2>1, <2>2, <2>3, <2>4 DEF Seen
<1>6. Roots'
  BY <1>1, <1>3 DEF RInv, Turns, Roots, NewChain
<1>7. BobAhead'
  <2>1. Dh("bob", b + 1, a) = Dh("alice", a, b + 1)
    BY DEF Dh
  <2>2. QED
    BY <1>2, <1>3, <1>4, <2>1 DEF BobAhead, NewChain
<1>8. QED
  BY <1>5, <1>6, <1>7, <1>1, AdvanceType DEF RInv, Turns

-----------------------------------------------------------------------------
\* The invariant is inductive: advance_dh_ratchet alternates between the peers,
\* whatever is lost, repeated or reordered.
THEOREM Invariance == Spec => []RInv
<1>1. RInv /\ [Next]_vars => RInv'
  <2> SUFFICES ASSUME RInv, [Next]_vars PROVE RInv'
    OBVIOUS
  <2>1. CASE UNCHANGED vars \/ \E p \in Peers : GrowOld(p) \/ Expire(p)
    <3>1. UNCHANGED <<dhState, sending, net, receiving>>
      BY <2>1 DEF vars, GrowOld, Expire
    <3>2. QED
      BY <3>1, QuietStep DEF RInv, Types
  <2>2. CASE \E p \in Peers : NewPublicKey(p)
    BY <2>2, AliceStep, BobStep DEF Peers
  <2>3. CASE \E p \in Peers : Encrypt(p)
    BY <2>3, EncryptStep
  <2>4. CASE \E m \in net : DecryptInOrder(m) \/ DecryptOutOfOrder(m)
    BY <2>4, DecryptionStep
  <2>5. QED
    BY <2>1, <2>2, <2>3, <2>4 DEF Next
<1>2. QED
  BY InitTurns, <1>1, PTL DEF Spec

\* Both ends of a session derive the same chains, for any number of turns: what a
\* peer sends is opened by the chain its peer has, or by the one it gets when it
\* advances for the key the message bears.
THEOREM SameChains == Spec => []InStep
<1>1. RInv => InStep
  <2> SUFFICES ASSUME RInv, NEW p \in Peers, NEW q \in Peers, q = Other(p),
                      sending[q] # NoChain
               PROVE  IF mine[q] \in known[p]
                      THEN theirs[p] = mine[q]
                           /\ receiving[p].key = sending[q].key
                      ELSE Derive(root[p], Dh(p, mine[p], mine[q]))
                           = sending[q].key
    BY DEF InStep, Peers, Other
  <2>1. mine["alice"] \in Nat /\ mine["bob"] \in Nat
    BY DEF RInv, Types, Keys, Peers
  <2>2. CASE p = "alice" /\ q = "bob"
    <3>1. mine["bob"] > 0
      BY <2>1, <2>2 DEF RInv, Turns, Roots
    <3>2. QED
      BY <2>1, <2>2, <3>1 DEF RInv, Turns, Seen, Roots, Level, BobAhead
  <2>3. CASE p = "bob" /\ q = "alice"
    BY <2>1, <2>3 DEF RInv, Turns, Seen, Roots, Level, BobAhead
  <2>4. QED
    BY <2>2, <2>3 DEF Peers, Other
<1>2. QED
  BY Invariance, <1>1, PTL

-----------------------------------------------------------------------------
(***************************************************************************)
(* The chains: the length of a key tells whose it is and from which turn,  *)
(* so that the messages of a chain are those that bear its public key.     *)
(***************************************************************************)
Off(p) == IF p = "bob" THEN 1 ELSE 0

\* How many DH outputs went into a key.
Lengths ==
    /\ Len(root["alice"]) = 2 * mine["alice"] + 1
    /\ Len(root["bob"]) = 2 * mine["bob"]
    /\ Len(receiving["alice"].key) = 2 * mine["alice"]
    /\ mine["bob"] = 0 => Len(receiving["bob"].key) = 0
    /\ mine["bob"] > 0 => Len(receiving["bob"].key) = 2 * mine["bob"] - 1
    /\ \A m \in net : Len(m.key) = 2 * m.dh + Off(m.to)

\* A message with the newest public key is of the chain its sender writes with.
Newest ==
    \A m \in net : m.dh = mine[Other(m.to)] =>
        /\ m.key = sending[Other(m.to)].key
        /\ m.counter < sending[Other(m.to)].counter

\* A message whose key is as old as the chain its receiver reads with is of that
\* chain.
InUse ==
    \A m \in net : Len(m.key) = Len(receiving[m.to].key) => m.key = receiving[m.to].key

\* Nobody has read more of a chain than was written.
Behind ==
    \A p \in Peers : receiving[p].key = sending[Other(p)].key =>
        receiving[p].counter <= sending[Other(p)].counter

CInv == Lengths /\ Newest /\ InUse /\ Behind

\* The types of what is compared below.
LEMMA ChainTypes ==
    ASSUME RInv
    PROVE  /\ \A p \in Peers : /\ mine[p] \in Nat /\ Other(p) \in Peers /\ Other(Other(p)) = p
                              /\ Off(p) \in {0, 1} /\ root[p] \in Seq(Outputs)
                              /\ sending[p].key \in Seq(Outputs) /\ sending[p].counter \in Nat
                              /\ receiving[p].key \in Seq(Outputs)
                              /\ receiving[p].counter \in Nat
           /\ \A m \in net : /\ m.to \in Peers /\ m.dh \in Nat /\ m.dh \in Keys
                            /\ m.key \in Seq(Outputs) /\ m.counter \in Nat
                            /\ m.dh <= mine[Other(m.to)]
<1>1. ASSUME NEW p \in Peers
      PROVE  /\ mine[p] \in Nat /\ Other(p) \in Peers /\ Other(Other(p)) = p
             /\ Off(p) \in {0, 1} /\ root[p] \in Seq(Outputs)
  BY DEF RInv, Types, Keys, Peers, Other, Off
<1>2. ASSUME NEW p \in Peers
      PROVE  /\ sending[p].key \in Seq(Outputs) /\ sending[p].counter \in Nat
             /\ receiving[p].key \in Seq(Outputs) /\ receiving[p].counter \in Nat
  BY DEF RInv, Types, Chains
<1>3. ASSUME NEW m \in net
      PROVE  /\ m.to \in Peers /\ m.dh \in Nat /\ m.dh \in Keys
             /\ m.key \in Seq(Outputs) /\ m.counter \in Nat
             /\ m.dh <= mine[Other(m.to)]
  BY DEF RInv, Types, Turns, Seen, Messages, Keys
<1>4. QED
  BY <1>1, <1>2, <1>3

\* The key a peer writes with is as old as its newest public key.
LEMMA SendingLength ==
    ASSUME RInv, Lengths, NEW q \in Peers
    PROVE  Len(sending[q].key) = 2 * mine[q] + Off(Other(q))
<1>1. "alice" \in Peers /\ "bob" \in Peers /\ mine["bob"] \in Nat
  BY ChainTypes DEF Peers
<1>2. CASE q = "alice"
  BY <1>2 DEF RInv, Turns, Roots, Lengths, Off, Other
<1>3. CASE q = "bob" /\ mine["bob"] > 0
  BY <1>3 DEF RInv, Turns, Roots, Lengths, Off, Other
<1>4. CASE q = "bob" /\ mine["bob"] = 0
  BY <1>4 DEF RInv, Turns, Roots, NoChain, Off, Other
<1>5. QED
  BY <1>1, <1>2, <1>3, <1>4 DEF Peers

\* The session starts so.
LEMMA InitChains == Init => CInv
<1> SUFFICES ASSUME Init PROVE CInv
  OBVIOUS
<1>1. RInv
  BY InitTurns
<1>2. "alice" \in Peers /\ "bob" \in Peers /\ net = {}
  BY DEF Peers, Init
<1>3. /\ root["alice"] = Append(<<>>, Dh("alice", 0, 0)) /\ root["bob"] = <<>>
      /\ mine["alice"] = 0 /\ mine["bob"] = 0
      /\ receiving["alice"] = NoChain /\ receiving["bob"] = NoChain
  BY <1>2 DEF Init, Derive
<1>4. Lengths
  BY <1>2, <1>3 DEF Lengths, NoChain
<1>5. Behind
  <2>1. \A p \in Peers : receiving[p].counter = 0 /\ sending[Other(p)].counter \in Nat
    BY <1>1, <1>3, ChainTypes DEF NoChain, Peers, Other
  <2>2. QED
    BY <2>1 DEF Behind
<1>6. QED
  BY <1>2, <1>4, <1>5 DEF CInv, Newest, InUse

\* A receiving chain may move to behind a message that fits it.
LEMMA QuietChains ==
    ASSUME RInv, CInv, UNCHANGED <<dhState, sending, net>>,
           \A p \in Peers :
              /\ receiving'[p].key = receiving[p].key
              /\ \/ receiving'[p].counter = receiving[p].counter
                 \/ \E m \in net : /\ m.to = p /\ Fits(receiving[p], m)
                                  /\ receiving'[p].counter = m.counter + 1
    PROVE  CInv'
<1>1. receiving'["alice"].key = receiving["alice"].key
      /\ receiving'["bob"].key = receiving["bob"].key
  BY DEF Peers
<1>2. Lengths'
  BY <1>1 DEF CInv, Lengths, dhState
<1>3. Newest'
  BY DEF CInv, Newest, dhState
<1>4. InUse'
  <2>1. \A m \in net : m.to \in Peers
    BY ChainTypes
  <2>2. QED
    BY <2>1 DEF CInv, InUse
<1>5. ASSUME NEW p \in Peers, receiving[p].key = sending[Other(p)].key,
             NEW m \in net, m.to = p, Fits(receiving[p], m)
      PROVE  m.counter + 1 <= sending[Other(p)].counter
  <2>1. Len(sending[Other(p)].key) = 2 * mine[Other(p)] + Off(p)
    BY ChainTypes, SendingLength DEF CInv
  <2>2. Len(m.key) = 2 * m.dh + Off(p)
    BY <1>5 DEF CInv, Lengths
  <2>3. m.key = sending[Other(p)].key
    BY <1>5 DEF Fits
  <2>4. m.dh \in Nat /\ mine[Other(p)] \in Nat /\ Off(p) \in {0, 1}
    BY ChainTypes
  <2>5. 2 * m.dh + Off(p) = 2 * mine[Other(p)] + Off(p)
    BY <2>1, <2>2, <2>3
  <2>6. m.dh = mine[Other(p)]
    BY <2>4, <2>5
  <2>7. m.counter < sending[Other(p)].counter
    BY <1>5, <2>6 DEF CInv, Newest
  <2>8. m.counter \in Nat /\ sending[Other(p)].counter \in Nat
    BY ChainTypes
  <2>9. QED
    BY <2>7, <2>8
<1>6. Behind'
  BY <1>5 DEF CInv, Behind
<1>7. QED
  BY <1>2, <1>3, <1>4, <1>6 DEF CInv

\* A message is the next of the chain its sender writes with.
LEMMA EncryptChains ==
    ASSUME RInv, CInv, NEW p \in Peers, Encrypt(p)
    PROVE  CInv'
<1> DEFINE q == Other(p)
           new == [to |-> q, dh |-> mine[p], key |-> sending[p].key,
                   counter |-> sending[p].counter]
<1>1. net' = net \cup {new} /\ UNCHANGED <<dhState, receiving>>
      /\ sending[p] # NoChain
      /\ sending' = [sending EXCEPT ![p].counter = sending[p].counter + 1]
  BY DEF Encrypt
<1>2. /\ \A r \in Peers : sending'[r].key = sending[r].key
      /\ sending'[p].counter = sending[p].counter + 1
      /\ \A r \in Peers : r # p => sending'[r] = sending[r]
  <2>1. sending \in [Peers -> Chains]
    BY DEF RInv, Types
  <2>2. QED
    BY <1>1, <2>1 DEF Chains
<1>3. /\ new.to = q /\ new.dh = mine[p] /\ new.key = sending[p].key
      /\ new.counter = sending[p].counter
  OBVIOUS
<1>4. /\ q \in Peers /\ Other(q) = p /\ mine[p] \in Nat /\ mine[q] \in Nat
      /\ sending[p].counter \in Nat
  BY ChainTypes
<1> HIDE DEF new, q
<1>5. Len(sending[p].key) = 2 * mine[p] + Off(q)
  BY SendingLength DEF CInv, q
<1>6. Lengths'
  <2>1. \A m \in net' : Len(m.key) = 2 * m.dh + Off(m.to)
    BY <1>1, <1>3, <1>5 DEF CInv, Lengths
  <2>2. QED
    BY <1>1, <2>1 DEF CInv, Lengths, dhState
<1>7. Newest'
  <2>1. mine' = mine
    BY <1>1 DEF dhState
  <2>2. ASSUME NEW m \in net, m.dh = mine[Other(m.to)]
        PROVE  /\ m.key = sending'[Other(m.to)].key
               /\ m.counter < sending'[Other(m.to)].counter
    <3>1. /\ m.key = sending[Other(m.to)].key /\ m.counter < sending[Other(m.to)].counter
          /\ Other(m.to) \in Peers /\ m.counter \in Nat
      BY <2>2, ChainTypes DEF CInv, Newest
    <3>2. QED
      BY <1>2, <1>4, <3>1
  <2>3. new.key = sending'[p].key /\ new.counter < sending'[p].counter
    BY <1>2, <1>3, <1>4
  <2>4. QED
    BY <1>1, <1>3, <1>4, <2>1, <2>2, <2>3 DEF Newest
<1>8. InUse'
  <2>1. ASSUME Len(new.key) = Len(receiving[q].key)
        PROVE  new.key = receiving[q].key
    <3>1. Len(receiving[q].key) = 2 * mine[p] + Off(q)
      BY <1>3, <1>5, <2>1
    <3>2. CASE p = "bob"
      <4>1. q = "alice" /\ mine["bob"] > 0
        BY <1>1, <1>4, <3>2 DEF q, Other, RInv, Turns, Roots
      <4>2. mine["alice"] = mine["bob"]
        BY <1>4, <3>1, <3>2, <4>1 DEF CInv, Lengths, Off
      <4>3. Level
        BY <1>4, <3>2, <4>1, <4>2 DEF RInv, Turns, BobAhead
      <4>4. QED
        BY <1>3, <3>2, <4>1, <4>3 DEF Level, RInv, Turns, Roots
    <3>3. CASE p = "alice"
      <4>1. q = "bob"
        BY <3>3 DEF q, Other
      <4>2. mine["bob"] = mine["alice"] + 1
        <5>1. /\ mine["alice"] \in Nat /\ mine["bob"] \in Nat
              /\ Len(receiving["bob"].key) = 2 * mine["alice"] + 1
          BY <1>4, <3>1, <3>3, <4>1 DEF Off
        <5>2. /\ mine["bob"] = 0 => Len(receiving["bob"].key) = 0
              /\ mine["bob"] > 0 => Len(receiving["bob"].key) = 2 * mine["bob"] - 1
          BY DEF CInv, Lengths
        <5>3. QED
          BY ONLY <5>1, <5>2
      <4>3. BobAhead
        BY <1>4, <3>3, <4>1, <4>2 DEF RInv, Turns, Level
      <4>4. QED
        BY <1>3, <3>3, <4>1, <4>3 DEF BobAhead, RInv, Turns, Roots
    <3>4. QED
      BY <3>2, <3>3 DEF Peers
  <2>2. QED
    BY <1>1, <1>3, <2>1 DEF CInv, InUse
<1>9. Behind'
  <2>1. ASSUME NEW r \in Peers
        PROVE  receiving[r].counter <= sending[Other(r)].counter
                  => receiving[r].counter <= sending'[Other(r)].counter
    <3>1. /\ r \in Peers /\ Other(r) \in Peers /\ sending[Other(r)].counter \in Nat
          /\ receiving[r].counter \in Nat
      BY <1>4, ChainTypes
    <3>2. \/ sending'[Other(r)].counter = sending[Other(r)].counter
          \/ sending'[Other(r)].counter = sending[Other(r)].counter + 1
      BY <1>2, <1>4, <3>1
    <3>3. QED
      BY ONLY <3>1, <3>2
  <2>2. \A r \in Peers : Other(r) \in Peers
    BY ChainTypes
  <2>3. QED
    BY <1>1, <1>2, <2>1, <2>2 DEF CInv, Behind
<1>10. QED
  BY <1>6, <1>7, <1>8, <1>9 DEF CInv

\* What an advance of p is: its receiving chain is then the one the other writes
\* with, its sending chain a new one.
LEMMA AdvanceEffect ==
    ASSUME RInv, CInv, NEW p \in Peers, NewPublicKey(p)
    PROVE  LET q == Other(p) IN
           /\ net' = net /\ mine' = [mine EXCEPT ![p] = mine[p] + 1]
           /\ mine[q] = IF p = "alice" THEN mine[p] + 1 ELSE mine[p]
           /\ root'[q] = root[q] /\ Len(root'[p]) = Len(root[p]) + 2
           /\ receiving'[q] = receiving[q] /\ sending'[q] = sending[q]
           /\ receiving'[p] = NewChain(sending[q].key)
<1> PICK m \in net : m.to = p /\ m.dh \notin known[p] /\ Advance(p, m.dh) /\ net' = net
  BY DEF NewPublicKey
<1> DEFINE q == Other(p)
           back == Derive(root[p], Dh(p, mine[p], m.dh))
           forth == Derive(back, Dh(p, mine[p] + 1, m.dh))
<1>1. /\ q \in Peers /\ q # p /\ mine[p] \in Nat /\ mine[q] \in Nat /\ m.dh \in Keys
      /\ m.dh \in Nat /\ m.dh <= mine[q] /\ root[p] \in Seq(Outputs)
      /\ mine[p] \in Keys /\ mine[p] + 1 \in Keys
  <2>1. /\ q \in Peers /\ mine[p] \in Nat /\ mine[q] \in Nat /\ m.dh \in Keys
        /\ m.dh \in Nat /\ m.dh <= mine[q] /\ root[p] \in Seq(Outputs)
    BY ChainTypes
  <2>2. q # p
    BY DEF Other, Peers
  <2>3. mine[p] \in Keys /\ mine[p] + 1 \in Keys
    BY LimitsAssumption, <2>1 DEF RInv, Types, Advance, Keys
  <2>4. QED
    BY <2>1, <2>2, <2>3
<1>2. /\ back \in Seq(Outputs) /\ Len(back) = Len(root[p]) + 1
      /\ forth \in Seq(Outputs) /\ Len(forth) = Len(root[p]) + 2
  <2>1. Dh(p, mine[p], m.dh) \in Outputs /\ Dh(p, mine[p] + 1, m.dh) \in Outputs
    BY <1>1 DEF Dh, Outputs
  <2>2. back \in Seq(Outputs) /\ Len(back) = Len(root[p]) + 1
    BY <1>1, <2>1 DEF Derive
  <2>3. QED
    BY <1>1, <2>1, <2>2 DEF Derive
<1>3. /\ root' = [root EXCEPT ![p] = forth]
      /\ receiving' = [receiving EXCEPT ![p] = NewChain(back)]
      /\ sending' = [sending EXCEPT ![p] = NewChain(forth)]
      /\ mine' = [mine EXCEPT ![p] = mine[p] + 1]
  BY DEF Advance
<1> HIDE DEF forth
<1>4. mine[q] = m.dh /\ (mine[q] = IF p = "alice" THEN mine[p] + 1 ELSE mine[p])
      /\ sending[q].key = back
  <2>1. CASE p = "alice"
    <3>1. q = "bob"
      BY <2>1 DEF q, Other
    <3>2. m.dh > mine["alice"]
      BY <1>1, <2>1 DEF RInv, Turns, Seen
    <3>3. BobAhead
      BY <1>1, <2>1, <3>1, <3>2 DEF RInv, Turns, Level
    <3>4. mine["bob"] = mine["alice"] + 1 /\ m.dh = mine["bob"]
      BY <1>1, <2>1, <3>1, <3>2, <3>3 DEF BobAhead
    <3>5. sending["bob"].key = root["bob"]
      BY <1>1, <2>1, <3>1, <3>4 DEF RInv, Turns, Roots
    <3>6. QED
      BY <2>1, <3>1, <3>3, <3>4, <3>5 DEF BobAhead
  <2>2. CASE p = "bob"
    <3>1. q = "alice"
      BY <2>2 DEF q, Other
    <3>2. m.dh >= mine["bob"]
      BY <1>1, <2>2 DEF RInv, Turns, Seen
    <3>3. Level
      BY <1>1, <2>2, <3>1, <3>2 DEF RInv, Turns, BobAhead
    <3>4. mine["bob"] = mine["alice"] /\ m.dh = mine["alice"]
      BY <1>1, <2>2, <3>1, <3>2, <3>3 DEF Level
    <3>5. sending["alice"].key = root["alice"]
      BY DEF RInv, Turns, Roots
    <3>6. QED
      BY <2>2, <3>1, <3>3, <3>4, <3>5 DEF Level
  <2>3. QED
    BY <2>1, <2>2 DEF Peers
<1>5. /\ root'[q] = root[q] /\ root'[p] = forth
      /\ receiving'[q] = receiving[q] /\ receiving'[p] = NewChain(back)
      /\ sending'[q] = sending[q]
  BY <1>1, <1>3 DEF RInv, Types
<1>6. QED
  BY <1>2, <1>3, <1>4, <1>5

\* An advance keeps it.
LEMMA AdvanceChains ==
    ASSUME RInv, CInv, NEW p \in Peers, NewPublicKey(p), RInv'
    PROVE  CInv'
<1> DEFINE q == Other(p)
<1>1. /\ net' = net /\ mine' = [mine EXCEPT ![p] = mine[p] + 1]
      /\ mine[q] = IF p = "alice" THEN mine[p] + 1 ELSE mine[p]
      /\ root'[q] = root[q] /\ Len(root'[p]) = Len(root[p]) + 2
      /\ receiving'[q] = receiving[q] /\ sending'[q] = sending[q]
      /\ receiving'[p] = NewChain(sending[q].key)
  BY AdvanceEffect
<1>2. /\ q \in Peers /\ q # p /\ Other(q) = p /\ mine[p] \in Nat /\ mine[q] \in Nat
      /\ {p, q} = {"alice", "bob"} /\ \A r \in Peers : r = p \/ r = q
  BY ChainTypes DEF Other, Peers
<1>3. /\ mine'[p] = mine[p] + 1 /\ mine'[q] = mine[q]
      /\ receiving'[p].key = sending[q].key /\ receiving'[p].counter = 0
  BY <1>1, <1>2 DEF RInv, Types, NewChain
<1>4. Len(sending[q].key) = 2 * mine[q] + Off(p)
  BY <1>2, SendingLength DEF CInv
<1>5. Lengths'
  <2>1. \A m \in net' : Len(m.key) = 2 * m.dh + Off(m.to)
    BY <1>1 DEF CInv, Lengths
  <2>2. CASE p = "alice"
    <3>1. q = "bob"
      BY <2>2 DEF Other
    <3>2. mine["alice"] \in Nat /\ mine["bob"] \in Nat /\ mine["bob"] = mine["alice"] + 1
      BY <1>1, <1>2, <2>2, <3>1
    <3>3. /\ mine'["alice"] = mine["bob"] /\ mine'["bob"] = mine["bob"]
          /\ receiving'["bob"] = receiving["bob"] /\ root'["bob"] = root["bob"]
          /\ Len(receiving'["alice"].key) = 2 * mine["bob"]
          /\ Len(root'["alice"]) = 2 * mine["bob"] + 1
      <4>1. Len(root["alice"]) = 2 * mine["alice"] + 1 /\ Len(root["alice"]) + 2 = Len(root'["alice"])
        BY <1>1, <2>2 DEF CInv, Lengths
      <4>2. Len(receiving'["alice"].key) = 2 * mine["bob"]
        BY <1>3, <1>4, <2>2, <3>1, <3>2 DEF Off
      <4>3. QED
        BY <1>1, <1>3, <2>2, <3>1, <3>2, <4>1, <4>2
    <3>4. QED
      BY <2>1, <3>3 DEF CInv, Lengths
  <2>3. CASE p = "bob"
    <3>1. q = "alice"
      BY <2>3 DEF Other
    <3>2. mine["alice"] \in Nat /\ mine["bob"] \in Nat /\ mine["bob"] = mine["alice"]
      BY <1>1, <1>2, <2>3, <3>1
    <3>3. /\ mine'["alice"] = mine["alice"] /\ mine'["bob"] = mine["alice"] + 1
          /\ receiving'["alice"] = receiving["alice"] /\ root'["alice"] = root["alice"]
          /\ Len(receiving'["bob"].key) = 2 * mine["alice"] + 1
          /\ Len(root'["bob"]) = 2 * mine["alice"] + 2
      <4>1. mine'["alice"] = mine["alice"] /\ mine'["bob"] = mine["alice"] + 1
        BY <1>3, <2>3, <3>1, <3>2
      <4>2. receiving'["alice"] = receiving["alice"] /\ root'["alice"] = root["alice"]
        BY <1>1, <3>1
      <4>3. Len(receiving'["bob"].key) = 2 * mine["alice"] + 1
        BY <1>3, <1>4, <2>3, <3>1 DEF Off
      <4>4. Len(root'["bob"]) = 2 * mine["alice"] + 2
        BY <1>1, <2>3, <3>2 DEF CInv, Lengths
      <4>5. QED
        BY <4>1, <4>2, <4>3, <4>4
    <3>4. /\ Len(root'["alice"]) = 2 * mine'["alice"] + 1
          /\ Len(receiving'["alice"].key) = 2 * mine'["alice"]
      BY <3>3 DEF CInv, Lengths
    <3>5. /\ Len(root'["bob"]) = 2 * mine'["bob"] /\ mine'["bob"] # 0
          /\ Len(receiving'["bob"].key) = 2 * mine'["bob"] - 1
      BY <3>2, <3>3
    <3>6. QED
      BY <2>1, <3>4, <3>5 DEF Lengths
  <2>4. QED
    BY <2>2, <2>3 DEF Peers
<1>6. Newest'
  <2>1. SUFFICES ASSUME NEW m \in net, m.dh = mine'[Other(m.to)]
                 PROVE  /\ m.key = sending'[Other(m.to)].key
                        /\ m.counter < sending'[Other(m.to)].counter
    BY <1>1 DEF Newest
  <2>2. m.to \in Peers /\ m.dh \in Nat /\ m.dh <= mine[Other(m.to)]
    BY ChainTypes
  <2>3. m.to = p
    BY <1>2, <1>3, <2>1, <2>2
  <2>4. QED
    BY <1>1, <1>3, <2>1, <2>3 DEF CInv, Newest
<1>7. InUse'
  <2>1. SUFFICES ASSUME NEW m \in net, Len(m.key) = Len(receiving'[m.to].key)
                 PROVE  m.key = receiving'[m.to].key
    BY <1>1 DEF InUse
  <2>2. m.to \in Peers /\ m.dh \in Nat
    BY ChainTypes
  <2>3. CASE m.to = p
    <3>1. 2 * m.dh + Off(p) = 2 * mine[q] + Off(p) /\ Off(p) \in {0, 1}
      BY <1>3, <1>4, <2>1, <2>3, ChainTypes DEF CInv, Lengths
    <3>2. m.dh = mine[q]
      BY <1>2, <2>2, <3>1
    <3>3. QED
      BY <1>3, <2>3, <3>2 DEF CInv, Newest
  <2>4. CASE m.to = q
    BY <1>1, <2>1, <2>4 DEF CInv, InUse
  <2>5. QED
    BY <1>2, <2>2, <2>3, <2>4
<1>8. Behind'
  <2>1. SUFFICES ASSUME NEW r \in Peers, receiving'[r].key = sending'[Other(r)].key
                 PROVE  receiving'[r].counter <= sending'[Other(r)].counter
    BY DEF Behind
  <2>2. CASE r = p
    <3>1. receiving'[r].counter = 0 /\ sending'[Other(r)].counter \in Nat
      <4>1. sending[q].counter \in Nat
        BY <1>2, ChainTypes
      <4>2. Other(r) = q /\ sending'[q] = sending[q]
        BY <1>1, <2>2
      <4>3. QED
        BY <1>3, <2>2, <4>1, <4>2
    <3>2. QED
      BY <3>1
  <2>3. CASE r = q
    <3>1. sending'[p].key = root'[p]
      <4>1. mine'[p] > 0
        BY <1>2, <1>3
      <4>2. CASE p = "alice"
        BY <4>2 DEF RInv, Turns, Roots
      <4>3. CASE p = "bob"
        BY <4>1, <4>3 DEF RInv, Turns, Roots
      <4>4. QED
        BY <4>2, <4>3 DEF Peers
    <3>2. Len(receiving[q].key) = 2 * (mine[p] + 1) + Off(q)
      <4>1. Len(root'[p]) = 2 * mine'[p] + Off(q)
        <5>1. CASE p = "alice"
          BY <1>5, <5>1 DEF Lengths, Off, Other
        <5>2. CASE p = "bob"
          BY <1>2, <1>3, <1>5, <5>2 DEF Lengths, Off, Other
        <5>3. QED
          BY <5>1, <5>2 DEF Peers
      <4>2. receiving[q].key = sending'[p].key
        BY <1>1, <1>2, <2>1, <2>3
      <4>3. QED
        BY <1>3, <3>1, <4>1, <4>2
    <3>3. CASE p = "alice"
      <4>1. q = "bob" /\ mine["bob"] = mine["alice"] + 1
        BY <1>1, <3>3 DEF Other
      <4>2. QED
        BY <1>2, <3>2, <3>3, <4>1 DEF CInv, Lengths, Off
    <3>4. CASE p = "bob"
      <4>1. q = "alice" /\ mine["bob"] = mine["alice"]
        BY <1>1, <3>4 DEF Other
      <4>2. QED
        BY <1>2, <3>2, <3>4, <4>1 DEF CInv, Lengths, Off
    <3>5. QED
      BY <3>3, <3>4 DEF Peers
  <2>4. QED
    BY <1>2, <2>2, <2>3
<1>9. QED
  BY <1>5, <1>6, <1>7, <1>8 DEF CInv

\* A decryption keeps it.
LEMMA DecryptionChains ==
    ASSUME RInv, CInv, NEW m \in net, DecryptInOrder(m) \/ DecryptOutOfOrder(m)
    PROVE  CInv'
<1> DEFINE p == m.to
<1>1. p \in Peers /\ m.counter \in Nat /\ receiving \in [Peers -> Chains]
  BY ChainTypes DEF RInv, Types
<1>2. UNCHANGED <<dhState, sending, net>>
  BY DEF DecryptInOrder, DecryptOutOfOrder, OpenStored, WindForward, Refused
<1>3. \/ receiving' = receiving
      \/ Fits(receiving[p], m) /\ receiving' = [receiving EXCEPT ![p].counter = m.counter + 1]
  BY DEF DecryptInOrder, DecryptOutOfOrder, OpenStored, WindForward, Refused
<1>4. ASSUME NEW r \in Peers
      PROVE  /\ receiving'[r].key = receiving[r].key
             /\ \/ receiving'[r].counter = receiving[r].counter
                \/ \E k \in net : /\ k.to = r /\ Fits(receiving[r], k)
                                  /\ receiving'[r].counter = k.counter + 1
  <2>1. CASE receiving' = receiving
    BY <2>1
  <2>2. CASE /\ Fits(receiving[p], m)
             /\ receiving' = [receiving EXCEPT ![p].counter = m.counter + 1]
    <3>1. CASE r = p
      BY <1>1, <2>2, <3>1 DEF Chains
    <3>2. CASE r # p
      BY <1>1, <2>2, <3>2
    <3>3. QED
      BY <3>1, <3>2
  <2>3. QED
    BY <1>3, <2>1, <2>2
<1>5. QED
  BY <1>2, <1>4, QuietChains

\* Every step keeps it.
LEMMA NextCInv == RInv /\ RInv' /\ CInv /\ [Next]_vars => CInv'
<1> SUFFICES ASSUME RInv, RInv', CInv, [Next]_vars PROVE CInv'
  OBVIOUS
<1>1. CASE UNCHANGED vars \/ \E p \in Peers : GrowOld(p) \/ Expire(p)
  <2>1. UNCHANGED <<dhState, sending, net, receiving>>
    BY <1>1 DEF vars, GrowOld, Expire
  <2>2. QED
    BY <2>1, QuietChains
<1>2. CASE \E p \in Peers : NewPublicKey(p)
  BY <1>2, AdvanceChains
<1>3. CASE \E p \in Peers : Encrypt(p)
  BY <1>3, EncryptChains
<1>4. CASE \E m \in net : DecryptInOrder(m) \/ DecryptOutOfOrder(m)
  BY <1>4, DecryptionChains
<1>5. QED
  BY <1>1, <1>2, <1>3, <1>4 DEF Next

-----------------------------------------------------------------------------
(***************************************************************************)
(* The store: its filter is a recursive function.  That there is one, and  *)
(* what it leaves after n entries, is shown of the least n for which it    *)
(* would not be so.                                                        *)
(***************************************************************************)

\* The filter as a function of how many entries it has gone over.
Filters(g, s, m, new, n) ==
    g = [i \in 0 .. n |-> IF i = 0 THEN <<>>
                          ELSE IF Stays(s[i], m, new) THEN Append(g[i - 1], s[i])
                                                      ELSE g[i - 1]]

\* There is one.
LEMMA FilterIs ==
    ASSUME NEW s, NEW m, NEW new, NEW n \in Nat
    PROVE  \E g : Filters(g, s, m, new, n)
<1> DEFINE Bad == {k \in Nat : ~ \E g : Filters(g, s, m, new, k)}
           Next1(l, i) == IF Stays(s[i], m, new) THEN Append(l, s[i]) ELSE l
<1>1. ASSUME Bad # {} PROVE FALSE
  <2>1. PICK w \in Bad : \A k \in Bad : w <= k
    BY <1>1, Least
  <2>2. w # 0
    <3> DEFINE one == [i \in 0 .. 0 |-> <<>>]
    <3>1. Filters(one, s, m, new, 0)
      BY DEF Filters
    <3>2. QED
      BY <2>1, <3>1
  <2>3. w \in Nat /\ w - 1 \in Nat /\ w - 1 \notin Bad
    BY <2>1, <2>2
  <2>4. PICK g : Filters(g, s, m, new, w - 1)
    BY <2>3
  <2> HIDE DEF Next1
  <2> DEFINE more == [i \in 0 .. w |-> IF i = w THEN Next1(g[w - 1], w) ELSE g[i]]
  <2>5. ASSUME NEW i \in 0 .. w
        PROVE  more[i] = IF i = 0 THEN <<>> ELSE Next1(more[i - 1], i)
    <3>1. CASE i = w
      <4>1. w - 1 \in 0 .. w /\ w - 1 # w
        BY <2>2, <2>3
      <4>2. QED
        BY <2>2, <3>1, <4>1
    <3>2. CASE i # w
      <4>1. i \in 0 .. w - 1 /\ more[i] = g[i]
        BY <2>3, <3>2
      <4>2. g[i] = IF i = 0 THEN <<>> ELSE Next1(g[i - 1], i)
        BY <2>4, <4>1 DEF Filters, Next1
      <4>3. i # 0 => i - 1 \in 0 .. w /\ i - 1 # w
        BY <2>3, <4>1
      <4>4. QED
        BY <4>1, <4>2, <4>3
    <3>3. QED
      BY <3>1, <3>2
  <2>6. Filters(more, s, m, new, w)
    BY <2>5 DEF Filters, Next1
  <2>7. QED
    BY <2>1, <2>6
<1>2. QED
  BY <1>1

\* l is what stays of the first n entries of s, in their order.
StaysOf(l, s, m, new, n) ==
    /\ l \in Seq(Entries)
    /\ \A i \in 1 .. n : Stays(s[i], m, new) => \E j \in 1 .. Len(l) : l[j] = s[i]
    /\ \A j \in 1 .. Len(l) : \E i \in 1 .. n : l[j] = s[i] /\ Stays(s[i], m, new)
    /\ \A j, k \in 1 .. Len(l) : j < k =>
          \E h, i \in 1 .. n : h < i /\ l[j] = s[h] /\ l[k] = s[i]

\* One more entry.
LEMMA StaysGoOn ==
    ASSUME NEW s, NEW m, NEW new, NEW n \in Nat, NEW l, StaysOf(l, s, m, new, n),
           s[n + 1] \in Entries
    PROVE  StaysOf(IF Stays(s[n + 1], m, new) THEN Append(l, s[n + 1]) ELSE l,
                   s, m, new, n + 1)
<1> DEFINE St(i) == Stays(s[i], m, new)
<1>1. /\ l \in Seq(Entries)
      /\ \A i \in 1 .. n : St(i) => \E j \in 1 .. Len(l) : l[j] = s[i]
      /\ \A j \in 1 .. Len(l) : \E i \in 1 .. n : l[j] = s[i] /\ St(i)
      /\ \A j, k \in 1 .. Len(l) : j < k =>
            \E h, i \in 1 .. n : h < i /\ l[j] = s[h] /\ l[k] = s[i]
  BY DEF StaysOf
<1>2. n + 1 \in 1 .. n + 1 /\ \A i \in 1 .. n : i \in 1 .. n + 1 /\ i < n + 1
  OBVIOUS
<1>3. \A i \in 1 .. n + 1 : i \in 1 .. n \/ i = n + 1
  OBVIOUS
<1> HIDE DEF St
<1>4. CASE ~St(n + 1)
  <2>1. \A i \in 1 .. n + 1 : St(i) => \E j \in 1 .. Len(l) : l[j] = s[i]
    BY <1>1, <1>3, <1>4
  <2>2. \A j \in 1 .. Len(l) : \E i \in 1 .. n + 1 : l[j] = s[i] /\ St(i)
    BY <1>1, <1>2
  <2>3. \A j, k \in 1 .. Len(l) : j < k =>
            \E h, i \in 1 .. n + 1 : h < i /\ l[j] = s[h] /\ l[k] = s[i]
    BY <1>1, <1>2
  <2>4. StaysOf(l, s, m, new, n + 1)
    BY <1>1, <2>1, <2>2, <2>3 DEF StaysOf, St
  <2>5. QED
    BY <1>4, <2>4 DEF St
<1>5. CASE St(n + 1)
  <2> DEFINE a == Append(l, s[n + 1])
  <2>1. /\ a \in Seq(Entries) /\ Len(a) = Len(l) + 1 /\ Len(l) \in Nat
        /\ a[Len(l) + 1] = s[n + 1] /\ \A j \in 1 .. Len(l) : a[j] = l[j]
    <3>1. l \in Seq(Entries)
      BY <1>1
    <3>2. QED
      BY <3>1
  <2> HIDE DEF a
  <2>2. /\ \A j \in 1 .. Len(a) : j \in 1 .. Len(l) \/ j = Len(l) + 1
        /\ Len(l) + 1 \in 1 .. Len(a) /\ \A j \in 1 .. Len(l) : j \in 1 .. Len(a)
    BY <2>1
  <2>3. ASSUME NEW i \in 1 .. n + 1, St(i) PROVE \E j \in 1 .. Len(a) : a[j] = s[i]
    <3>1. CASE i = n + 1
      BY <2>1, <2>2, <3>1
    <3>2. CASE i \in 1 .. n
      BY <1>1, <2>1, <2>2, <2>3, <3>2
    <3>3. QED
      BY <1>3, <3>1, <3>2
  <2>4. ASSUME NEW j \in 1 .. Len(a) PROVE \E i \in 1 .. n + 1 : a[j] = s[i] /\ St(i)
    <3>1. CASE j = Len(l) + 1
      BY <1>2, <1>5, <2>1, <3>1
    <3>2. CASE j \in 1 .. Len(l)
      BY <1>1, <1>2, <2>1, <3>2
    <3>3. QED
      BY <2>2, <3>1, <3>2
  <2>5. ASSUME NEW j \in 1 .. Len(a), NEW k \in 1 .. Len(a), j < k
        PROVE  \E h, i \in 1 .. n + 1 : h < i /\ a[j] = s[h] /\ a[k] = s[i]
    <3>1. j \in 1 .. Len(l)
      BY <2>1, <2>5
    <3>2. CASE k = Len(l) + 1
      <4>1. PICK h \in 1 .. n : l[j] = s[h]
        BY <1>1, <3>1
      <4>2. h \in 1 .. n + 1 /\ h < n + 1 /\ a[j] = s[h] /\ a[k] = s[n + 1]
        BY <1>2, <2>1, <3>1, <3>2, <4>1
      <4>3. QED
        BY <1>2, <4>2
    <3>3. CASE k \in 1 .. Len(l)
      <4>1. PICK h \in 1 .. n, i \in 1 .. n : h < i /\ l[j] = s[h] /\ l[k] = s[i]
        BY <1>1, <2>5, <3>1, <3>3
      <4>2. QED
        BY <1>2, <2>1, <3>1, <3>3, <4>1
    <3>4. QED
      BY <2>2, <3>2, <3>3
  <2>6. StaysOf(a, s, m, new, n + 1)
    BY <2>1, <2>3, <2>4, <2>5 DEF StaysOf, St
  <2>7. QED
    BY <1>5, <2>6 DEF St, a
<1>6. QED
  BY <1>4, <1>5

\* What the filter leaves in the end.
LEMMA StayingIs ==
    ASSUME NEW s \in Seq(Entries), NEW m, NEW new
    PROVE  StaysOf(Staying(s, m, new), s, m, new, Len(s))
<1>1. PICK n \in Nat : n = Len(s) /\ \A i \in 1 .. n : s[i] \in Entries
  <2> DEFINE E == Entries
  <2>1. s \in Seq(E)
    OBVIOUS
  <2> HIDE DEF E
  <2>2. Len(s) \in Nat /\ \A i \in 1 .. Len(s) : s[i] \in E
    BY <2>1
  <2>3. QED
    BY <2>2 DEF E
<1> DEFINE f == CHOOSE g : Filters(g, s, m, new, n)
<1>2. Filters(f, s, m, new, n)
  BY FilterIs
<1>3. Staying(s, m, new) = f[n]
  BY <1>1 DEF Staying, Filters
<1> HIDE DEF f
<1> DEFINE Bad == {k \in 0 .. n : ~StaysOf(f[k], s, m, new, k)}
<1>4. ASSUME Bad # {} PROVE FALSE
  <2>1. PICK w \in Bad : \A k \in Bad : w <= k
    <3>1. Bad \subseteq Nat
      OBVIOUS
    <3>2. QED
      BY <1>4, <3>1, Least
  <2>2. w # 0
    <3>1. f[0] = <<>>
      BY <1>2 DEF Filters
    <3>2. StaysOf(f[0], s, m, new, 0)
      BY <3>1 DEF StaysOf
    <3>3. QED
      BY <2>1, <3>2
  <2>3. /\ w \in 1 .. n /\ w - 1 \in Nat /\ w - 1 \in 0 .. n /\ (w - 1) + 1 = w
        /\ w - 1 \notin Bad
    BY <2>1, <2>2
  <2>4. PICK k \in Nat : k = w - 1 /\ k + 1 = w
    BY <2>3
  <2>5. StaysOf(f[k], s, m, new, k) /\ s[k + 1] \in Entries
    BY <1>1, <2>3, <2>4
  <2>6. StaysOf(IF Stays(s[k + 1], m, new) THEN Append(f[k], s[k + 1]) ELSE f[k],
                s, m, new, k + 1)
    BY <2>5, StaysGoOn
  <2>7. f[w] = IF Stays(s[w], m, new) THEN Append(f[w - 1], s[w]) ELSE f[w - 1]
    BY <1>2, <2>2, <2>3 DEF Filters
  <2>8. QED
    BY <2>1, <2>4, <2>6, <2>7
<1>5. n \in 0 .. n
  OBVIOUS
<1>6. QED
  BY <1>1, <1>3, <1>4, <1>5

\* A store has its entries in the order of their age, and no more than max_skip.
Stores ==
    /\ store \in [Peers -> Seq(Entries)]
    /\ \A p \in Peers :
          /\ Len(store[p]) <= MaxSkip
          /\ \A i, j \in 1 .. Len(store[p]) :
                i <= j /\ store[p][j].late => store[p][i].late

\* Two sequences after one another.
LEMMA After ==
    ASSUME NEW S, NEW s \in Seq(S), NEW t \in Seq(S)
    PROVE  /\ s \o t \in Seq(S) /\ Len(s \o t) = Len(s) + Len(t)
           /\ Len(s) \in Nat /\ Len(t) \in Nat
           /\ \A i \in 1 .. Len(s) : (s \o t)[i] = s[i]
           /\ \A i \in 1 .. Len(t) : (s \o t)[Len(s) + i] = t[i]
OBVIOUS

\* t is what a get of m's counter and a put of the entries new leave of s.
PutInto(t, s, m, new) ==
    /\ \A j \in 1 .. Len(t) :
          \/ \E i \in 1 .. Len(s) : t[j] = s[i] /\ Stays(s[i], m, new)
          \/ \E k \in 1 .. Len(new) : t[j] = new[k]
    /\ \A j, k \in 1 .. Len(t) : j < k =>
          \/ \E h, i \in 1 .. Len(s) : h < i /\ t[j] = s[h] /\ t[k] = s[i]
          \/ \E h \in 1 .. Len(s), i \in 1 .. Len(new) :
                /\ t[j] = s[h] /\ Stays(s[h], m, new)
                /\ t[k] = new[i]
          \/ \E h, i \in 1 .. Len(new) : h < i /\ t[j] = new[h] /\ t[k] = new[i]

\* What a get and a put leave of the store, and what becomes of the rest.
LEMMA PutEffect ==
    ASSUME Stores, NEW m, m.to \in Peers, NEW new \in Seq(Entries),
           \A k \in 1 .. Len(new) : ~new[k].late, GetThenPut(m, new)
    PROVE  LET p == m.to IN
           /\ Stores' /\ dropped \subseteq dropped'
           /\ \A q \in Peers : q # p => store'[q] = store[q]
           /\ \A i \in 1 .. Len(store[p]) :
                 /\ IsFor(store[p][i], m) => KeyOf(store[p][i]) \in dropped'
                 /\ Stays(store[p][i], m, new) =>
                       \/ KeyOf(store[p][i]) \in dropped'
                       \/ \E j \in 1 .. Len(store'[p]) : store'[p][j] = store[p][i]
           /\ \A k \in 1 .. Len(new) :
                 \/ KeyOf(new[k]) \in dropped'
                 \/ \E j \in 1 .. Len(store'[p]) : store'[p][j] = new[k]
           /\ PutInto(store'[p], store[p], m, new)
<1> DEFINE p == m.to
           s == store[p]
           l == Staying(s, m, new)
           all == l \o new
           n == Evicted(all)
           r == SubSeq(all, n + 1, Len(all))
<1>1. s \in Seq(Entries) /\ Len(s) \in Nat /\ DOMAIN s = 1 .. Len(s)
  <2>1. s \in Seq(Entries)
    BY DEF Stores
  <2>2. QED
    BY <2>1
<1>2. /\ store' = [store EXCEPT ![p] = r]
      /\ dropped' = dropped \cup {KeyOf(all[k]) : k \in 1 .. n}
                            \cup {KeyOf(s[i]) : i \in {i \in 1 .. Len(s) : IsFor(s[i], m)}}
  BY <1>1 DEF GetThenPut
<1> HIDE DEF s
<1>3. StaysOf(l, s, m, new, Len(s))
  BY <1>1, StayingIs
<1> HIDE DEF l
<1>4. /\ l \in Seq(Entries) /\ Len(l) \in Nat /\ Len(new) \in Nat
      /\ all \in Seq(Entries) /\ Len(all) = Len(l) + Len(new)
      /\ \A i \in 1 .. Len(l) : all[i] = l[i]
      /\ \A i \in 1 .. Len(new) : all[Len(l) + i] = new[i]
  <2>1. l \in Seq(Entries)
    BY <1>3 DEF StaysOf
  <2>2. QED
    BY <2>1, After
<1> HIDE DEF all
<1>5. n \in 0 .. Len(all) /\ n \in Nat /\ Len(all) - n <= MaxSkip
  BY <1>4, LimitsAssumption DEF Evicted
<1> HIDE DEF n
<1>6. /\ r \in Seq(Entries) /\ Len(r) = Len(all) - n
      /\ \A k \in 1 .. Len(r) : r[k] = all[n + k]
  <2> DEFINE E == Entries
  <2>1. all \in Seq(E)
    BY <1>4
  <2> HIDE DEF E
  <2>2. r \in Seq(E) /\ Len(r) = Len(all) - n /\ \A k \in 1 .. Len(all) - n : r[k] = all[n + k]
    BY <1>5, <2>1, CutOff
  <2>3. QED
    BY <2>2 DEF E
<1> HIDE DEF r
<1>7. store'[p] = r /\ \A q \in Peers : q # p => store'[q] = store[q]
  BY <1>2 DEF Stores
<1>8. store' \in [Peers -> Seq(Entries)]
  <2> DEFINE E == Seq(Entries)
  <2>1. store \in [Peers -> E] /\ r \in E
    BY <1>6 DEF Stores
  <2> HIDE DEF E
  <2>2. store' \in [Peers -> E]
    BY <1>2, <2>1
  <2>3. QED
    BY <2>2 DEF E
<1>9. \A k \in 1 .. Len(all) : KeyOf(all[k]) \in dropped' \/ \E j \in 1 .. Len(r) : r[j] = all[k]
  <2>1. SUFFICES ASSUME NEW k \in 1 .. Len(all), k > n
                 PROVE  \E j \in 1 .. Len(r) : r[j] = all[k]
    <3>1. \A k \in 1 .. Len(all) : k <= n => k \in 1 .. n
      BY <1>4, <1>5
    <3>2. \A k \in 1 .. n : KeyOf(all[k]) \in dropped'
      BY <1>2
    <3>3. \A k \in 1 .. Len(all) : k <= n \/ k > n
      BY <1>4, <1>5
    <3>4. QED
      BY <3>1, <3>2, <3>3
  <2>2. k - n \in 1 .. Len(r) /\ n + (k - n) = k
    BY <1>4, <1>5, <1>6, <2>1
  <2>3. QED
    BY <1>6, <2>2
<1>10. \A k \in 1 .. Len(all) :
          \/ k \in 1 .. Len(l) /\ all[k] = l[k]
          \/ \E i \in 1 .. Len(new) : k = Len(l) + i /\ all[k] = new[i]
  <2>1. SUFFICES ASSUME NEW k \in 1 .. Len(all), k \notin 1 .. Len(l)
                 PROVE  \E i \in 1 .. Len(new) : k = Len(l) + i /\ all[k] = new[i]
    BY <1>4
  <2>2. k - Len(l) \in 1 .. Len(new) /\ Len(l) + (k - Len(l)) = k
    BY <1>4, <2>1
  <2>3. QED
    BY <1>4, <2>2
<1>11. \A j \in 1 .. Len(r) : n + j \in 1 .. Len(all) /\ r[j] = all[n + j]
  BY <1>4, <1>5, <1>6
<1>12. /\ \A i \in 1 .. Len(s) : Stays(s[i], m, new) => \E j \in 1 .. Len(l) : l[j] = s[i]
       /\ \A j \in 1 .. Len(l) : \E i \in 1 .. Len(s) : l[j] = s[i] /\ Stays(s[i], m, new)
       /\ \A j, k \in 1 .. Len(l) : j < k =>
             \E h, i \in 1 .. Len(s) : h < i /\ l[j] = s[h] /\ l[k] = s[i]
  BY <1>3 DEF StaysOf
<1>13. ASSUME NEW i \in 1 .. Len(s)
       PROVE  /\ IsFor(s[i], m) => KeyOf(s[i]) \in dropped'
              /\ Stays(s[i], m, new) =>
                    KeyOf(s[i]) \in dropped' \/ \E j \in 1 .. Len(r) : r[j] = s[i]
  <2>1. IsFor(s[i], m) => KeyOf(s[i]) \in dropped'
    BY <1>2
  <2>2. ASSUME Stays(s[i], m, new)
        PROVE  KeyOf(s[i]) \in dropped' \/ \E j \in 1 .. Len(r) : r[j] = s[i]
    <3>1. PICK k \in 1 .. Len(l) : l[k] = s[i]
      BY <1>12, <2>2
    <3>2. k \in 1 .. Len(all) /\ all[k] = s[i]
      BY <1>4, <3>1
    <3>3. QED
      BY <1>9, <3>2
  <2>3. QED
    BY <2>1, <2>2
<1>14. ASSUME NEW k \in 1 .. Len(new)
       PROVE  KeyOf(new[k]) \in dropped' \/ \E j \in 1 .. Len(r) : r[j] = new[k]
  <2>1. Len(l) + k \in 1 .. Len(all) /\ all[Len(l) + k] = new[k]
    <3>1. Len(l) \in Nat /\ Len(new) \in Nat /\ Len(all) = Len(l) + Len(new)
      BY <1>4
    <3>2. Len(l) + k \in 1 .. Len(all)
      BY ONLY <3>1, k \in 1 .. Len(new)
    <3>3. all[Len(l) + k] = new[k]
      BY <1>4
    <3>4. QED
      BY <3>2, <3>3
  <2>2. QED
    BY <1>9, <2>1
<1>15. ASSUME NEW j \in 1 .. Len(r)
       PROVE  \/ \E i \in 1 .. Len(s) : r[j] = s[i] /\ Stays(s[i], m, new)
              \/ \E k \in 1 .. Len(new) : r[j] = new[k]
  <2>1. PICK k \in 1 .. Len(all) : r[j] = all[k]
    BY <1>11
  <2>2. CASE k \in 1 .. Len(l) /\ all[k] = l[k]
    BY <1>12, <2>1, <2>2
  <2>3. CASE \E i \in 1 .. Len(new) : k = Len(l) + i /\ all[k] = new[i]
    BY <2>1, <2>3
  <2>4. QED
    BY <1>10, <2>1, <2>2, <2>3
<1>16. ASSUME NEW j \in 1 .. Len(r), NEW k \in 1 .. Len(r), j < k
       PROVE  \/ \E h, i \in 1 .. Len(s) : h < i /\ r[j] = s[h] /\ r[k] = s[i]
              \/ \E h \in 1 .. Len(s), i \in 1 .. Len(new) :
                    r[j] = s[h] /\ Stays(s[h], m, new) /\ r[k] = new[i]
              \/ \E h, i \in 1 .. Len(new) : h < i /\ r[j] = new[h] /\ r[k] = new[i]
  <2>1. /\ n + j \in 1 .. Len(all) /\ r[j] = all[n + j] /\ n + k \in 1 .. Len(all)
        /\ r[k] = all[n + k] /\ n + j < n + k
    BY <1>5, <1>11, <1>16
  <2>2. CASE n + k \in 1 .. Len(l) /\ all[n + k] = l[n + k]
    <3>1. n + j \in 1 .. Len(l) /\ all[n + j] = l[n + j]
      BY <1>4, <2>1, <2>2
    <3>2. \E h, i \in 1 .. Len(s) : h < i /\ l[n + j] = s[h] /\ l[n + k] = s[i]
      BY <1>12, <2>1, <2>2, <3>1
    <3>3. QED
      BY <2>1, <2>2, <3>1, <3>2
  <2>3. CASE \E i \in 1 .. Len(new) : n + k = Len(l) + i /\ all[n + k] = new[i]
    <3>1. PICK i \in 1 .. Len(new) : n + k = Len(l) + i /\ all[n + k] = new[i]
      BY <2>3
    <3>2. CASE n + j \in 1 .. Len(l) /\ all[n + j] = l[n + j]
      <4>1. \E h \in 1 .. Len(s) : l[n + j] = s[h] /\ Stays(s[h], m, new)
        BY <1>12, <3>2
      <4>2. QED
        BY <2>1, <3>1, <3>2, <4>1
    <3>3. CASE \E h \in 1 .. Len(new) : n + j = Len(l) + h /\ all[n + j] = new[h]
      <4>1. PICK h \in 1 .. Len(new) : n + j = Len(l) + h /\ all[n + j] = new[h]
        BY <3>3
      <4>2. h < i
        BY <1>4, <2>1, <3>1, <4>1
      <4>3. QED
        BY <2>1, <3>1, <4>1, <4>2
    <3>4. QED
      BY <1>10, <2>1, <3>2, <3>3
  <2>4. QED
    BY <1>10, <2>1, <2>2, <2>3
<1>17. ASSUME NEW i \in 1 .. Len(r), NEW j \in 1 .. Len(r), i <= j, r[j].late
       PROVE  r[i].late
  <2>1. \A h, k \in 1 .. Len(s) : h <= k /\ s[k].late => s[h].late
    BY DEF Stores, s
  <2>2. CASE i = j
    BY <1>17, <2>2
  <2>3. CASE i < j
    <3>1. CASE \E h, k \in 1 .. Len(s) : h < k /\ r[i] = s[h] /\ r[j] = s[k]
      <4>1. PICK h \in 1 .. Len(s), k \in 1 .. Len(s) : h < k /\ r[i] = s[h] /\ r[j] = s[k]
        BY <3>1
      <4>2. h <= k
        BY <1>1, <4>1
      <4>3. QED
        BY <1>17, <2>1, <4>1, <4>2
    <3>2. CASE \E k \in 1 .. Len(new) : r[j] = new[k]
      BY <1>17, <3>2
    <3>3. QED
      BY <1>16, <2>3, <3>1, <3>2
  <2>4. QED
    BY <1>17, <2>2, <2>3
<1>18. Stores'
  <2>1. Len(r) <= MaxSkip
    BY <1>5, <1>6
  <2>2. ASSUME NEW q \in Peers
        PROVE  /\ Len(store'[q]) <= MaxSkip
               /\ \A i, j \in 1 .. Len(store'[q]) :
                     i <= j /\ store'[q][j].late => store'[q][i].late
    <3>1. CASE q = p
      BY <1>7, <1>17, <2>1, <3>1
    <3>2. CASE q # p
      BY <1>7, <3>2 DEF Stores
    <3>3. QED
      BY <3>1, <3>2
  <2>3. QED
    BY <1>8, <2>2 DEF Stores
<1>19. dropped \subseteq dropped'
  BY <1>2
<1>20. PutInto(r, s, m, new)
  BY <1>15, <1>16 DEF PutInto
<1>21. QED
  BY <1>7, <1>13, <1>14, <1>18, <1>19, <1>20 DEF s

\* Two entries that a get and a decryption cannot tell from one another.
Same(e, f) == e.dh = f.dh /\ e.counter = f.counter /\ e.key = f.key

\* t has nothing that s does not have, in the order of s.
Thinner(t, s) ==
    /\ \A j \in 1 .. Len(t) : \E i \in 1 .. Len(s) : Same(t[j], s[i])
    /\ \A j, k \in 1 .. Len(t) : j < k =>
          \E h, i \in 1 .. Len(s) : h < i /\ Same(t[j], s[h]) /\ Same(t[k], s[i])

\* One store is another one.
LEMMA OneStore ==
    ASSUME Stores, NEW p \in Peers, NEW r \in Seq(Entries), store' = [store EXCEPT ![p] = r]
    PROVE  /\ store' \in [Peers -> Seq(Entries)] /\ store'[p] = r
           /\ \A q \in Peers : q # p => store'[q] = store[q]
<1> DEFINE E == Seq(Entries)
<1>1. store \in [Peers -> E] /\ r \in E
  BY DEF Stores
<1> HIDE DEF E
<1>2. /\ store' \in [Peers -> E] /\ store'[p] = r
      /\ \A q \in Peers : q # p => store'[q] = store[q]
  BY <1>1
<1>3. QED
  BY <1>2 DEF E

\* What makes one store another that is as good.
LEMMA StoreKeeps ==
    ASSUME Stores, NEW p \in Peers, NEW r \in Seq(Entries), store' = [store EXCEPT ![p] = r],
           Len(r) <= MaxSkip,
           \A i, j \in 1 .. Len(r) : i <= j /\ r[j].late => r[i].late
    PROVE  Stores'
<1>1. ASSUME NEW q \in Peers
      PROVE  /\ Len(store'[q]) <= MaxSkip
             /\ \A i, j \in 1 .. Len(store'[q]) :
                   i <= j /\ store'[q][j].late => store'[q][i].late
  <2>1. CASE q = p
    BY OneStore, <2>1
  <2>2. CASE q # p
    BY OneStore, <2>2 DEF Stores
  <2>3. QED
    BY <2>1, <2>2
<1>2. QED
  BY <1>1, OneStore DEF Stores

\* The facts about one store.
LEMMA StoreFacts ==
    ASSUME Stores, NEW p \in Peers
    PROVE  /\ store[p] \in Seq(Entries) /\ Len(store[p]) \in Nat /\ Len(store[p]) <= MaxSkip
           /\ DOMAIN store[p] = 1 .. Len(store[p])
           /\ \A i \in 1 .. Len(store[p]) : store[p][i] \in Entries
           /\ \A i, j \in 1 .. Len(store[p]) : i <= j /\ store[p][j].late => store[p][i].late
<1>1. store[p] \in Seq(Entries)
  BY DEF Stores
<1> DEFINE E == Entries
           s == store[p]
<1>2. s \in Seq(E)
  BY <1>1
<1> HIDE DEF E, s
<1>3. Len(s) \in Nat /\ DOMAIN s = 1 .. Len(s) /\ \A i \in 1 .. Len(s) : s[i] \in E
  BY <1>2
<1>4. QED
  BY <1>1, <1>3 DEF Stores, E, s

\* Entries grow old from the oldest on.
LEMMA GrowOldEffect ==
    ASSUME Stores, NEW p \in Peers, GrowOld(p)
    PROVE  /\ Stores' /\ \A q \in Peers : q # p => store'[q] = store[q]
           /\ Thinner(store'[p], store[p])
           /\ \A i \in 1 .. Len(store[p]) : \E j \in 1 .. Len(store'[p]) :
                 Same(store'[p][j], store[p][i])
<1>1. PICK i \in DOMAIN store[p] :
         store' = [store EXCEPT ![p] =
                     [k \in DOMAIN store[p] |->
                         [store[p][k] EXCEPT !.late = store[p][k].late \/ k <= i]]]
  BY Zenon DEF GrowOld
<1> DEFINE s == store[p]
           r == [k \in DOMAIN s |-> [s[k] EXCEPT !.late = s[k].late \/ k <= i]]
<1>2. /\ s \in Seq(Entries) /\ Len(s) \in Nat /\ Len(s) <= MaxSkip /\ DOMAIN s = 1 .. Len(s)
      /\ \A k \in 1 .. Len(s) : s[k] \in Entries
      /\ \A j, k \in 1 .. Len(s) : j <= k /\ s[k].late => s[j].late
  BY StoreFacts
<1>3. store' = [store EXCEPT ![p] = r]
  BY <1>1
<1>4. i \in 1 .. Len(s)
  BY <1>1, <1>2
<1> HIDE DEF s
<1>5. ASSUME NEW k \in 1 .. Len(s)
      PROVE  /\ r[k] \in Entries /\ Same(r[k], s[k])
             /\ r[k].late <=> s[k].late \/ k <= i
  <2>1. s[k] \in Entries /\ r[k] = [s[k] EXCEPT !.late = s[k].late \/ k <= i]
    BY <1>2
  <2>2. (s[k].late \/ k <= i) \in BOOLEAN
    OBVIOUS
  <2>3. QED
    BY <2>1, <2>2 DEF Entries, Same
<1>6. r \in Seq(Entries) /\ Len(r) = Len(s)
  <2> DEFINE E == Entries
  <2>1. DOMAIN r = 1 .. Len(s) /\ \A k \in 1 .. Len(s) : r[k] \in E
    BY <1>2, <1>5
  <2>2. r = [k \in 1 .. Len(s) |-> r[k]]
    BY <1>2
  <2> HIDE DEF E, r
  <2>3. r \in Seq(E) /\ Len(r) = Len(s)
    BY <1>2, <2>1, <2>2
  <2>4. QED
    BY <2>3 DEF E
<1> HIDE DEF r
<1>7. ASSUME NEW j \in 1 .. Len(r), NEW k \in 1 .. Len(r), j <= k, r[k].late
      PROVE  r[j].late
  <2>1. j \in 1 .. Len(s) /\ k \in 1 .. Len(s)
    BY <1>6
  <2>2. CASE s[k].late
    BY <1>2, <1>5, <1>7, <2>1, <2>2
  <2>3. CASE k <= i
    <3>1. j <= i
      BY <1>4, <1>7, <2>1, <2>3
    <3>2. QED
      BY <1>5, <2>1, <3>1
  <2>4. QED
    BY <1>5, <1>7, <2>1, <2>2, <2>3
<1>8. Stores'
  BY <1>2, <1>3, <1>6, <1>7, StoreKeeps
<1>9. store'[p] = r /\ \A q \in Peers : q # p => store'[q] = store[q]
  BY <1>3, <1>6, OneStore
<1>10. Thinner(r, s)
  BY <1>5, <1>6 DEF Thinner
<1>11. QED
  BY <1>5, <1>6, <1>8, <1>9, <1>10 DEF s

\* What expires are the oldest entries.
LEMMA ExpireEffect ==
    ASSUME Stores, NEW p \in Peers, Expire(p)
    PROVE  /\ Stores' /\ \A q \in Peers : q # p => store'[q] = store[q]
           /\ dropped \subseteq dropped' /\ Thinner(store'[p], store[p])
           /\ \A i \in 1 .. Len(store[p]) :
                 \/ KeyOf(store[p][i]) \in dropped'
                 \/ \E j \in 1 .. Len(store'[p]) : Same(store'[p][j], store[p][i])
<1> DEFINE s == store[p]
           Old(n) == \A k \in DOMAIN s : s[k].late <=> k <= n
           n == CHOOSE n \in 0 .. Len(s) : Old(n)
           r == SubSeq(s, n + 1, Len(s))
<1>1. /\ s \in Seq(Entries) /\ Len(s) \in Nat /\ Len(s) <= MaxSkip /\ DOMAIN s = 1 .. Len(s)
      /\ \A k \in 1 .. Len(s) : s[k] \in Entries
      /\ \A j, k \in 1 .. Len(s) : j <= k /\ s[k].late => s[j].late
  BY StoreFacts
<1>2. /\ store' = [store EXCEPT ![p] = r]
      /\ dropped' = dropped \cup {KeyOf(s[k]) : k \in 1 .. n}
  BY DEF Expire
<1> HIDE DEF s
<1>3. n \in 0 .. Len(s) /\ Old(n)
  <2> DEFINE Young == {k \in 1 .. Len(s) + 1 : k = Len(s) + 1 \/ ~s[k].late}
  <2>1. Young \subseteq Nat /\ Young # {}
    <3>1. Len(s) + 1 \in Young
      BY <1>1
    <3>2. QED
      BY <3>1
  <2>2. PICK y \in Young : \A k \in Young : y <= k
    BY <2>1, Least
  <2>3. y \in Nat /\ y - 1 \in 0 .. Len(s)
    BY <1>1, <2>2
  <2>4. ASSUME NEW k \in 1 .. Len(s)
        PROVE  s[k].late <=> k <= y - 1
    <3>1. CASE k < y
      <4>1. k \notin Young
        BY <2>2, <2>3, <3>1
      <4>2. k \in 1 .. Len(s) + 1
        BY <1>1
      <4>3. s[k].late /\ k <= y - 1
        BY <2>3, <3>1, <4>1, <4>2
      <4>4. QED
        BY <4>3
    <3>2. CASE ~(k < y)
      <4>1. y <= k /\ y \in 1 .. Len(s) /\ ~s[y].late
        BY <1>1, <2>2, <2>3, <3>2
      <4>2. ~s[k].late
        BY <1>1, <4>1
      <4>3. ~(k <= y - 1)
        BY <2>3, <3>2
      <4>4. QED
        BY <4>2, <4>3
    <3>3. QED
      BY <3>1, <3>2
  <2>5. Old(y - 1)
    BY <1>1, <2>4
  <2> HIDE DEF Old
  <2>6. QED
    BY <2>3, <2>5
<1> HIDE DEF n
<1>4. /\ r \in Seq(Entries) /\ Len(r) = Len(s) - n /\ n \in Nat
      /\ \A k \in 1 .. Len(r) : r[k] = s[n + k]
  <2> DEFINE E == Entries
  <2>1. s \in Seq(E)
    BY <1>1
  <2> HIDE DEF E
  <2>2. r \in Seq(E) /\ Len(r) = Len(s) - n /\ \A k \in 1 .. Len(s) - n : r[k] = s[n + k]
    BY <1>3, <2>1, CutOff
  <2>3. QED
    BY <1>3, <2>2 DEF E
<1> HIDE DEF r, Old
<1>5. \A k \in 1 .. Len(r) : n + k \in 1 .. Len(s)
  BY <1>1, <1>3, <1>4
<1>6. Len(r) <= MaxSkip /\ \A i, j \in 1 .. Len(r) : i <= j /\ r[j].late => r[i].late
  <2>1. Len(r) <= MaxSkip
    BY <1>1, <1>3, <1>4, LimitsAssumption
  <2>2. ASSUME NEW i \in 1 .. Len(r), NEW j \in 1 .. Len(r), i <= j, r[j].late PROVE r[i].late
    <3>1. n + i <= n + j
      BY <1>4, <2>2
    <3>2. QED
      BY <1>1, <1>4, <1>5, <2>2, <3>1
  <2>3. QED
    BY <2>1, <2>2
<1>7. Stores' /\ store'[p] = r /\ \A q \in Peers : q # p => store'[q] = store[q]
  BY <1>2, <1>4, <1>6, StoreKeeps, OneStore
<1>8. Thinner(r, s)
  <2>1. \A j \in 1 .. Len(r) : Same(r[j], s[n + j])
    BY <1>4 DEF Same
  <2>2. \A j, k \in 1 .. Len(r) : j < k => n + j < n + k
    BY <1>4
  <2>3. QED
    BY <1>5, <2>1, <2>2 DEF Thinner
<1>9. ASSUME NEW i \in 1 .. Len(s)
      PROVE  KeyOf(s[i]) \in dropped' \/ \E j \in 1 .. Len(r) : Same(r[j], s[i])
  <2>1. CASE i \in 1 .. n
    BY <1>2, <2>1
  <2>2. CASE i \notin 1 .. n
    <3>1. i - n \in 1 .. Len(r) /\ n + (i - n) = i
      BY <1>1, <1>3, <1>4, <2>2
    <3>2. QED
      BY <1>4, <3>1 DEF Same
  <2>3. QED
    BY <2>1, <2>2
<1>10. QED
  BY <1>2, <1>7, <1>8, <1>9 DEF s

\* A sequence without its i-th element.
LEMMA Removed ==
    ASSUME NEW S, NEW s \in Seq(S), NEW i \in 1 .. Len(s)
    PROVE  /\ Remove(s, i) \in Seq(S) /\ Len(Remove(s, i)) = Len(s) - 1 /\ Len(s) \in Nat
           /\ \A k \in 1 .. Len(s) - 1 :
                 Remove(s, i)[k] = IF k < i THEN s[k] ELSE s[k + 1]
<1> DEFINE a == SubSeq(s, 1, i - 1)
           b == SubSeq(s, i + 1, Len(s))
<1>1. /\ a \in Seq(S) /\ Len(a) = i - 1 /\ Len(s) \in Nat /\ i \in Nat
      /\ \A k \in 1 .. i - 1 : a[k] = s[k]
  OBVIOUS
<1>2. b \in Seq(S) /\ Len(b) = Len(s) - i /\ \A k \in 1 .. Len(s) - i : b[k] = s[i + k]
  BY CutOff
<1>3. Remove(s, i) = a \o b
  BY DEF Remove
<1> HIDE DEF a, b
<1>4. /\ a \o b \in Seq(S) /\ Len(a \o b) = Len(s) - 1
      /\ \A k \in 1 .. Len(a) : (a \o b)[k] = a[k]
      /\ \A k \in 1 .. Len(b) : (a \o b)[Len(a) + k] = b[k]
  <2>1. /\ a \o b \in Seq(S) /\ Len(a \o b) = Len(a) + Len(b)
        /\ \A k \in 1 .. Len(a) : (a \o b)[k] = a[k]
        /\ \A k \in 1 .. Len(b) : (a \o b)[Len(a) + k] = b[k]
    <3>1. a \in Seq(S) /\ b \in Seq(S)
      BY <1>1, <1>2
    <3>2. QED
      BY ONLY <3>1, After
  <2>2. Len(a) + Len(b) = Len(s) - 1
    BY <1>1, <1>2
  <2>3. QED
    BY <2>1, <2>2
<1>5. ASSUME NEW k \in 1 .. Len(s) - 1
      PROVE  (a \o b)[k] = IF k < i THEN s[k] ELSE s[k + 1]
  <2>1. CASE k < i
    <3>1. k \in 1 .. Len(a) /\ k \in 1 .. i - 1
      BY <1>1, <2>1
    <3>2. QED
      BY <1>1, <1>4, <2>1, <3>1
  <2>2. CASE ~(k < i)
    <3>1. /\ k - (i - 1) \in 1 .. Len(b) /\ Len(a) + (k - (i - 1)) = k
          /\ k - (i - 1) \in 1 .. Len(s) - i /\ i + (k - (i - 1)) = k + 1
      BY <1>1, <1>2, <2>2
    <3>2. QED
      BY <1>2, <1>4, <2>2, <3>1
  <2>3. QED
    BY <2>1, <2>2
<1>6. QED
  BY <1>1, <1>3, <1>4, <1>5

\* The key that is used up is one of the store's for the message.
LEMMA OpenStoredEffect ==
    ASSUME Stores, NEW m, m.to \in Peers, OpenStored(m)
    PROVE  LET p == m.to IN
           /\ Stores' /\ \A q \in Peers : q # p => store'[q] = store[q]
           /\ Thinner(store'[p], store[p])
           /\ \E i \in 1 .. Len(store[p]) :
                 /\ IsFor(store[p][i], m)
                 /\ opened' = IF store[p][i].key = m.key THEN opened \cup {m} ELSE opened
                 /\ \A j \in 1 .. Len(store[p]) : j # i =>
                       \E k \in 1 .. Len(store'[p]) : Same(store'[p][k], store[p][j])
                 /\ \A k \in 1 .. Len(store'[p]) : \E j \in 1 .. Len(store[p]) :
                       j # i /\ Same(store'[p][k], store[p][j])
<1> DEFINE p == m.to
           s == store[p]
<1>1. /\ s \in Seq(Entries) /\ Len(s) \in Nat /\ Len(s) <= MaxSkip /\ DOMAIN s = 1 .. Len(s)
      /\ \A k \in 1 .. Len(s) : s[k] \in Entries
      /\ \A j, k \in 1 .. Len(s) : j <= k /\ s[k].late => s[j].late
  BY StoreFacts
<1>2. PICK i \in 1 .. Len(s) :
         /\ IsFor(s[i], m) /\ store' = [store EXCEPT ![p] = Remove(s, i)]
         /\ opened' = IF s[i].key = m.key THEN opened \cup {m} ELSE opened
  <2>1. PICK i \in DOMAIN s :
           /\ IsFor(s[i], m) /\ store' = [store EXCEPT ![p] = Remove(store[p], i)]
           /\ opened' = IF s[i].key = m.key THEN opened \cup {m} ELSE opened
    BY Zenon DEF OpenStored
  <2>2. QED
    BY <1>1, <2>1
<1> DEFINE r == Remove(s, i)
<1> HIDE DEF s
<1>3. /\ r \in Seq(Entries) /\ Len(r) = Len(s) - 1
      /\ \A k \in 1 .. Len(r) : r[k] = IF k < i THEN s[k] ELSE s[k + 1]
  <2> DEFINE E == Entries
  <2>1. s \in Seq(E)
    BY <1>1
  <2> HIDE DEF E
  <2>2. /\ r \in Seq(E) /\ Len(r) = Len(s) - 1
        /\ \A k \in 1 .. Len(s) - 1 : r[k] = IF k < i THEN s[k] ELSE s[k + 1]
    BY <2>1, Removed
  <2>3. QED
    BY <2>2 DEF E
<1>4. store' = [store EXCEPT ![p] = r]
  BY <1>2
<1> HIDE DEF r
<1> DEFINE At(k) == IF k < i THEN k ELSE k + 1
<1>5. /\ \A k \in 1 .. Len(r) : At(k) \in 1 .. Len(s) /\ At(k) # i /\ r[k] = s[At(k)]
      /\ \A j, k \in 1 .. Len(r) : j < k => At(j) < At(k)
  BY <1>1, <1>3
<1>6. \A j \in 1 .. Len(s) : j # i => \E k \in 1 .. Len(r) : At(k) = j
  <2>1. SUFFICES ASSUME NEW j \in 1 .. Len(s), j # i PROVE \E k \in 1 .. Len(r) : At(k) = j
    OBVIOUS
  <2>2. CASE j < i
    <3>1. j \in 1 .. Len(r) /\ At(j) = j
      BY <1>1, <1>3, <2>2
    <3>2. QED
      BY <3>1
  <2>3. CASE ~(j < i)
    <3>1. j - 1 \in 1 .. Len(r) /\ At(j - 1) = j
      BY <1>1, <1>3, <2>1, <2>3
    <3>2. QED
      BY <3>1
  <2>4. QED
    BY <2>2, <2>3
<1> HIDE DEF At
<1>7. ASSUME NEW j \in 1 .. Len(r), NEW k \in 1 .. Len(r), j <= k, r[k].late
      PROVE  r[j].late
  <2>1. CASE j = k
    BY <1>7, <2>1
  <2>2. CASE j < k
    <3>1. At(j) \in 1 .. Len(s) /\ At(k) \in 1 .. Len(s) /\ At(j) < At(k) /\ s[At(k)].late
      BY <1>5, <1>7, <2>2
    <3>2. At(j) <= At(k)
      BY <3>1
    <3>3. s[At(j)].late
      BY <1>1, <3>1, <3>2
    <3>4. QED
      BY <1>5, <3>3
  <2>3. QED
    BY <1>7, <2>1, <2>2
<1>8. Len(r) <= MaxSkip
  BY <1>1, <1>3, LimitsAssumption
<1>9. Stores' /\ store'[p] = r /\ \A q \in Peers : q # p => store'[q] = store[q]
  BY <1>3, <1>4, <1>7, <1>8, StoreKeeps, OneStore
<1>10. Thinner(r, s)
  BY <1>5 DEF Thinner, Same
<1>11. \A j \in 1 .. Len(s) : j # i => \E k \in 1 .. Len(r) : Same(r[k], s[j])
  BY <1>5, <1>6 DEF Same
<1>12. \A k \in 1 .. Len(r) : \E j \in 1 .. Len(s) : j # i /\ Same(r[k], s[j])
  BY <1>5 DEF Same
<1>13. QED
  BY <1>2, <1>9, <1>10, <1>11, <1>12 DEF s

\* The caller's store after an advance or an encryption.
LEMMA CarriedEffect ==
    ASSUME Stores, NEW p \in Peers, store' = Carried(p)
    PROVE  /\ Stores' /\ \A q \in Peers : q # p => store'[q] = store[q]
           /\ store'[p] = IF Reattach THEN store[p] ELSE <<>>
<1>1. CASE Reattach
  <2>1. store' = store
    BY <1>1 DEF Carried
  <2>2. QED
    BY <1>1, <2>1 DEF Stores
<1>2. CASE ~Reattach
  <2>1. /\ store' = [store EXCEPT ![p] = <<>>] /\ <<>> \in Seq(Entries) /\ Len(<<>>) = 0
    BY <1>2 DEF Carried
  <2>2. Len(<<>>) <= MaxSkip
    BY <2>1, LimitsAssumption
  <2>3. \A i, j \in 1 .. Len(<<>>) : FALSE
    BY <2>1
  <2>4. QED
    BY <1>2, <2>1, <2>2, <2>3, StoreKeeps, OneStore
<1>3. QED
  BY <1>1, <1>2

\* The keys that a chain passes on its way to a message.
LEMMA SkippedFacts ==
    ASSUME RInv, NEW m \in net, Ahead(m)
    PROVE  LET c == receiving[m.to]
               new == Skipped(c, m) IN
           /\ new \in Seq(Entries) /\ Len(new) = m.counter - c.counter
           /\ c.counter <= m.counter /\ DOMAIN new = 1 .. Len(new)
           /\ \A k \in 1 .. Len(new) :
                 /\ new[k].dh = m.dh /\ new[k].counter = c.counter + k - 1
                 /\ new[k].key = c.key /\ ~new[k].late
<1> DEFINE c == receiving[m.to]
           new == Skipped(c, m)
<1>1. /\ c.key \in Seq(Outputs) /\ c.counter \in Nat /\ m.counter \in Nat /\ m.dh \in Keys
      /\ c.counter <= m.counter
  BY ChainTypes DEF Ahead
<1>2. PICK n \in Nat : n = m.counter - c.counter
  BY <1>1
<1>3. new = [k \in 1 .. n |-> [dh |-> m.dh, counter |-> c.counter + k - 1, key |-> c.key,
                               late |-> FALSE]]
  BY <1>2 DEF Skipped
<1>4. \A k \in 1 .. n : /\ new[k] \in Entries
                        /\ new[k].dh = m.dh /\ new[k].counter = c.counter + k - 1
                        /\ new[k].key = c.key /\ ~new[k].late
  BY <1>1, <1>3 DEF Entries
<1>5. new \in Seq(Entries) /\ Len(new) = n /\ DOMAIN new = 1 .. n
  <2> DEFINE E == Entries
  <2>1. new = [k \in 1 .. n |-> new[k]] /\ \A k \in 1 .. n : new[k] \in E
    BY <1>3, <1>4
  <2> HIDE DEF E, new
  <2>2. QED
    <3>1. new \in Seq(E) /\ Len(new) = n /\ DOMAIN new = 1 .. n
      BY <2>1
    <3>2. QED
      BY <3>1 DEF E
<1>6. QED
  BY <1>1, <1>2, <1>4, <1>5

-----------------------------------------------------------------------------
\* The states have the types that the actions take for granted, and no store
\* ever holds more than max_skip keys.
TInv == RInv /\ CInv /\ Stores /\ stored \in [Peers -> BOOLEAN] /\ opened \subseteq net

\* A session starts with empty stores and nothing sent.
LEMMA InitTInv == Init => TInv
<1> SUFFICES ASSUME Init PROVE TInv
  OBVIOUS
<1>1. store = [p \in Peers |-> <<>>] /\ <<>> \in Seq(Entries) /\ Len(<<>>) = 0
  BY DEF Init
<1>2. store \in [Peers -> Seq(Entries)]
  BY <1>1
<1>3. Stores
  BY <1>1, <1>2, LimitsAssumption DEF Stores
<1>4. stored \in [Peers -> BOOLEAN] /\ opened \subseteq net
  BY DEF Init
<1>5. QED
  BY <1>3, <1>4, InitTurns, InitChains DEF TInv

\* The stores are well formed after every step.
LEMMA NextStores == RInv /\ Stores /\ [Next]_vars => Stores'
<1> SUFFICES ASSUME RInv, Stores, [Next]_vars PROVE Stores'
  OBVIOUS
<1>1. CASE store' = store
  BY <1>1 DEF Stores
<1>2. CASE \E p \in Peers : NewPublicKey(p) \/ Encrypt(p)
  <2>1. PICK p \in Peers : store' = Carried(p)
    BY <1>2 DEF NewPublicKey, Advance, Encrypt
  <2>2. QED
    BY <2>1, CarriedEffect
<1>3. CASE \E p \in Peers : GrowOld(p) \/ Expire(p)
  BY <1>3, GrowOldEffect, ExpireEffect
<1>4. CASE \E m \in net : DecryptInOrder(m) \/ DecryptOutOfOrder(m)
  <2>1. PICK m \in net : DecryptInOrder(m) \/ DecryptOutOfOrder(m)
    BY <1>4
  <2>2. m.to \in Peers
    BY ChainTypes
  <2>3. CASE DecryptInOrder(m)
    BY <1>1, <2>3 DEF DecryptInOrder
  <2>4. CASE OpenStored(m)
    BY <2>2, <2>4, OpenStoredEffect
  <2>5. CASE WindForward(m)
    <3>1. GetThenPut(m, Skipped(receiving[m.to], m)) /\ Ahead(m)
      BY <2>5 DEF WindForward
    <3>2. QED
      BY <2>2, <3>1, SkippedFacts, PutEffect
  <2>6. CASE Refused(m)
    <3>1. GetThenPut(m, <<>>) /\ <<>> \in Seq(Entries) /\ Len(<<>>) = 0
      BY <2>6 DEF Refused
    <3>2. \A k \in 1 .. Len(<<>>) : ~<<>>[k].late
      BY <3>1
    <3>3. QED
      BY <2>2, <3>1, <3>2, PutEffect
  <2>7. QED
    BY <2>1, <2>3, <2>4, <2>5, <2>6 DEF DecryptOutOfOrder
<1>5. CASE UNCHANGED vars
  BY <1>1, <1>5 DEF vars
<1>6. QED
  BY <1>2, <1>3, <1>4, <1>5 DEF Next

\* Every step keeps the types.
LEMMA NextTInv == TInv /\ RInv' /\ [Next]_vars => TInv'
<1> SUFFICES ASSUME TInv, RInv', [Next]_vars PROVE TInv'
  OBVIOUS
<1>1. CInv' /\ Stores'
  BY NextCInv, NextStores DEF TInv
<1>2. stored' \in [Peers -> BOOLEAN] /\ opened' \subseteq net'
  <2>1. CASE \E p \in Peers : NewPublicKey(p) \/ Encrypt(p)
    <3>1. PICK p \in Peers : NewPublicKey(p) \/ Encrypt(p)
      BY <2>1
    <3>2. \/ stored' = [stored EXCEPT ![p] = TRUE]
          \/ stored' = [stored EXCEPT ![p] = stored[p] /\ Reattach]
      BY <3>1 DEF NewPublicKey, Advance, Encrypt
    <3>3. (stored[p] /\ Reattach) \in BOOLEAN
      OBVIOUS
    <3>4. stored' \in [Peers -> BOOLEAN]
      BY <3>2, <3>3 DEF TInv
    <3>5. opened' = opened /\ net \subseteq net'
      BY <3>1 DEF NewPublicKey, Encrypt
    <3>6. QED
      BY <3>4, <3>5 DEF TInv
  <2>2. CASE \E p \in Peers : GrowOld(p) \/ Expire(p)
    BY <2>2 DEF GrowOld, Expire, TInv
  <2>3. CASE \E m \in net : DecryptInOrder(m) \/ DecryptOutOfOrder(m)
    <3>1. PICK m \in net : DecryptInOrder(m) \/ DecryptOutOfOrder(m)
      BY <2>3
    <3>2. /\ stored' = stored /\ net' = net
          /\ opened' = opened \/ opened' = opened \cup {m}
      BY <3>1 DEF DecryptInOrder, DecryptOutOfOrder, OpenStored, WindForward, Refused
    <3>3. QED
      BY <3>2 DEF TInv
  <2>4. CASE UNCHANGED vars
    BY <2>4 DEF vars, TInv
  <2>5. QED
    BY <2>1, <2>2, <2>3, <2>4 DEF Next
<1>3. QED
  BY <1>1, <1>2 DEF TInv

\* No store holds more than max_skip keys, whatever is put and evicted
\* (SkippedKeyStore.put), and the rest of the session is of its types.
THEOREM StoreIsBounded == Spec => []TypeOK
<1>1. TInv => TypeOK
  BY DEF TInv, RInv, Types, Stores, TypeOK
<1>2. QED
  BY <1>1, InitTInv, NextTInv, Invariance, PTL DEF Spec

-----------------------------------------------------------------------------
(***************************************************************************)
(* A message that was overtaken can be opened later, when the caller keeps *)
(* the store.                                                              *)
(***************************************************************************)

\* The store of m's receiver has the key of m for it.
Has(m) ==
    \E i \in 1 .. Len(store[m.to]) :
       IsFor(store[m.to][i], m) /\ KeyOf(store[m.to][i]) = KeyOf(m)

Overtaken(m) == Fits(receiving[m.to], m) /\ m.counter < receiving[m.to].counter

Kept == \A m \in net \ opened : Overtaken(m) => Has(m) \/ KeyOf(m) \in dropped

\* It is what is checked.
LEMMA KeptIs == TInv => (Kept <=> OvertakenIsKept)
<1> SUFFICES ASSUME TInv PROVE Kept <=> OvertakenIsKept
  OBVIOUS
<1>1. \A m \in net : DOMAIN store[m.to] = 1 .. Len(store[m.to])
  BY ChainTypes, StoreFacts DEF TInv
<1>2. QED
  BY <1>1 DEF Kept, OvertakenIsKept, Overtaken, Has

\* The key that is for a message, and the message of the chain in use.
LEMMA SameKeyed ==
    ASSUME TInv, NEW m \in net, NEW k \in net, k.to = m.to, Fits(receiving[m.to], m)
    PROVE  k.key = m.key <=> k.dh = m.dh
<1>1. /\ Len(m.key) = 2 * m.dh + Off(m.to) /\ Len(k.key) = 2 * k.dh + Off(m.to)
      /\ m.dh \in Nat /\ k.dh \in Nat /\ Off(m.to) \in {0, 1}
  BY ChainTypes DEF TInv, CInv, Lengths
<1>2. k.key = m.key => k.dh = m.dh
  BY <1>1
<1>3. k.dh = m.dh => k.key = m.key
  <2>1. k.dh = m.dh => Len(k.key) = Len(receiving[k.to].key)
    BY <1>1 DEF Fits
  <2>2. QED
    BY <2>1 DEF TInv, CInv, InUse, Fits
<1>4. QED
  BY <1>2, <1>3

\* Messages of one chain and one counter are one message.
LEMMA OneMessage ==
    ASSUME TInv, NEW m \in net, NEW k \in net, k.to = m.to, k.dh = m.dh, k.key = m.key,
           k.counter = m.counter
    PROVE  k = m
<1>1. \A n \in net : n = [to |-> n.to, dh |-> n.dh, key |-> n.key, counter |-> n.counter]
  BY DEF TInv, RInv, Types, Messages
<1>2. QED
  BY <1>1

\* What keeps the key of a message, or reports it gone.
LEMMA StillKept ==
    ASSUME TInv, Kept, NEW m \in net \ opened, Overtaken(m), dropped \subseteq dropped',
           \A i \in 1 .. Len(store[m.to]) :
              IsFor(store[m.to][i], m) /\ KeyOf(store[m.to][i]) = KeyOf(m) =>
                 \/ KeyOf(m) \in dropped'
                 \/ \E j \in 1 .. Len(store'[m.to]) : Same(store'[m.to][j], store[m.to][i])
    PROVE  Has(m)' \/ KeyOf(m) \in dropped'
<1>1. CASE KeyOf(m) \in dropped
  BY <1>1
<1>2. CASE Has(m)
  <2>1. PICK i \in 1 .. Len(store[m.to]) :
           IsFor(store[m.to][i], m) /\ KeyOf(store[m.to][i]) = KeyOf(m)
    BY <1>2 DEF Has
  <2>2. CASE \E j \in 1 .. Len(store'[m.to]) : Same(store'[m.to][j], store[m.to][i])
    <3>1. PICK j \in 1 .. Len(store'[m.to]) : Same(store'[m.to][j], store[m.to][i])
      BY <2>2
    <3>2. IsFor(store'[m.to][j], m) /\ KeyOf(store'[m.to][j]) = KeyOf(m)
      BY <2>1, <3>1 DEF Same, IsFor, KeyOf
    <3>3. QED
      BY <3>2 DEF Has
  <2>3. QED
    BY <2>1, <2>2
<1>3. QED
  BY <1>1, <1>2 DEF Kept

\* No message is overtaken when a chain begins.
LEMMA AdvanceKept ==
    ASSUME TInv, Kept, Reattach, NEW p \in Peers, NewPublicKey(p)
    PROVE  Kept'
<1> DEFINE q == Other(p)
<1>1. /\ net' = net /\ receiving'[q] = receiving[q]
      /\ receiving'[p] = NewChain(sending[q].key)
  BY AdvanceEffect DEF TInv
<1>2. store' = store /\ opened' = opened /\ dropped' = dropped
  BY DEF NewPublicKey, Advance, Carried
<1>3. \A r \in Peers : r = p \/ r = q
  BY DEF Peers, Other
<1>4. SUFFICES ASSUME NEW m \in net \ opened, Overtaken(m)'
               PROVE  Has(m)' \/ KeyOf(m) \in dropped'
  BY <1>1, <1>2 DEF Kept
<1>5. m.to \in Peers /\ m.counter \in Nat
  BY ChainTypes DEF TInv
<1>6. m.to # p
  BY <1>1, <1>4, <1>5 DEF Overtaken, NewChain
<1>7. Overtaken(m)
  BY <1>1, <1>3, <1>4, <1>5, <1>6 DEF Overtaken
<1>8. QED
  BY <1>2, <1>4, <1>7 DEF Kept, Has

\* A message is not overtaken when it is written.
LEMMA EncryptKept ==
    ASSUME TInv, Kept, Reattach, NEW p \in Peers, Encrypt(p)
    PROVE  Kept'
<1> DEFINE new == [to |-> Other(p), dh |-> mine[p], key |-> sending[p].key,
                   counter |-> sending[p].counter]
<1>1. /\ net' = net \cup {new} /\ receiving' = receiving /\ store' = store
      /\ opened' = opened /\ dropped' = dropped
  BY DEF Encrypt, Carried
<1>2. /\ Other(p) \in Peers /\ Other(Other(p)) = p /\ sending[p].counter \in Nat
      /\ receiving[Other(p)].counter \in Nat
  BY ChainTypes DEF TInv
<1>3. ASSUME Overtaken(new) PROVE FALSE
  <2>1. /\ receiving[Other(p)].key = sending[p].key
        /\ sending[p].counter < receiving[Other(p)].counter
    BY <1>3 DEF Overtaken, Fits
  <2>2. receiving[Other(p)].counter <= sending[p].counter
    BY <1>2, <2>1 DEF TInv, CInv, Behind
  <2>3. QED
    BY <1>2, <2>1, <2>2
<1> HIDE DEF new
<1>4. ASSUME NEW m \in net' \ opened', Overtaken(m)'
      PROVE  Has(m)' \/ KeyOf(m) \in dropped'
  <2>1. Overtaken(m) /\ m \in net \ opened
    BY <1>1, <1>3, <1>4 DEF Overtaken
  <2>2. QED
    BY <1>1, <2>1 DEF Kept, Has
<1>5. QED
  BY <1>4 DEF Kept

\* Of the entries that grow old or expire, none is gone that is not reported.
LEMMA AgeKept ==
    ASSUME TInv, Kept, NEW p \in Peers, GrowOld(p) \/ Expire(p)
    PROVE  Kept'
<1>1. UNCHANGED <<net, receiving, opened>> /\ dropped \subseteq dropped'
  BY DEF GrowOld, Expire
<1>2. /\ \A q \in Peers : q # p => store'[q] = store[q]
      /\ \A i \in 1 .. Len(store[p]) :
            \/ KeyOf(store[p][i]) \in dropped'
            \/ \E j \in 1 .. Len(store'[p]) : Same(store'[p][j], store[p][i])
  BY GrowOldEffect, ExpireEffect DEF TInv
<1>3. ASSUME NEW m \in net \ opened, Overtaken(m)
      PROVE  Has(m)' \/ KeyOf(m) \in dropped'
  <2>1. m.to \in Peers
    BY ChainTypes DEF TInv
  <2>2. \A i \in 1 .. Len(store[m.to]) :
              IsFor(store[m.to][i], m) /\ KeyOf(store[m.to][i]) = KeyOf(m) =>
                 \/ KeyOf(m) \in dropped'
                 \/ \E j \in 1 .. Len(store'[m.to]) : Same(store'[m.to][j], store[m.to][i])
    <3>1. CASE m.to = p
      BY <1>2, <3>1
    <3>2. CASE m.to # p
      BY <1>2, <2>1, <3>2 DEF Same
    <3>3. QED
      BY <3>1, <3>2
  <2>3. QED
    BY <1>1, <1>3, <2>2, StillKept
<1>4. QED
  BY <1>1, <1>3 DEF Kept, Overtaken

\* The next message of a chain overtakes none.
LEMMA InOrderKept ==
    ASSUME TInv, Kept, NEW m \in net, DecryptInOrder(m)
    PROVE  Kept'
<1> DEFINE p == m.to
<1>1. /\ UNCHANGED <<net, store, dropped>> /\ opened' = opened \cup {m}
      /\ Fits(receiving[p], m) /\ receiving[p].counter = m.counter
      /\ receiving' = [receiving EXCEPT ![p].counter = receiving[p].counter + 1]
  BY DEF DecryptInOrder
<1>2. p \in Peers /\ m.counter \in Nat /\ receiving \in [Peers -> Chains]
  BY ChainTypes DEF TInv, RInv, Types
<1>3. /\ receiving'[p].key = receiving[p].key /\ receiving'[p].counter = m.counter + 1
      /\ \A q \in Peers : q # p => receiving'[q] = receiving[q]
  BY <1>1, <1>2 DEF Chains
<1>4. SUFFICES ASSUME NEW k \in net \ opened, k # m, Overtaken(k)'
               PROVE  Overtaken(k)
  BY <1>1 DEF Kept, Has
<1>5. k.to \in Peers /\ k.counter \in Nat
  BY ChainTypes DEF TInv
<1>6. CASE k.to = p
  <2>1. Fits(receiving[p], k) /\ k.counter < m.counter + 1
    BY <1>3, <1>4, <1>6 DEF Overtaken, Fits
  <2>2. k.key = m.key /\ k.dh = m.dh
    BY <1>1, <1>6, <2>1, SameKeyed DEF Fits
  <2>3. k.counter # m.counter
    BY <1>4, <1>6, <2>2, OneMessage
  <2>4. k.counter < receiving[p].counter
    BY <1>1, <1>2, <1>5, <2>1, <2>3
  <2>5. QED
    BY <1>6, <2>1, <2>4 DEF Overtaken
<1>7. CASE k.to # p
  BY <1>3, <1>4, <1>5, <1>7 DEF Overtaken
<1>8. QED
  BY <1>6, <1>7

\* A key is used up by the message it is of.
LEMMA OpenKept ==
    ASSUME TInv, Kept, NEW m \in net, OpenStored(m)
    PROVE  Kept'
<1> DEFINE p == m.to
<1>1. p \in Peers
  BY ChainTypes DEF TInv
<1>2. PICK i \in 1 .. Len(store[p]) :
         /\ IsFor(store[p][i], m)
         /\ opened' = IF store[p][i].key = m.key THEN opened \cup {m} ELSE opened
         /\ \A j \in 1 .. Len(store[p]) : j # i =>
               \E k \in 1 .. Len(store'[p]) : Same(store'[p][k], store[p][j])
  BY <1>1, OpenStoredEffect DEF TInv
<1>3. \A q \in Peers : q # p => store'[q] = store[q]
  BY <1>1, OpenStoredEffect DEF TInv
<1>4. UNCHANGED <<net, receiving, dropped>>
  BY DEF OpenStored
<1>5. ASSUME NEW k \in net \ opened, k \notin opened', Overtaken(k)
      PROVE  Has(k)' \/ KeyOf(k) \in dropped'
  <2>1. k.to \in Peers
    BY ChainTypes DEF TInv
  <2>2. ASSUME k.to = p, IsFor(store[p][i], k), KeyOf(store[p][i]) = KeyOf(k)
        PROVE  FALSE
    <3>1. k.dh = m.dh /\ k.counter = m.counter /\ store[p][i].key = k.key
      BY <1>2, <2>2 DEF IsFor, KeyOf
    <3>2. k.key = m.key
      BY <1>5, <2>2, <3>1, SameKeyed DEF Overtaken
    <3>3. k = m
      BY <2>2, <3>1, <3>2, OneMessage
    <3>4. QED
      BY <1>2, <1>5, <3>1, <3>2, <3>3
  <2>3. \A j \in 1 .. Len(store[k.to]) :
              IsFor(store[k.to][j], k) /\ KeyOf(store[k.to][j]) = KeyOf(k) =>
                 \/ KeyOf(k) \in dropped'
                 \/ \E h \in 1 .. Len(store'[k.to]) : Same(store'[k.to][h], store[k.to][j])
    <3>1. CASE k.to = p
      BY <1>2, <2>2, <3>1
    <3>2. CASE k.to # p
      BY <1>3, <2>1, <3>2 DEF Same
    <3>3. QED
      BY <3>1, <3>2
  <2>4. dropped \subseteq dropped'
    BY <1>4
  <2>5. QED
    BY <1>5, <2>3, <2>4, StillKept
<1>6. opened \subseteq opened'
  BY <1>2
<1>7. QED
  BY <1>4, <1>5, <1>6 DEF Kept, Overtaken

\* A get and a put leave every key that is needed, or report it gone.
LEMMA PutKept ==
    ASSUME TInv, Kept, NEW m \in net, NEW new \in Seq(Entries), GetThenPut(m, new),
           \A h \in 1 .. Len(new) : /\ ~new[h].late /\ new[h].dh = m.dh
                                    /\ new[h].counter >= receiving[m.to].counter
                                    /\ new[h].counter \in Nat,
           NEW k \in net \ opened, Overtaken(k)
    PROVE  Has(k)' \/ KeyOf(k) \in dropped'
<1> DEFINE p == m.to
<1>1. p \in Peers /\ k.to \in Peers /\ k.counter \in Nat /\ receiving[p].counter \in Nat
  BY ChainTypes DEF TInv
<1>2. /\ dropped \subseteq dropped' /\ \A q \in Peers : q # p => store'[q] = store[q]
      /\ \A i \in 1 .. Len(store[p]) :
            /\ IsFor(store[p][i], m) => KeyOf(store[p][i]) \in dropped'
            /\ Stays(store[p][i], m, new) =>
                  \/ KeyOf(store[p][i]) \in dropped'
                  \/ \E j \in 1 .. Len(store'[p]) : store'[p][j] = store[p][i]
  BY <1>1, PutEffect DEF TInv
<1>3. ASSUME NEW i \in 1 .. Len(store[k.to]), IsFor(store[k.to][i], k),
             KeyOf(store[k.to][i]) = KeyOf(k)
      PROVE  \/ KeyOf(k) \in dropped'
             \/ \E j \in 1 .. Len(store'[k.to]) : Same(store'[k.to][j], store[k.to][i])
  <2>1. CASE k.to # p
    BY <1>1, <1>2, <1>3, <2>1 DEF Same
  <2>2. CASE k.to = p /\ IsFor(store[p][i], m)
    BY <1>2, <1>3, <2>2
  <2>3. CASE k.to = p /\ ~IsFor(store[p][i], m)
    <3>1. store[p][i].counter < receiving[p].counter /\ store[p][i].counter \in Nat
      BY <1>1, <1>3, <2>3 DEF IsFor, Overtaken
    <3>2. \A h \in 1 .. Len(new) : ~IsFor(store[p][i], new[h])
      BY <1>1, <3>1 DEF IsFor
    <3>3. DOMAIN new = 1 .. Len(new)
      OBVIOUS
    <3>4. Stays(store[p][i], m, new)
      BY <2>3, <3>2, <3>3 DEF Stays
    <3>5. QED
      BY <1>2, <1>3, <2>3, <3>4 DEF Same
  <2>4. QED
    BY <2>1, <2>2, <2>3
<1>4. QED
  BY <1>2, <1>3, StillKept

\* The keys of the messages that the chain passes are put into the store.
LEMMA WindKept ==
    ASSUME TInv, Kept, NEW m \in net, WindForward(m)
    PROVE  Kept'
<1> DEFINE p == m.to
           c == receiving[p]
           new == Skipped(c, m)
<1>1. /\ GetThenPut(m, new) /\ Ahead(m) /\ net' = net
      /\ \/ Fits(c, m) /\ opened' = opened \cup {m}
            /\ receiving' = [receiving EXCEPT ![p].counter = m.counter + 1]
         \/ ~Fits(c, m) /\ opened' = opened /\ receiving' = receiving
  BY DEF WindForward
<1>2. /\ p \in Peers /\ m.counter \in Nat /\ receiving \in [Peers -> Chains]
      /\ c.counter \in Nat
  BY ChainTypes DEF TInv, RInv, Types
<1>3. /\ new \in Seq(Entries) /\ Len(new) = m.counter - c.counter /\ c.counter <= m.counter
      /\ \A k \in 1 .. Len(new) :
            /\ new[k].dh = m.dh /\ new[k].counter = c.counter + k - 1
            /\ new[k].key = c.key /\ ~new[k].late
  BY <1>1, SkippedFacts DEF TInv
<1> HIDE DEF new
<1>4. \A h \in 1 .. Len(new) : /\ ~new[h].late /\ new[h].dh = m.dh
                               /\ new[h].counter >= c.counter /\ new[h].counter \in Nat
  BY <1>2, <1>3
<1>5. ASSUME NEW k \in net \ opened, Overtaken(k)
      PROVE  Has(k)' \/ KeyOf(k) \in dropped'
  BY <1>1, <1>3, <1>4, <1>5, PutKept
<1>6. \A h \in 1 .. Len(new) :
         \/ KeyOf(new[h]) \in dropped'
         \/ \E j \in 1 .. Len(store'[p]) : store'[p][j] = new[h]
  <2>1. Stores /\ m.to \in Peers /\ new \in Seq(Entries) /\ GetThenPut(m, new)
        /\ \A h \in 1 .. Len(new) : ~new[h].late
    BY <1>1, <1>2, <1>3 DEF TInv
  <2>2. QED
    BY ONLY <2>1, PutEffect
<1>7. CASE ~Fits(c, m)
  BY <1>1, <1>5, <1>7 DEF Kept, Overtaken
<1>8. CASE Fits(c, m)
  <2>1. /\ receiving'[p].key = c.key /\ receiving'[p].counter = m.counter + 1
        /\ \A q \in Peers : q # p => receiving'[q] = receiving[q]
    BY <1>1, <1>2, <1>8 DEF Chains
  <2>2. ASSUME NEW k \in net \ opened, k # m, Overtaken(k)'
        PROVE  Has(k)' \/ KeyOf(k) \in dropped'
    <3>1. k.to \in Peers /\ k.counter \in Nat
      BY ChainTypes DEF TInv
    <3>2. CASE k.to # p
      BY <1>5, <2>1, <2>2, <3>1, <3>2 DEF Overtaken
    <3>3. CASE k.to = p
      <4>1. Fits(c, k) /\ k.counter < m.counter + 1
        BY <2>1, <2>2, <3>3 DEF Overtaken, Fits
      <4>2. k.key = m.key /\ k.dh = m.dh
        BY <1>8, <3>3, <4>1, SameKeyed DEF Fits
      <4>3. k.counter # m.counter
        BY <2>2, <3>3, <4>2, OneMessage
      <4>4. CASE k.counter < c.counter
        BY <1>5, <3>3, <4>1, <4>4 DEF Overtaken
      <4>5. CASE ~(k.counter < c.counter)
        <5>1. /\ k.counter - c.counter + 1 \in 1 .. Len(new)
              /\ c.counter + (k.counter - c.counter + 1) - 1 = k.counter
          <6>1. /\ k.counter \in Nat /\ m.counter \in Nat /\ c.counter \in Nat
                /\ Len(new) = m.counter - c.counter
                /\ k.counter < m.counter + 1 /\ k.counter # m.counter
                /\ ~(k.counter < c.counter)
            BY <1>2, <1>3, <3>1, <4>1, <4>3, <4>5
          <6> HIDE DEF c
          <6>2. QED
            BY ONLY <6>1
        <5>2. PICK h \in 1 .. Len(new) :
                 /\ new[h].dh = m.dh /\ new[h].counter = k.counter /\ new[h].key = c.key
          BY <1>3, <5>1
        <5>3. IsFor(new[h], k) /\ KeyOf(new[h]) = KeyOf(k)
          BY <4>1, <4>2, <5>2 DEF IsFor, KeyOf, Fits
        <5>4. \/ KeyOf(new[h]) \in dropped'
              \/ \E j \in 1 .. Len(store'[p]) : store'[p][j] = new[h]
          BY <1>6, <5>2
        <5>5. QED
          BY <3>3, <5>3, <5>4 DEF Has
      <4>6. QED
        BY <4>4, <4>5
    <3>4. QED
      BY <3>2, <3>3
  <2>3. QED
    BY <1>1, <1>8, <2>2 DEF Kept
<1>9. QED
  BY <1>7, <1>8

\* Every step of a session whose caller keeps the store.
LEMMA NextKept == TInv /\ Kept /\ Reattach /\ [Next]_vars => Kept'
<1> SUFFICES ASSUME TInv, Kept, Reattach, [Next]_vars PROVE Kept'
  OBVIOUS
<1>1. CASE UNCHANGED vars
  BY <1>1 DEF vars, Kept, Overtaken, Has
<1>2. CASE \E p \in Peers : NewPublicKey(p) \/ Encrypt(p) \/ GrowOld(p) \/ Expire(p)
  BY <1>2, AdvanceKept, EncryptKept, AgeKept
<1>3. CASE \E m \in net : DecryptInOrder(m) \/ DecryptOutOfOrder(m)
  <2>1. PICK m \in net : DecryptInOrder(m) \/ DecryptOutOfOrder(m)
    BY <1>3
  <2>2. CASE Refused(m)
    <3>1. GetThenPut(m, <<>>) /\ UNCHANGED <<net, opened, receiving>>
      BY <2>2 DEF Refused
    <3>2. /\ <<>> \in Seq(Entries)
          /\ \A h \in 1 .. Len(<<>>) : /\ ~<<>>[h].late /\ <<>>[h].dh = m.dh
                                       /\ <<>>[h].counter >= receiving[m.to].counter
                                       /\ <<>>[h].counter \in Nat
      OBVIOUS
    <3>3. ASSUME NEW k \in net \ opened, Overtaken(k)
          PROVE  Has(k)' \/ KeyOf(k) \in dropped'
      BY <3>1, <3>2, <3>3, PutKept
    <3>4. QED
      BY <3>1, <3>3 DEF Kept, Overtaken
  <2>3. QED
    BY <2>1, <2>2, InOrderKept, OpenKept, WindKept DEF DecryptOutOfOrder
<1>4. QED
  BY <1>1, <1>2, <1>3 DEF Next

\* A message of the chain in use that was overtaken can still be opened, unless
\* it has been or its key was evicted or has expired, for any number of messages
\* in any order and any limits, when the caller puts the store back into what
\* encrypting and advancing return (decrypt_with_session_ooo, SkippedKeyStore).
THEOREM NothingOvertakenIsLost == Reattach => (Spec => []OvertakenIsKept)
<1> SUFFICES ASSUME Reattach PROVE Spec => []OvertakenIsKept
  OBVIOUS
<1>1. Init => Kept
  BY DEF Init, Kept
<1>2. TInv /\ Kept /\ [Next]_vars => Kept'
  BY NextKept
<1>3. TInv /\ Kept => OvertakenIsKept
  BY KeptIs
<1>4. QED
  BY <1>1, <1>2, <1>3, InitTInv, NextTInv, Invariance, PTL DEF Spec

-----------------------------------------------------------------------------
(***************************************************************************)
(* The key of a message that has been opened is gone.  The store has one   *)
(* entry for a public key and a counter; those with the key and the public *)
(* key of the chain in use are of messages that the chain has passed; and  *)
(* none has the key of an opened message.  A key that a forged or an old   *)
(* message put there is of another public key, or was not used yet.        *)
(***************************************************************************)

Once(s) ==
    \A i, j \in 1 .. Len(s) : i < j => ~(s[i].dh = s[j].dh /\ s[i].counter = s[j].counter)

\* A store s of a peer that has seen these public keys, j the last of them, and
\* reads with this chain, after it has opened the messages done.
Spent(s, seen, j, chain, done) ==
    /\ Once(s)
    /\ \A i \in 1 .. Len(s) :
          /\ s[i].dh \in seen
          /\ s[i].key = chain.key /\ s[i].dh = j => s[i].counter < chain.counter
          /\ \A m \in done : ~Same(s[i], m)

OpenedBy(p) == {m \in opened : m.to = p}

Gone ==
    /\ \A m \in opened : /\ m.dh \in known[m.to]
                         /\ Fits(receiving[m.to], m) => m.counter < receiving[m.to].counter
    /\ \A p \in Peers : Spent(store[p], known[p], theirs[p], receiving[p], OpenedBy(p))

\* It is what is meant.
LEMMA GoneIs == TInv /\ Gone => KeyGone
<1> SUFFICES ASSUME TInv, Gone, NEW m \in opened
             PROVE  /\ Fits(receiving[m.to], m) => m.counter < receiving[m.to].counter
                    /\ \A i \in DOMAIN store[m.to] :
                          IsFor(store[m.to][i], m) => store[m.to][i].key # m.key
  BY DEF KeyGone
<1>1. m \in net /\ m.to \in Peers
  BY ChainTypes DEF TInv
<1>2. DOMAIN store[m.to] = 1 .. Len(store[m.to])
  BY <1>1, StoreFacts DEF TInv
<1>3. \A i \in 1 .. Len(store[m.to]) : ~Same(store[m.to][i], m)
  BY <1>1 DEF Gone, Spent, OpenedBy
<1>4. QED
  BY <1>2, <1>3 DEF Gone, Same, IsFor

\* The messages of the chain in use are those with the last public key that was seen.
LEMMA ChainOfKey ==
    ASSUME TInv, NEW m \in net
    PROVE  /\ Fits(receiving[m.to], m) => m.dh = theirs[m.to] /\ m.dh \in known[m.to]
           /\ m.dh = theirs[m.to] /\ m.dh \in known[m.to] => Fits(receiving[m.to], m)
<1>1. /\ mine["alice"] \in Nat /\ mine["bob"] \in Nat /\ m.dh \in Nat /\ m.to \in Peers
  BY ChainTypes DEF TInv, Peers
<1>2. Len(m.key) = 2 * m.dh + Off(m.to)
  BY DEF TInv, CInv, Lengths
<1>3. Len(m.key) = Len(receiving[m.to].key) => m.key = receiving[m.to].key
  BY DEF TInv, CInv, InUse
<1>4. CASE m.to = "alice"
  <2>1. /\ theirs["alice"] = mine["alice"] /\ known["alice"] = 0 .. mine["alice"]
        /\ Len(receiving["alice"].key) = 2 * mine["alice"]
    BY DEF TInv, RInv, Turns, Seen, CInv, Lengths
  <2>2. Len(m.key) = 2 * m.dh
    BY <1>1, <1>2, <1>4 DEF Off
  <2>3. Len(m.key) = Len(receiving["alice"].key) <=> m.dh = mine["alice"]
    BY <1>1, <2>1, <2>2
  <2>4. QED
    BY <1>1, <1>3, <1>4, <2>1, <2>3 DEF Fits
<1>5. CASE m.to = "bob"
  <2>1. /\ mine["bob"] > 0 => theirs["bob"] = mine["bob"] - 1
        /\ known["bob"] = 0 .. mine["bob"] - 1
        /\ mine["bob"] = 0 => Len(receiving["bob"].key) = 0
        /\ mine["bob"] > 0 => Len(receiving["bob"].key) = 2 * mine["bob"] - 1
    BY DEF TInv, RInv, Turns, Seen, CInv, Lengths
  <2>2. Len(m.key) = 2 * m.dh + 1
    BY <1>1, <1>2, <1>5 DEF Off
  <2>3. Len(m.key) = Len(receiving["bob"].key) <=> mine["bob"] > 0 /\ m.dh = mine["bob"] - 1
    BY <1>1, <2>1, <2>2
  <2>4. m.dh \in known["bob"] => mine["bob"] > 0
    BY <1>1, <2>1
  <2>5. mine["bob"] > 0 /\ m.dh = mine["bob"] - 1 => m.dh \in known["bob"]
    BY <1>1, <2>1
  <2>6. QED
    BY <1>3, <1>5, <2>1, <2>3, <2>4, <2>5 DEF Fits
<1>6. QED
  BY <1>1, <1>4, <1>5 DEF Peers

\* A store that lost entries, or whose entries grew old.
LEMMA ThinnerSpent ==
    ASSUME NEW s, NEW t, Thinner(t, s), NEW seen, NEW j, NEW chain, NEW done,
           Spent(s, seen, j, chain, done)
    PROVE  Spent(t, seen, j, chain, done)
<1>1. Once(t)
  <2>1. ASSUME NEW i \in 1 .. Len(t), NEW k \in 1 .. Len(t), i < k
        PROVE  ~(t[i].dh = t[k].dh /\ t[i].counter = t[k].counter)
    <3>1. PICK h \in 1 .. Len(s), l \in 1 .. Len(s) : h < l /\ Same(t[i], s[h]) /\ Same(t[k], s[l])
      BY <2>1 DEF Thinner
    <3>2. ~(s[h].dh = s[l].dh /\ s[h].counter = s[l].counter)
      BY <3>1 DEF Spent, Once
    <3>3. QED
      BY <3>1, <3>2 DEF Same
  <2>2. QED
    BY <2>1 DEF Once
<1>2. ASSUME NEW i \in 1 .. Len(t)
      PROVE  /\ t[i].dh \in seen
             /\ t[i].key = chain.key /\ t[i].dh = j => t[i].counter < chain.counter
             /\ \A m \in done : ~Same(t[i], m)
  <2>1. PICK h \in 1 .. Len(s) : Same(t[i], s[h])
    BY DEF Thinner
  <2>2. QED
    BY <2>1 DEF Spent, Same
<1>3. QED
  BY <1>1, <1>2 DEF Spent

\* The entries new, and those of s that stay, have the key of no message done,
\* nor of one that this chain still opens.
Unopened(s, m, new, seen, j, chain, done) ==
    /\ \A h, l \in 1 .. Len(new) : h < l => new[h].counter # new[l].counter
    /\ \A h \in 1 .. Len(s) :
          /\ s[h].key = chain.key /\ s[h].dh = j => s[h].counter < chain.counter
          /\ Stays(s[h], m, new) => \A x \in done : ~Same(s[h], x)
    /\ \A k \in 1 .. Len(new) :
          /\ new[k].dh \in seen
          /\ new[k].key = chain.key /\ new[k].dh = j => new[k].counter < chain.counter
          /\ \A x \in done : ~Same(new[k], x)

\* A store into which entries were put that are of no message done, nor of one to come.
LEMMA PutSpent ==
    ASSUME NEW s, NEW t, NEW new, NEW m, NEW seen, NEW j, NEW chain, NEW done, NEW chain2, NEW done2,
           Spent(s, seen, j, chain, done), DOMAIN new = 1 .. Len(new),
           PutInto(t, s, m, new), Unopened(s, m, new, seen, j, chain2, done2)
    PROVE  Spent(t, seen, j, chain2, done2)
<1>1. Once(t)
  <2>1. ASSUME NEW i \in 1 .. Len(t), NEW k \in 1 .. Len(t), i < k
        PROVE  ~(t[i].dh = t[k].dh /\ t[i].counter = t[k].counter)
    <3>1. CASE \E h, l \in 1 .. Len(s) : h < l /\ t[i] = s[h] /\ t[k] = s[l]
      BY <3>1 DEF Spent, Once
    <3>2. CASE \E h \in 1 .. Len(s), l \in 1 .. Len(new) :
                  t[i] = s[h] /\ Stays(s[h], m, new) /\ t[k] = new[l]
      BY <3>2 DEF Stays, IsFor
    <3>3. CASE \E h, l \in 1 .. Len(new) : h < l /\ t[i] = new[h] /\ t[k] = new[l]
      <4>1. PICK h \in 1 .. Len(new), l \in 1 .. Len(new) :
               h < l /\ t[i] = new[h] /\ t[k] = new[l]
        BY <3>3, Zenon
      <4>2. new[h].counter # new[l].counter
        BY <4>1, Zenon DEF Unopened
      <4>3. QED
        BY ONLY <4>1, <4>2, Zenon
    <3>4. \/ \E h, l \in 1 .. Len(s) : h < l /\ t[i] = s[h] /\ t[k] = s[l]
          \/ \E h \in 1 .. Len(s), l \in 1 .. Len(new) :
                t[i] = s[h] /\ Stays(s[h], m, new) /\ t[k] = new[l]
          \/ \E h, l \in 1 .. Len(new) : h < l /\ t[i] = new[h] /\ t[k] = new[l]
      BY <2>1, Zenon DEF PutInto
    <3>5. QED
      BY <3>1, <3>2, <3>3, <3>4
  <2>2. QED
    BY <2>1 DEF Once
<1>2. ASSUME NEW i \in 1 .. Len(t)
      PROVE  /\ t[i].dh \in seen
             /\ t[i].key = chain2.key /\ t[i].dh = j => t[i].counter < chain2.counter
             /\ \A x \in done2 : ~Same(t[i], x)
  <2>1. CASE \E h \in 1 .. Len(s) : t[i] = s[h] /\ Stays(s[h], m, new)
    BY <2>1 DEF Spent, Unopened
  <2>2. CASE \E k \in 1 .. Len(new) : t[i] = new[k]
    BY <2>2 DEF Unopened
  <2>3. QED
    BY <2>1, <2>2 DEF PutInto
<1>3. QED
  BY <1>1, <1>2 DEF Spent

\* Nothing has been opened when nothing has been sent.
LEMMA InitGone == Init => Gone
<1> SUFFICES ASSUME Init PROVE Gone
  OBVIOUS
<1>1. opened = {} /\ \A p \in Peers : store[p] = <<>> /\ Len(store[p]) = 0
  BY DEF Init
<1>2. ASSUME NEW p \in Peers PROVE Spent(store[p], known[p], theirs[p], receiving[p], OpenedBy(p))
  BY <1>1 DEF Spent, Once
<1>3. QED
  BY <1>1, <1>2 DEF Gone

\* Entries that go or grow old, and messages that are written, bring no key back.
LEMMA QuietGone ==
    ASSUME TInv, Gone, UNCHANGED <<known, theirs, receiving, opened>>,
           \A p \in Peers : Thinner(store'[p], store[p])
    PROVE  Gone'
<1>1. ASSUME NEW p \in Peers
      PROVE  Spent(store'[p], known[p], theirs[p], receiving[p], OpenedBy(p))
  BY ThinnerSpent DEF Gone
<1>2. \A p \in Peers : OpenedBy(p)' = OpenedBy(p)
  BY DEF OpenedBy
<1>3. QED
  BY <1>1, <1>2 DEF Gone

\* A store that is kept or lost is no other.
LEMMA CarriedThinner ==
    ASSUME Stores, NEW p \in Peers, store' = Carried(p)
    PROVE  \A q \in Peers : Thinner(store'[q], store[q])
<1>1. \A q \in Peers : Len(store[q]) \in Nat
  BY StoreFacts
<1>2. \A q \in Peers : Thinner(store[q], store[q])
  BY <1>1 DEF Thinner, Same
<1>3. \A s : Thinner(<<>>, s)
  BY DEF Thinner
<1>4. QED
  BY <1>2, <1>3, CarriedEffect

\* A chain that begins is of a public key that no message opened yet has.
LEMMA AdvanceGone ==
    ASSUME TInv, Gone, NEW p \in Peers, NewPublicKey(p)
    PROVE  Gone'
<1> PICK m \in net : /\ m.to = p /\ m.dh \notin known[p] /\ Advance(p, m.dh)
                     /\ known' = [known EXCEPT ![p] = @ \cup {m.dh}]
                     /\ UNCHANGED <<net, opened, dropped>>
  BY DEF NewPublicKey
<1> DEFINE q == Other(p)
<1>1. /\ mine[q] = IF p = "alice" THEN mine[p] + 1 ELSE mine[p]
      /\ receiving'[q] = receiving[q] /\ receiving'[p] = NewChain(sending[q].key)
  BY AdvanceEffect DEF TInv
<1>2. /\ q \in Peers /\ Other(q) = p /\ q # p /\ mine[p] \in Nat /\ mine[q] \in Nat
      /\ \A r \in Peers : r = p \/ r = q
  <2>1. q \in Peers /\ Other(q) = p /\ mine[p] \in Nat /\ mine[q] \in Nat
    BY ChainTypes DEF TInv
  <2>2. q # p /\ \A r \in Peers : r = p \/ r = q
    BY DEF Other, Peers
  <2>3. QED
    BY <2>1, <2>2
<1>3. mine[q] \notin known[p]
  <2>1. known["alice"] = 0 .. mine["alice"] /\ known["bob"] = 0 .. mine["bob"] - 1
    BY DEF TInv, RInv, Turns, Seen
  <2>2. CASE p = "alice"
    BY <1>1, <1>2, <2>1, <2>2
  <2>3. CASE p = "bob"
    BY <1>1, <1>2, <2>1, <2>3
  <2>4. QED
    BY <2>2, <2>3 DEF Peers
<1>4. /\ known'[p] = known[p] \cup {m.dh} /\ known'[q] = known[q]
      /\ theirs'[p] = m.dh /\ theirs'[q] = theirs[q]
  BY <1>2 DEF TInv, RInv, Types, Advance
<1>5. \A r \in Peers : Thinner(store'[r], store[r])
  BY CarriedThinner DEF TInv, Advance
<1>6. \A r \in Peers : OpenedBy(r)' = OpenedBy(r)
  BY DEF OpenedBy
<1>7. Spent(store'[q], known'[q], theirs'[q], receiving'[q], OpenedBy(q))
  <2>1. Spent(store[q], known[q], theirs[q], receiving[q], OpenedBy(q))
    BY <1>2 DEF Gone
  <2>2. Spent(store'[q], known[q], theirs[q], receiving[q], OpenedBy(q))
    BY <1>2, <1>5, <2>1, ThinnerSpent
  <2>3. QED
    BY <1>1, <1>4, <2>2
<1>8. Spent(store'[p], known'[p], theirs'[p], receiving'[p], OpenedBy(p))
  <2>1. Spent(store[p], known[p], theirs[p], receiving[p], OpenedBy(p))
    BY DEF Gone
  <2>2. Spent(store[p], known[p] \cup {m.dh}, m.dh, receiving'[p], OpenedBy(p))
    BY <2>1 DEF Spent
  <2>3. Spent(store'[p], known[p] \cup {m.dh}, m.dh, receiving'[p], OpenedBy(p))
    BY <1>5, <2>2, ThinnerSpent
  <2>4. QED
    BY <1>4, <2>3
<1>9. ASSUME NEW k \in opened
      PROVE  k.dh \in known'[k.to] /\ (Fits(receiving'[k.to], k) => k.counter < receiving'[k.to].counter)
  <2>1. k \in net /\ k.to \in Peers /\ k.dh \in Nat
    BY ChainTypes DEF TInv
  <2>2. k.dh \in known[k.to] /\ (Fits(receiving[k.to], k) => k.counter < receiving[k.to].counter)
    BY DEF Gone
  <2>3. CASE k.to = q
    BY <1>1, <1>4, <2>2, <2>3
  <2>4. CASE k.to = p
    <3>1. Len(k.key) = 2 * k.dh + Off(p) /\ Len(sending[q].key) = 2 * mine[q] + Off(p)
      <4>1. Len(sending[q].key) = 2 * mine[q] + Off(Other(q))
        BY <1>2, SendingLength DEF TInv, CInv
      <4>2. QED
        BY <1>2, <2>1, <2>4, <4>1 DEF TInv, CInv, Lengths
    <3>2. Off(p) \in {0, 1}
      BY DEF Off
    <3>3. k.key = sending[q].key => k.dh = mine[q]
      BY <1>2, <2>1, <3>1, <3>2
    <3>4. ~Fits(receiving'[p], k)
      BY <1>1, <1>3, <2>2, <2>4, <3>3 DEF Fits, NewChain
    <3>5. QED
      BY <1>4, <2>2, <2>4, <3>4
  <2>5. QED
    BY <1>2, <2>1, <2>3, <2>4
<1>10. \A r \in Peers : Spent(store'[r], known'[r], theirs'[r], receiving'[r], OpenedBy(r)')
  BY <1>2, <1>6, <1>7, <1>8
<1>11. opened' = opened
  OBVIOUS
<1>12. QED
  BY <1>9, <1>10, <1>11 DEF Gone

\* A chain that takes its next key has passed its message.
LEMMA InOrderGone ==
    ASSUME TInv, Gone, NEW m \in net, DecryptInOrder(m)
    PROVE  Gone'
<1> DEFINE p == m.to
           c == receiving[p]
<1>1. /\ UNCHANGED <<net, known, theirs, store>> /\ opened' = opened \cup {m}
      /\ Fits(c, m) /\ c.counter = m.counter
      /\ receiving' = [receiving EXCEPT ![p].counter = c.counter + 1]
  BY DEF DecryptInOrder, dhState
<1>2. p \in Peers /\ m.counter \in Nat /\ receiving \in [Peers -> Chains]
  BY ChainTypes DEF TInv, RInv, Types
<1>3. /\ receiving'[p].key = c.key /\ receiving'[p].counter = m.counter + 1
      /\ \A q \in Peers : q # p => receiving'[q] = receiving[q]
  BY <1>1, <1>2 DEF Chains
<1>4. m.dh = theirs[p] /\ m.dh \in known[p]
  BY <1>1, ChainOfKey
<1>5. ASSUME NEW k \in opened'
      PROVE  k.dh \in known[k.to] /\ (Fits(receiving'[k.to], k) => k.counter < receiving'[k.to].counter)
  <2>1. k.to \in Peers /\ k.counter \in Nat
    BY <1>1, <1>2, ChainTypes DEF TInv, RInv, Types
  <2>2. CASE k = m
    BY <1>2, <1>3, <1>4, <2>2
  <2>3. CASE k \in opened /\ k.to = p
    <3>1. k.dh \in known[p] /\ (Fits(c, k) => k.counter < m.counter)
      BY <1>1, <2>3 DEF Gone
    <3>2. Fits(receiving'[p], k) => Fits(c, k)
      BY <1>3 DEF Fits
    <3>3. QED
      BY <1>2, <1>3, <2>1, <2>3, <3>1, <3>2
  <2>4. CASE k \in opened /\ k.to # p
    BY <1>3, <2>1, <2>4 DEF Gone
  <2>5. QED
    BY <1>1, <2>2, <2>3, <2>4
<1>6. Spent(store[p], known[p], theirs[p], receiving'[p], OpenedBy(p) \cup {m})
  <2>1. Spent(store[p], known[p], theirs[p], c, OpenedBy(p))
    BY <1>2 DEF Gone
  <2>2. ASSUME NEW i \in 1 .. Len(store[p])
        PROVE  /\ store[p][i].dh \in known[p]
               /\ store[p][i].key = receiving'[p].key /\ store[p][i].dh = theirs[p]
                     => store[p][i].counter < receiving'[p].counter
               /\ \A x \in OpenedBy(p) \cup {m} : ~Same(store[p][i], x)
    <3>1. store[p][i].counter \in Nat
      BY <1>2, StoreFacts DEF TInv, Entries
    <3>2. store[p][i].key = c.key /\ store[p][i].dh = theirs[p] => store[p][i].counter < m.counter
      BY <1>1, <2>1 DEF Spent
    <3>3. ~Same(store[p][i], m)
      BY <1>1, <1>2, <1>4, <3>1, <3>2 DEF Same, Fits
    <3>4. QED
      BY <1>2, <1>3, <2>1, <3>1, <3>2, <3>3 DEF Spent
  <2>3. QED
    BY <2>1, <2>2 DEF Spent
<1>7. ASSUME NEW q \in Peers
      PROVE  Spent(store[q], known[q], theirs[q], receiving'[q], OpenedBy(q)')
  <2>1. CASE q = p
    <3>1. OpenedBy(q)' = OpenedBy(p) \cup {m}
      BY <1>1, <2>1 DEF OpenedBy
    <3>2. QED
      BY <1>6, <2>1, <3>1
  <2>2. CASE q # p
    <3>1. OpenedBy(q)' = OpenedBy(q)
      BY <1>1, <2>2 DEF OpenedBy
    <3>2. QED
      BY <1>3, <2>2, <3>1 DEF Gone
  <2>3. QED
    BY <2>1, <2>2
<1>8. QED
  BY <1>1, <1>5, <1>7 DEF Gone

\* The key that opens a message leaves the store, which has no other for it.
LEMMA OpenGone ==
    ASSUME TInv, Gone, NEW m \in net, m.dh \in known[m.to], OpenStored(m)
    PROVE  Gone'
<1> DEFINE p == m.to
           s == store[p]
<1>1. p \in Peers
  BY ChainTypes DEF TInv
<1>2. /\ Thinner(store'[p], s) /\ \A q \in Peers : q # p => store'[q] = store[q]
  BY <1>1, OpenStoredEffect DEF TInv
<1>3. PICK i \in 1 .. Len(s) :
         /\ IsFor(s[i], m)
         /\ opened' = IF s[i].key = m.key THEN opened \cup {m} ELSE opened
         /\ \A k \in 1 .. Len(store'[p]) : \E j \in 1 .. Len(s) :
               j # i /\ Same(store'[p][k], s[j])
  BY <1>1, OpenStoredEffect DEF TInv
<1>4. UNCHANGED <<net, known, theirs, receiving>>
  BY DEF OpenStored, dhState
<1>5. Spent(s, known[p], theirs[p], receiving[p], OpenedBy(p))
  BY <1>1 DEF Gone
<1>6. Spent(store'[p], known[p], theirs[p], receiving[p], OpenedBy(p))
  BY <1>2, <1>5, ThinnerSpent
<1>7. ASSUME NEW k \in 1 .. Len(store'[p]) PROVE ~Same(store'[p][k], m)
  <2>1. PICK j \in 1 .. Len(s) : j # i /\ Same(store'[p][k], s[j])
    BY <1>3
  <2>2. ~(s[j].dh = s[i].dh /\ s[j].counter = s[i].counter)
    <3>1. Len(s) \in Nat
      BY <1>1, StoreFacts DEF TInv
    <3>2. i < j \/ j < i
      BY <2>1, <3>1
    <3>3. QED
      BY <1>5, <2>1, <3>2 DEF Spent, Once
  <2>3. QED
    BY <1>3, <2>1, <2>2 DEF Same, IsFor
<1>8. s[i].key = m.key /\ Fits(receiving[p], m) => m.counter < receiving[p].counter
  <2>1. Fits(receiving[p], m) => m.dh = theirs[p]
    BY ChainOfKey
  <2>2. QED
    BY <1>3, <1>5, <2>1 DEF Spent, IsFor, Fits
<1>9. ASSUME NEW k \in opened'
      PROVE  k.dh \in known[k.to] /\ (Fits(receiving[k.to], k) => k.counter < receiving[k.to].counter)
  <2>1. CASE k \in opened
    BY <2>1 DEF Gone
  <2>2. CASE k = m /\ s[i].key = m.key
    BY <1>8, <2>2
  <2>3. QED
    BY <1>3, <2>1, <2>2
<1>10. ASSUME NEW q \in Peers
       PROVE  Spent(store'[q], known[q], theirs[q], receiving[q], OpenedBy(q)')
  <2>1. CASE q = p
    <3>1. OpenedBy(q)' \subseteq OpenedBy(p) \cup {m}
      BY <1>3, <2>1 DEF OpenedBy
    <3>2. QED
      BY <1>6, <1>7, <2>1, <3>1 DEF Spent
  <2>2. CASE q # p
    <3>1. OpenedBy(q)' = OpenedBy(q)
      BY <1>3, <2>2 DEF OpenedBy
    <3>2. QED
      BY <1>2, <2>2, <3>1 DEF Gone
  <2>3. QED
    BY <2>1, <2>2
<1>11. QED
  BY <1>4, <1>9, <1>10 DEF Gone

\* A get and a put: the entries that are put have keys that opened no message.
LEMMA PutGone ==
    ASSUME TInv, Gone, NEW m \in net, NEW new \in Seq(Entries), GetThenPut(m, new),
           UNCHANGED <<net, known, theirs>>,
           m.dh \in known[m.to],
           \A k \in 1 .. Len(new) :
              /\ ~new[k].late /\ new[k].dh = m.dh /\ new[k].key = receiving[m.to].key
              /\ new[k].counter = receiving[m.to].counter + k - 1
              /\ new[k].counter < m.counter,
           \/ UNCHANGED <<receiving, opened>> /\ (Fits(receiving[m.to], m) => new = <<>>)
           \/ /\ Fits(receiving[m.to], m) /\ opened' = opened \cup {m} /\ Ahead(m)
              /\ receiving' = [receiving EXCEPT ![m.to].counter = m.counter + 1]
    PROVE  Gone'
<1> DEFINE p == m.to
           c == receiving[p]
           s == store[p]
<1>1. /\ p \in Peers /\ m.counter \in Nat /\ receiving \in [Peers -> Chains] /\ c.counter \in Nat
      /\ Stores
  BY ChainTypes DEF TInv, RInv, Types
<1>2. /\ Len(new) \in Nat /\ DOMAIN new = 1 .. Len(new)
      /\ \A k \in 1 .. Len(new) : new[k].counter \in Nat
  <2>1. Len(new) \in Nat /\ DOMAIN new = 1 .. Len(new)
    OBVIOUS
  <2>2. \A k \in 1 .. Len(new) : new[k].counter = c.counter + k - 1
    OBVIOUS
  <2>3. QED
    BY <1>1, <2>1, <2>2
<1>3. PutInto(store'[p], s, m, new) /\ \A q \in Peers : q # p => store'[q] = store[q]
  <2>1. Stores /\ m.to \in Peers /\ new \in Seq(Entries) /\ GetThenPut(m, new)
        /\ \A h \in 1 .. Len(new) : ~new[h].late
    BY <1>1
  <2>2. QED
    BY ONLY <2>1, PutEffect
<1>4. Spent(s, known[p], theirs[p], c, OpenedBy(p))
  BY <1>1 DEF Gone
<1>5. \/ receiving' = receiving /\ opened' = opened /\ (Fits(c, m) => Len(new) = 0)
      \/ Fits(c, m) /\ opened' = opened \cup {m} /\ c.counter <= m.counter
           /\ receiving'[p].key = c.key /\ receiving'[p].counter = m.counter + 1
           /\ \A q \in Peers : q # p => receiving'[q] = receiving[q]
  BY <1>1 DEF Chains, Ahead
<1>6. \A k \in OpenedBy(p) : /\ k.counter \in Nat /\ k.dh \in known[p]
                             /\ Fits(c, k) => k.counter < c.counter
  BY ChainTypes DEF OpenedBy, Gone, TInv, RInv, Types
<1>7. receiving'[p].key = c.key /\ receiving'[p].counter \in Nat /\ receiving'[p].counter >= c.counter
  BY <1>1, <1>5
<1>8. OpenedBy(p)' \subseteq OpenedBy(p) \cup {m} /\ (opened' = opened => OpenedBy(p)' = OpenedBy(p))
  BY <1>5 DEF OpenedBy
<1>9. \A h, l \in 1 .. Len(new) : h < l => new[h].counter # new[l].counter
  <2>1. \A k \in 1 .. Len(new) : new[k].counter = c.counter + k - 1
    OBVIOUS
  <2>2. QED
    BY <1>1, <1>2, <2>1
<1>10. ASSUME NEW h \in 1 .. Len(s)
       PROVE  /\ s[h].key = receiving'[p].key /\ s[h].dh = theirs[p]
                    => s[h].counter < receiving'[p].counter
              /\ Stays(s[h], m, new) => \A x \in OpenedBy(p)' : ~Same(s[h], x)
  <2>1. s[h].counter \in Nat
    BY <1>1, StoreFacts DEF Entries
  <2>2. s[h].key = c.key /\ s[h].dh = theirs[p] => s[h].counter < c.counter
    BY <1>4 DEF Spent
  <2>3. \A x \in OpenedBy(p) : ~Same(s[h], x)
    BY <1>4 DEF Spent
  <2>4. Stays(s[h], m, new) => ~Same(s[h], m)
    BY DEF Stays, Same, IsFor
  <2>5. s[h].key = receiving'[p].key /\ s[h].dh = theirs[p] => s[h].counter < receiving'[p].counter
    BY <1>1, <1>7, <2>1, <2>2
  <2>6. QED
    BY <1>8, <2>3, <2>4, <2>5
<1>11. ASSUME NEW k \in 1 .. Len(new)
       PROVE  /\ new[k].dh \in known[p]
              /\ new[k].key = receiving'[p].key /\ new[k].dh = theirs[p]
                    => new[k].counter < receiving'[p].counter
              /\ \A x \in OpenedBy(p)' : ~Same(new[k], x)
  <2>1. /\ new[k].dh = m.dh /\ new[k].key = c.key /\ new[k].counter = c.counter + k - 1
        /\ new[k].counter < m.counter /\ new[k].counter \in Nat /\ k \in Nat /\ k >= 1
    BY <1>2
  <2>2. new[k].counter >= c.counter
    BY <1>1, <2>1
  <2>3. m.dh = theirs[p] => Fits(c, m)
    BY ChainOfKey
  <2>4. ~(Len(new) = 0)
    BY <1>2
  <2>5. new[k].dh = theirs[p] => new[k].counter < receiving'[p].counter
    BY <1>1, <1>5, <2>1, <2>3, <2>4
  <2>6. \A x \in OpenedBy(p) : ~Same(new[k], x)
    BY <1>1, <1>6, <2>1, <2>2 DEF Same, Fits
  <2>7. ~Same(new[k], m)
    BY <1>1, <2>1 DEF Same
  <2>8. QED
    BY <1>8, <2>1, <2>5, <2>6, <2>7
<1>12. Spent(store'[p], known[p], theirs[p], receiving'[p], OpenedBy(p)')
  <2>1. Unopened(s, m, new, known[p], theirs[p], receiving'[p], OpenedBy(p)')
    BY <1>9, <1>10, <1>11 DEF Unopened
  <2>2. QED
    BY ONLY <1>2, <1>3, <1>4, <2>1, PutSpent
<1>13. ASSUME NEW q \in Peers
       PROVE  Spent(store'[q], known[q], theirs[q], receiving'[q], OpenedBy(q)')
  <2>1. CASE q = p
    BY <1>12, <2>1
  <2>2. CASE q # p
    <3>1. OpenedBy(q)' = OpenedBy(q)
      BY <1>5, <2>2 DEF OpenedBy
    <3>2. receiving'[q] = receiving[q] /\ store'[q] = store[q]
      BY <1>3, <1>5, <2>2
    <3>3. QED
      BY <3>1, <3>2 DEF Gone
  <2>3. QED
    BY <2>1, <2>2
<1>14. ASSUME NEW k \in opened'
       PROVE  k.dh \in known[k.to] /\ (Fits(receiving'[k.to], k) => k.counter < receiving'[k.to].counter)
  <2>1. CASE k \in opened /\ k.to # p
    <3>1. k.to \in Peers
      BY <2>1, ChainTypes DEF TInv, RInv, Types
    <3>2. receiving'[k.to] = receiving[k.to]
      BY <1>5, <2>1, <3>1
    <3>3. QED
      BY <2>1, <3>2 DEF Gone
  <2>2. CASE k \in opened /\ k.to = p
    <3>1. k.dh \in known[p] /\ k.counter \in Nat /\ (Fits(c, k) => k.counter < c.counter)
      BY <1>6, <2>2 DEF OpenedBy
    <3>2. Fits(receiving'[p], k) => Fits(c, k)
      BY <1>7 DEF Fits
    <3>3. QED
      BY <1>1, <1>7, <2>2, <3>1, <3>2
  <2>3. CASE k = m /\ receiving'[p].counter = m.counter + 1
    BY <1>1, <2>3
  <2>4. QED
    BY <1>5, <2>1, <2>2, <2>3
<1>15. QED
  BY <1>13, <1>14 DEF Gone

\* The chain is wound forward.
LEMMA WindGone ==
    ASSUME TInv, Gone, NEW m \in net, m.dh \in known[m.to], WindForward(m)
    PROVE  Gone'
<1> DEFINE p == m.to
           c == receiving[p]
           new == Skipped(c, m)
<1>1. /\ GetThenPut(m, new) /\ Ahead(m) /\ UNCHANGED <<net, known, theirs>>
      /\ \/ /\ Fits(c, m) /\ opened' = opened \cup {m}
            /\ receiving' = [receiving EXCEPT ![p].counter = m.counter + 1]
         \/ ~Fits(c, m) /\ UNCHANGED <<receiving, opened>>
  BY DEF WindForward, dhState
<1>2. m.counter \in Nat /\ c.counter \in Nat
  BY ChainTypes DEF TInv
<1>3. /\ new \in Seq(Entries) /\ Len(new) = m.counter - c.counter /\ c.counter <= m.counter
      /\ \A k \in 1 .. Len(new) :
            /\ new[k].dh = m.dh /\ new[k].counter = c.counter + k - 1
            /\ new[k].key = c.key /\ ~new[k].late
  BY <1>1, SkippedFacts DEF TInv
<1> HIDE DEF new
<1>4. \A k \in 1 .. Len(new) :
              /\ ~new[k].late /\ new[k].dh = m.dh /\ new[k].key = receiving[m.to].key
              /\ new[k].counter = receiving[m.to].counter + k - 1
              /\ new[k].counter < m.counter
  BY <1>2, <1>3
<1>5. \/ UNCHANGED <<receiving, opened>> /\ (Fits(receiving[m.to], m) => new = <<>>)
      \/ /\ Fits(receiving[m.to], m) /\ opened' = opened \cup {m} /\ Ahead(m)
         /\ receiving' = [receiving EXCEPT ![m.to].counter = m.counter + 1]
  BY <1>1
<1>6. QED
  BY <1>1, <1>3, <1>4, <1>5, PutGone

\* A message that is refused.
LEMMA RefusedGone ==
    ASSUME TInv, Gone, NEW m \in net, m.dh \in known[m.to], Refused(m)
    PROVE  Gone'
<1> DEFINE new == <<>>
<1>1. /\ GetThenPut(m, new) /\ UNCHANGED <<net, known, theirs>>
      /\ UNCHANGED <<receiving, opened>> /\ (Fits(receiving[m.to], m) => new = <<>>)
  BY DEF Refused, dhState
<1>2. /\ new \in Seq(Entries) /\ Len(new) = 0
  OBVIOUS
<1>3. \A k \in 1 .. Len(new) :
              /\ ~new[k].late /\ new[k].dh = m.dh /\ new[k].key = receiving[m.to].key
              /\ new[k].counter = receiving[m.to].counter + k - 1
              /\ new[k].counter < m.counter
  BY <1>2
<1> HIDE DEF new
<1>4. QED
  BY <1>1, <1>2, <1>3, PutGone

\* Every step.
LEMMA NextGone == TInv /\ Gone /\ [Next]_vars => Gone'
<1> SUFFICES ASSUME TInv, Gone, [Next]_vars PROVE Gone'
  OBVIOUS
<1>1. Stores /\ \A q \in Peers : Len(store[q]) \in Nat
  BY StoreFacts DEF TInv
<1>2. \A q \in Peers : Thinner(store[q], store[q])
  BY <1>1 DEF Thinner, Same
<1>3. CASE UNCHANGED vars
  <2>1. UNCHANGED <<known, theirs, receiving, opened>> /\ store' = store
    BY <1>3 DEF vars, dhState
  <2>2. \A q \in Peers : Thinner(store'[q], store[q])
    BY <1>2, <2>1
  <2>3. QED
    BY <2>1, <2>2, QuietGone
<1>4. ASSUME NEW p \in Peers, Encrypt(p) PROVE Gone'
  <2>1. UNCHANGED <<known, theirs, receiving, opened>> /\ store' = Carried(p)
    BY <1>4 DEF Encrypt, dhState
  <2>2. \A q \in Peers : Thinner(store'[q], store[q])
    BY <1>1, <2>1, CarriedThinner
  <2>3. QED
    BY <2>1, <2>2, QuietGone
<1>5. ASSUME NEW p \in Peers, GrowOld(p) \/ Expire(p) PROVE Gone'
  <2>1. UNCHANGED <<known, theirs, receiving, opened>>
    BY <1>5 DEF GrowOld, Expire, dhState
  <2>2. Thinner(store'[p], store[p]) /\ \A q \in Peers : q # p => store'[q] = store[q]
    BY <1>1, <1>5, GrowOldEffect, ExpireEffect
  <2>3. \A q \in Peers : Thinner(store'[q], store[q])
    BY <1>2, <2>2
  <2>4. QED
    BY <2>1, <2>3, QuietGone
<1>6. ASSUME NEW m \in net, DecryptInOrder(m) \/ DecryptOutOfOrder(m) PROVE Gone'
  BY <1>6, InOrderGone, OpenGone, WindGone, RefusedGone DEF DecryptOutOfOrder
<1>7. QED
  BY <1>3, <1>4, <1>5, <1>6, AdvanceGone DEF Next

\* The key of a message that has been opened is gone, for any number of messages
\* in any order, any limits, and whether or not the caller keeps the store: a
\* copy that comes later is not taken for a message, neither from the store nor
\* from the chain (decrypt_with_session, decrypt_with_session_ooo).
THEOREM OpenedOnce == Spec => []KeyGone
<1>1. TInv /\ Gone /\ [Next]_vars => Gone'
  BY NextGone
<1>2. TInv /\ Gone => KeyGone
  BY GoneIs
<1>3. QED
  BY <1>1, <1>2, InitGone, InitTInv, NextTInv, Invariance, PTL DEF Spec

=============================================================================

---------------------------- MODULE ServicesProofs ----------------------------
(***************************************************************************)
(* Proofs about the parts of the server that MC_Services runs side by      *)
(* side, each for its own specification and for any values of its          *)
(* constants.                                                              *)
(***************************************************************************)
EXTENDS MC_Services, ListProofs, TLAPS

-----------------------------------------------------------------------------
(* Lists. *)

\* A list without one of its elements.
LEMMA RemovedAt ==
    ASSUME NEW T, NEW s \in Seq(T), NEW i \in DOMAIN s
    PROVE  RemoveAt(s, i) \in Seq(T) /\ Len(RemoveAt(s, i)) = Len(s) - 1
<1>. DEFINE l == Len(s)
            before == SubSeq(s, 1, i - 1)
            after == SubSeq(s, i + 1, l)
<1>1. i \in 1 .. l /\ l \in Nat /\ \A k \in 1 .. l : s[k] \in T
  OBVIOUS
<1>2. before \in Seq(T) /\ Len(before) = i - 1 /\ after \in Seq(T) /\ Len(after) = l - i
  BY <1>1, SubSeqProperties
<1>3. RemoveAt(s, i) = before \o after
  BY DEF RemoveAt
<1>. HIDE DEF l, before, after
<1>4. before \o after \in Seq(T) /\ Len(before \o after) = Len(before) + Len(after)
  BY ONLY <1>2, Joined
<1>5. Len(before \o after) = l - 1
  BY ONLY <1>1, <1>2, <1>4
<1>. QED  BY <1>3, <1>4, <1>5 DEF l

-----------------------------------------------------------------------------
(***************************************************************************)
(* SfuRooms: what is forwarded comes from a live connection, and what is   *)
(* removed is gone, for any connections, any of which may leave and come   *)
(* back, and any number of publishes and SfuRoom objects.                  *)
(***************************************************************************)

Renewing == {"publishing", "replacing", "swapping"}
InRemove == {"removing", "dropping", "unsubscribing"}

\* A handler that is at work works on an object.
Working ==
    \A c \in Clients :
       pc[c] \in Renewing \cup InRemove
                    \cup {"announcing", "subscribing", "resubscribing"}
          => room[c] \in 1 .. made

\* A publish is in at most one object, and the one a handler is just
\* negotiating is in none yet.
PublishOnce ==
    \A c \in Clients :
       /\ \A i \in Objects : producers[i][c] <= published[c]
       /\ \A i, j \in Objects :
             producers[i][c] # 0 /\ producers[i][c] = producers[j][c] => i = j
       /\ pc[c] \in Renewing =>
             \A i \in Objects : producers[i][c] # published[c]

\* The upstream that is to replace an old one is open.
NewIsLive ==
    \A c \in Clients :
       pc[c] \in {"replacing", "swapping"} => <<c, published[c]>> \in live

PInv == Working /\ PublishOnce /\ NewIsLive /\ UpstreamsUsable

\* Objects not made yet are empty.
Untouched ==
    \A i \in Objects : i > made =>
       /\ \A c \in Clients : producers[i][c] = 0
       /\ \A k \in Keys : forwards[i][k] = 0

\* remove_peer holds the mutex and works on the registered object; it has taken
\* the upstream out, and its second loop has all downstreams left on its list.
Removing ==
    \A c \in Clients : pc[c] \in InRemove =>
       /\ lock = c
       /\ registered # 0
       /\ room[c] = registered
       /\ producers[registered][c] = 0
       /\ pc[c] = "unsubscribing" => Outof(registered, c) \subseteq stale[c]

\* A connection that does not leave is joined until its cleanup.
Staying == \A c \in Clients \ Leavers : c \in joined <=> pc[c] # "done"

RInv == Working /\ Untouched /\ Removing /\ Staying /\ DeadPeerGone

IInv == TypeOK /\ PInv /\ RInv

\* The disjuncts of Next for one connection.
Step(c) ==
    \/ Leave(c)
    \/ Rejoin(c)
    \/ RecvPublish(c)
    \/ NegotiationFails(c)
    \/ \E p \in Clients : RecvSubscribe(c, p)
    \/ End(c)
    \/ Publishing(c)
    \/ Subscribing(c)
    \/ Ending(c)

-----------------------------------------------------------------------------
(* What an assignment to one entry of the two registries does, and what the  *)
(* actions that write there make of it.                                       *)

\* The value that stands for "none".
LEMMA Zero == 0 \in Publishes /\ (\A c \in Clients : <<c, 0>> \in Clients \X Publishes)
BY BoundsAssumption DEF Publishes

\* An object a handler works on is one of Objects.
LEMMA WorkObject ==
    ASSUME TypeOK, NEW i \in 1 .. made
    PROVE  i \in Objects
BY BoundsAssumption DEF TypeOK, Objects

\* The registered object is one of Objects.
LEMMA RegisteredObject ==
    ASSUME TypeOK, registered # 0
    PROVE  registered \in 1 .. made /\ registered \in Objects
BY BoundsAssumption DEF TypeOK, Objects

\* Setting one entry of the producers leaves the others.
LEMMA ProducerSet ==
    ASSUME TypeOK, NEW i \in Objects, NEW c \in Clients, NEW n \in Publishes,
           producers' = [producers EXCEPT ![i][c] = n]
    PROVE  /\ producers' \in [Objects -> [Clients -> Publishes]]
           /\ \A j \in Objects, d \in Clients :
                 producers'[j][d] = IF j = i /\ d = c THEN n ELSE producers[j][d]
BY DEF TypeOK

\* The same for the downstreams.
LEMMA ForwardSet ==
    ASSUME TypeOK, NEW i \in Objects, NEW k \in Keys, NEW n \in Publishes,
           forwards' = [forwards EXCEPT ![i][k] = n]
    PROVE  /\ forwards' \in [Objects -> [Keys -> Publishes]]
           /\ \A j \in Objects, q \in Keys :
                 forwards'[j][q] = IF j = i /\ q = k THEN n ELSE forwards[j][q]
BY DEF TypeOK

\* Which entry Negotiated writes, and where the handler goes.
LEMMA NegotiatedEffect ==
    ASSUME TypeOK, Working, NEW c \in Clients, Negotiated(c)
    PROVE  /\ room[c] \in Objects
           /\ producers' \in [Objects -> [Clients -> Publishes]]
           /\ \A j \in Objects, d \in Clients :
                 j # room[c] \/ d # c => producers'[j][d] = producers[j][d]
           /\ IF producers[room[c]][c] # 0
              THEN /\ producers'[room[c]][c] = 0
                   /\ live' = (live \cup {<<c, published[c]>>})
                                 \ {<<c, producers[room[c]][c]>>}
                   /\ pc' = [pc EXCEPT ![c] = "replacing"]
              ELSE /\ producers'[room[c]][c] = published[c]
                   /\ live' = live \cup {<<c, published[c]>>}
                   /\ pc' = [pc EXCEPT ![c] = "announcing"]
<1>1. room[c] \in Objects
  BY WorkObject DEF Negotiated, Working, Renewing
<1>2. published[c] \in Publishes /\ 0 \in Publishes
  BY Zero DEF TypeOK
<1>3. CASE producers[room[c]][c] # 0
  <2>1. producers' = [producers EXCEPT ![room[c]][c] = 0]
    BY <1>3 DEF Negotiated
  <2>2. /\ producers' \in [Objects -> [Clients -> Publishes]]
        /\ \A j \in Objects, d \in Clients :
              producers'[j][d] = IF j = room[c] /\ d = c THEN 0 ELSE producers[j][d]
    BY <1>1, <1>2, <2>1 DEF TypeOK
  <2>3. QED
    BY <1>1, <1>3, <2>2 DEF Negotiated
<1>4. CASE producers[room[c]][c] = 0
  <2>1. producers' = [producers EXCEPT ![room[c]][c] = published[c]]
    BY <1>4 DEF Negotiated
  <2>2. /\ producers' \in [Objects -> [Clients -> Publishes]]
        /\ \A j \in Objects, d \in Clients :
              producers'[j][d] = IF j = room[c] /\ d = c THEN published[c] ELSE producers[j][d]
    BY <1>1, <1>2, <2>1 DEF TypeOK
  <2>3. QED
    BY <1>1, <1>4, <2>2 DEF Negotiated
<1>5. QED
  BY <1>3, <1>4

\* The lists of keys are lists of keys.
LEMMA KeyLists ==
    ASSUME TypeOK, NEW c \in Clients
    PROVE  DropKeys(c) \in SUBSET Keys /\ OwnKeys(c) \in SUBSET Keys
BY DEF TypeOK, DropKeys, OwnKeys, Into, Outof

\* Popping a key resets one entry, whichever list it comes from.
LEMMA PopEffect ==
    ASSUME TypeOK, Working, NEW c \in Clients,
           pc[c] \in Renewing \cup InRemove,
           NEW keys \in SUBSET Keys, NEW k, NEW step, PopOne(c, keys, k, step)
    PROVE  /\ room[c] \in Objects
           /\ k \in Keys
           /\ forwards' \in [Objects -> [Keys -> Publishes]]
           /\ \A j \in Objects, q \in Keys :
                 forwards'[j][q] = IF j = room[c] /\ q = k THEN 0
                                   ELSE forwards[j][q]
           /\ stale' = [stale EXCEPT ![c] = keys \ {k}]
           /\ stale' \in [Clients -> SUBSET Keys]
           /\ pc' = [pc EXCEPT ![c] = step]
<1>1. room[c] \in Objects
  BY WorkObject DEF Working
<1>2. k \in Keys /\ 0 \in Publishes
  BY Zero DEF PopOne
<1>3. /\ forwards' = [forwards EXCEPT ![room[c]][k] = 0]
      /\ stale' = [stale EXCEPT ![c] = keys \ {k}]
      /\ pc' = [pc EXCEPT ![c] = step]
  BY DEF PopOne
<1>4. stale' \in [Clients -> SUBSET Keys]
  BY <1>3 DEF TypeOK
<1>5. /\ forwards' \in [Objects -> [Keys -> Publishes]]
      /\ \A j \in Objects, q \in Keys :
            forwards'[j][q] = IF j = room[c] /\ q = k THEN 0 ELSE forwards[j][q]
  <2>1. forwards \in [Objects -> [Keys -> Publishes]]
    BY DEF TypeOK
  <2>2. QED
    BY <1>1, <1>2, <1>3, <2>1
<1>6. QED
  BY <1>1, <1>2, <1>3, <1>4, <1>5

\* Filing a downstream sets one entry, of the subscriber's own.
LEMMA FileEffect ==
    ASSUME TypeOK, Working, NEW c \in Clients,
           pc[c] \in {"subscribing", "resubscribing"}, File(c)
    PROVE  /\ room[c] \in Objects
           /\ <<c, target[c][1]>> \in Keys
           /\ forwards' \in [Objects -> [Keys -> Publishes]]
           /\ \A j \in Objects, q \in Keys :
                 j # room[c] \/ q # <<c, target[c][1]>> =>
                    forwards'[j][q] = forwards[j][q]
           /\ target' = [target EXCEPT ![c] = <<c, 0>>]
           /\ target' \in [Clients -> Clients \X Publishes]
           /\ pc' = [pc EXCEPT ![c] = "idle"]
           /\ room' = [room EXCEPT ![c] = 0]
<1>1. room[c] \in Objects
  BY WorkObject DEF Working
<1>2. target[c][1] \in Clients /\ target[c][2] \in Publishes
  BY DEF TypeOK
<1>3. <<c, target[c][1]>> \in Keys
  BY <1>2 DEF Keys
<1>4. forwards' = [forwards EXCEPT ![room[c]][<<c, target[c][1]>>] = target[c][2]]
  BY DEF File
<1>5. target' \in [Clients -> Clients \X Publishes]
  BY Zero DEF File, TypeOK
<1>6. /\ forwards' \in [Objects -> [Keys -> Publishes]]
      /\ \A j \in Objects, q \in Keys :
            forwards'[j][q] = IF j = room[c] /\ q = <<c, target[c][1]>>
                              THEN target[c][2] ELSE forwards[j][q]
  <2>1. forwards \in [Objects -> [Keys -> Publishes]]
    BY DEF TypeOK
  <2>2. PICK k \in Keys : k = <<c, target[c][1]>>
    BY <1>3
  <2>3. forwards' = [forwards EXCEPT ![room[c]][k] = target[c][2]]
    BY <1>4, <2>2
  <2>4. /\ forwards' \in [Objects -> [Keys -> Publishes]]
        /\ \A j \in Objects, q \in Keys :
              forwards'[j][q] = IF j = room[c] /\ q = k THEN target[c][2]
                                                        ELSE forwards[j][q]
    BY <1>1, <1>2, <2>1, <2>3
  <2>5. QED
    BY <2>2, <2>4
<1>7. /\ target' = [target EXCEPT ![c] = <<c, 0>>]
      /\ pc' = [pc EXCEPT ![c] = "idle"]
      /\ room' = [room EXCEPT ![c] = 0]
  BY DEF File
<1>8. QED
  BY <1>1, <1>3, <1>5, <1>6, <1>7

-----------------------------------------------------------------------------
\* Type correctness is inductive.
LEMMA TypeStep ==
    ASSUME TypeOK, Working, [Next]_vars
    PROVE  TypeOK'
<1>1. CASE UNCHANGED vars
  BY <1>1 DEF vars, TypeOK, Steps, Objects, Publishes, Keys
<1>2. ASSUME NEW c \in Clients, Step(c)
      PROVE  TypeOK'
  <2>1. CASE Leave(c)
    BY <2>1 DEF Leave, TypeOK, Steps
  <2>2. CASE Rejoin(c)
    BY <2>2 DEF Rejoin, TypeOK, Steps
  <2>3. CASE RecvPublish(c)
    <3>1. /\ made' \in 0 .. MaxRooms
          /\ made <= made'
          /\ registered' \in 0 .. made'
      BY <2>3, BoundsAssumption DEF RecvPublish, TypeOK
    <3>2. published' \in [Clients -> Publishes]
      BY <2>3, BoundsAssumption DEF RecvPublish, TypeOK, Publishes
    <3>3. room' \in [Clients -> 0 .. made']
      <4>1. room \in [Clients -> 0 .. made']
        BY <3>1 DEF TypeOK
      <4>2. QED
        BY <2>3, <3>1, <4>1 DEF RecvPublish
    <3>4. pc' \in [Clients -> Steps]
      BY <2>3 DEF RecvPublish, TypeOK, Steps
    <3>5. QED
      BY <2>3, <3>1, <3>2, <3>3, <3>4 DEF RecvPublish, TypeOK
  <2>4. CASE NegotiationFails(c)
    BY <2>4, Zero DEF NegotiationFails, TypeOK, Steps
  <2>5. CASE \E p \in Clients : RecvSubscribe(c, p)
    <3>1. PICK p \in Clients : RecvSubscribe(c, p)
      BY <2>5
    <3>2. registered \in Objects
      BY <3>1, RegisteredObject DEF RecvSubscribe
    <3>3. <<p, producers[registered][p]>> \in Clients \X Publishes
      BY <3>2 DEF TypeOK
    <3>4. QED
      BY <3>1, <3>3 DEF RecvSubscribe, TypeOK, Steps
  <2>6. CASE End(c)
    BY <2>6 DEF End, TypeOK, Steps
  <2>7. CASE Negotiated(c)
    <3>0. \/ /\ pc' = [pc EXCEPT ![c] = "replacing"]
             /\ live' \subseteq live \cup {<<c, published[c]>>}
          \/ /\ pc' = [pc EXCEPT ![c] = "announcing"]
             /\ live' \subseteq live \cup {<<c, published[c]>>}
      BY <2>7, NegotiatedEffect
    <3>1. /\ pc' \in [Clients -> Steps]
          /\ live' \in SUBSET (Clients \X Publishes)
      <4>1. published[c] \in Publishes
        BY DEF TypeOK
      <4>2. live' \in SUBSET (Clients \X Publishes)
        BY <3>0, <4>1 DEF TypeOK
      <4>3. pc' \in [Clients -> Steps]
        BY <3>0 DEF TypeOK, Steps
      <4>4. QED
        BY <4>2, <4>3
    <3>2. QED
      BY <2>7, <3>1, NegotiatedEffect DEF Negotiated, TypeOK
  <2>8. CASE SwapOne(c)
    <3>1. PICK k \in DropKeys(c) : PopOne(c, DropKeys(c), k, "swapping")
      BY <2>8 DEF SwapOne
    <3>2. pc[c] \in Renewing \cup InRemove
      BY <2>8 DEF SwapOne, Renewing, InRemove
    <3>3. DropKeys(c) \in SUBSET Keys
      BY KeyLists
    <3>4. /\ forwards' \in [Objects -> [Keys -> Publishes]]
          /\ stale' \in [Clients -> SUBSET Keys]
          /\ pc' = [pc EXCEPT ![c] = "swapping"]
      BY <3>1, <3>2, <3>3, PopEffect
    <3>5. QED
      BY <2>8, <3>4 DEF SwapOne, TypeOK, Steps
  <2>9. CASE SwapFails(c)
    BY <2>9 DEF SwapFails, TypeOK, Steps
  <2>10. CASE Swapped(c)
    BY <2>10 DEF Swapped, DropKeys, Into, TypeOK, Steps
  <2>11. CASE AnnounceProducers(c)
    BY <2>11 DEF AnnounceProducers, TypeOK, Steps
  <2>12. CASE Subscribed(c)
    <3>1. CASE File(c)
      <4>1. /\ forwards' \in [Objects -> [Keys -> Publishes]]
            /\ target' \in [Clients -> Clients \X Publishes]
            /\ pc' = [pc EXCEPT ![c] = "idle"]
            /\ room' = [room EXCEPT ![c] = 0]
        BY <2>12, <3>1, FileEffect DEF Subscribed
      <4>2. QED
        BY <2>12, <4>1 DEF Subscribed, TypeOK, Steps
    <3>2. CASE /\ pc' = [pc EXCEPT ![c] = "resubscribing"]
               /\ UNCHANGED <<forwards, room, target>>
      BY <2>12, <3>2 DEF Subscribed, TypeOK, Steps
    <3>3. QED
      BY <2>12, <3>1, <3>2 DEF Subscribed
  <2>13. CASE Resubscribed(c)
    <3>1. File(c) /\ pc[c] \in {"subscribing", "resubscribing"}
      BY <2>13 DEF Resubscribed
    <3>2. /\ forwards' \in [Objects -> [Keys -> Publishes]]
          /\ target' \in [Clients -> Clients \X Publishes]
          /\ pc' = [pc EXCEPT ![c] = "idle"]
          /\ room' = [room EXCEPT ![c] = 0]
      BY <3>1, FileEffect
    <3>3. QED
      BY <2>13, <3>2 DEF Resubscribed, TypeOK, Steps
  <2>14. CASE FinallyNoRoom(c)
    BY <2>14 DEF FinallyNoRoom, TypeOK, Steps
  <2>15. CASE BeginRemove(c)
    <3>1. registered \in Objects
      BY <2>15, RegisteredObject DEF BeginRemove
    <3>2. producers' \in [Objects -> [Clients -> Publishes]]
      BY <2>15, <3>1, Zero, ProducerSet DEF BeginRemove
    <3>3. QED
      BY <2>15, <3>2 DEF BeginRemove, TypeOK, Steps
  <2>16. CASE DropOne(c)
    <3>1. PICK k \in DropKeys(c) : PopOne(c, DropKeys(c), k, "dropping")
      BY <2>16 DEF DropOne
    <3>2. pc[c] \in Renewing \cup InRemove
      BY <2>16 DEF DropOne, Renewing, InRemove
    <3>3. DropKeys(c) \in SUBSET Keys
      BY KeyLists
    <3>4. /\ forwards' \in [Objects -> [Keys -> Publishes]]
          /\ stale' \in [Clients -> SUBSET Keys]
          /\ pc' = [pc EXCEPT ![c] = "dropping"]
      BY <3>1, <3>2, <3>3, PopEffect
    <3>5. QED
      BY <2>16, <3>4 DEF DropOne, TypeOK, Steps
  <2>17. CASE UnsubscribeOne(c)
    <3>1. PICK k \in OwnKeys(c) : PopOne(c, OwnKeys(c), k, "unsubscribing")
      BY <2>17 DEF UnsubscribeOne
    <3>2. pc[c] \in Renewing \cup InRemove
      BY <2>17 DEF UnsubscribeOne, Renewing, InRemove
    <3>3. OwnKeys(c) \in SUBSET Keys
      BY KeyLists
    <3>4. /\ forwards' \in [Objects -> [Keys -> Publishes]]
          /\ stale' \in [Clients -> SUBSET Keys]
          /\ pc' = [pc EXCEPT ![c] = "unsubscribing"]
      BY <3>1, <3>2, <3>3, PopEffect
    <3>5. QED
      BY <2>17, <3>4 DEF UnsubscribeOne, TypeOK, Steps
  <2>18. CASE RemoveFails(c)
    BY <2>18 DEF RemoveFails, TypeOK, Steps
  <2>19. CASE Removed(c)
    BY <2>19 DEF Removed, DropKeys, Into, OwnKeys, Outof, TypeOK, Steps
  <2>20. QED
    BY <1>2, <2>1, <2>2, <2>3, <2>4, <2>5, <2>6, <2>7, <2>8, <2>9, <2>10,
       <2>11, <2>12, <2>13, <2>14, <2>15, <2>16, <2>17, <2>18, <2>19
         DEF Step, Publishing, Subscribing, Ending
<1>3. QED
  BY <1>1, <1>2 DEF Next, Step

\* A handler at work keeps its object.
LEMMA WorkingStep ==
    ASSUME TypeOK, Working, Removing, [Next]_vars
    PROVE  Working'
<1>1. CASE UNCHANGED vars
  BY <1>1 DEF vars, Working, Renewing, InRemove
<1>2. ASSUME NEW c \in Clients, Step(c)
      PROVE  Working'
  <2>1. CASE Leave(c)
    BY <2>1 DEF Leave, Working, Renewing, InRemove
  <2>2. CASE Rejoin(c)
    BY <2>2 DEF Rejoin, Working, Renewing, InRemove
  <2>3. CASE RecvPublish(c)
    BY <2>3 DEF RecvPublish, Working, Renewing, InRemove, TypeOK
  <2>4. CASE NegotiationFails(c)
    BY <2>4 DEF NegotiationFails, Working, Renewing, InRemove, TypeOK
  <2>5. CASE \E p \in Clients : RecvSubscribe(c, p)
    BY <2>5 DEF RecvSubscribe, Working, Renewing, InRemove, TypeOK
  <2>6. CASE End(c)
    BY <2>6 DEF End, Working, Renewing, InRemove
  <2>7. CASE Negotiated(c)
    BY <2>7 DEF Negotiated, Working, Renewing, InRemove, TypeOK
  <2>8. CASE SwapOne(c)
    BY <2>8 DEF SwapOne, PopOne, DropKeys, Working, Renewing, InRemove
  <2>9. CASE SwapFails(c)
    BY <2>9 DEF SwapFails, Working, Renewing, InRemove, TypeOK
  <2>10. CASE Swapped(c)
    BY <2>10 DEF Swapped, DropKeys, Working, Renewing, InRemove
  <2>11. CASE AnnounceProducers(c)
    BY <2>11 DEF AnnounceProducers, Working, Renewing,
       InRemove, TypeOK
  <2>12. CASE Subscribed(c)
    BY <2>12 DEF Subscribed, File, Working, Renewing, InRemove, TypeOK
  <2>13. CASE Resubscribed(c)
    BY <2>13 DEF Resubscribed, File, Working, Renewing, InRemove, TypeOK
  <2>14. CASE FinallyNoRoom(c)
    BY <2>14 DEF FinallyNoRoom, Working, Renewing, InRemove
  <2>15. CASE BeginRemove(c)
    BY <2>15 DEF BeginRemove, Working, Renewing, InRemove, TypeOK
  <2>16. CASE DropOne(c)
    BY <2>16 DEF DropOne, PopOne, DropKeys, Working, Renewing, InRemove
  <2>17. CASE UnsubscribeOne(c)
    BY <2>17 DEF UnsubscribeOne, PopOne, OwnKeys, DropKeys, Working,
       Renewing, InRemove
  <2>18. CASE RemoveFails(c)
    BY <2>18 DEF RemoveFails, Working, Renewing, InRemove, TypeOK
  <2>19. CASE Removed(c)
    BY <2>19 DEF Removed, DropKeys, Into, OwnKeys, Outof, Working,
       Renewing, InRemove, TypeOK
  <2>20. QED
    BY <1>2, <2>1, <2>2, <2>3, <2>4, <2>5, <2>6, <2>7, <2>8, <2>9, <2>10,
       <2>11, <2>12, <2>13, <2>14, <2>15, <2>16, <2>17, <2>18, <2>19
         DEF Step, Publishing, Subscribing, Ending
<1>3. QED
  BY <1>1, <1>2 DEF Next, Step

\* A publish stays in one object: only Negotiated and Swapped file one, and
\* they file the one that was in none.
LEMMA PublishOnceStep ==
    ASSUME TypeOK, Working, PublishOnce, [Next]_vars
    PROVE  PublishOnce'
<1>1. CASE UNCHANGED vars
  BY <1>1 DEF vars, PublishOnce, Renewing, Objects
<1>2. ASSUME NEW c \in Clients, Step(c)
      PROVE  PublishOnce'
  <2>1. CASE Leave(c)
    BY <2>1 DEF Leave, PublishOnce, Renewing
  <2>2. CASE Rejoin(c)
    BY <2>2 DEF Rejoin, PublishOnce, Renewing
  <2>3. CASE RecvPublish(c)
    <3>1. ASSUME NEW d \in Clients, NEW i \in Objects
          PROVE  /\ producers[i][d] \in Nat
                 /\ published[d] \in Nat
                 /\ producers[i][d] <= published[d]
      BY BoundsAssumption DEF TypeOK, Publishes, PublishOnce
    <3>2. published' = [published EXCEPT ![c] = @ + 1] /\ UNCHANGED producers
      BY <2>3 DEF RecvPublish
    <3>3. ASSUME NEW d \in Clients, NEW i \in Objects
          PROVE  /\ producers[i][d] <= published'[d]
                 /\ d = c => producers[i][d] # published'[d]
                 /\ d # c => published'[d] = published[d]
      BY <3>1, <3>2 DEF TypeOK
    <3>4. \A d \in Clients : d # c => pc'[d] = pc[d]
      BY <2>3 DEF RecvPublish, TypeOK
    <3>5. QED
      BY <3>2, <3>3, <3>4 DEF PublishOnce
  <2>4. CASE NegotiationFails(c)
    BY <2>4 DEF NegotiationFails, PublishOnce, Renewing
  <2>5. CASE \E p \in Clients : RecvSubscribe(c, p)
    BY <2>5 DEF RecvSubscribe, PublishOnce, Renewing
  <2>6. CASE End(c)
    BY <2>6 DEF End, PublishOnce, Renewing
  <2>7. CASE Negotiated(c)
    <3> DEFINE i == room[c]
    <3>1. \A d \in Clients, j \in Objects :
             j # i \/ d # c => producers'[j][d] = producers[j][d]
      BY <2>7, NegotiatedEffect
    <3>2. /\ i \in Objects
          /\ producers'[i][c] \in {0, published[c]}
          /\ producers'[i][c] # 0 => pc'[c] \notin Renewing
      BY <2>7, NegotiatedEffect DEF Renewing, TypeOK
    <3>3. UNCHANGED published /\ (\A d \in Clients : d # c => pc'[d] = pc[d])
      BY <2>7, NegotiatedEffect DEF Negotiated, TypeOK
    <3>4. /\ \A j \in Objects : producers[j][c] # published[c]
          /\ published[c] \in Nat
      BY <2>7, BoundsAssumption DEF Negotiated, PublishOnce, Renewing,
         TypeOK, Publishes
    <3>5. ASSUME NEW d \in Clients, d # c
          PROVE  /\ \A j \in Objects : producers'[j][d] <= published'[d]
                 /\ \A j, l \in Objects :
                       producers'[j][d] # 0 /\ producers'[j][d] = producers'[l][d] => j = l
                 /\ pc'[d] \in Renewing =>
                       \A j \in Objects : producers'[j][d] # published'[d]
      BY <3>1, <3>3, <3>5 DEF PublishOnce
    <3>6. \A j \in Objects : producers'[j][c] <= published'[c]
      BY <3>1, <3>2, <3>3, <3>4 DEF PublishOnce
    <3>7. \A j, l \in Objects :
             producers'[j][c] # 0 /\ producers'[j][c] = producers'[l][c] => j = l
      BY <3>1, <3>2, <3>4 DEF PublishOnce
    <3>8. pc'[c] \in Renewing => \A j \in Objects : producers'[j][c] # published'[c]
      <4>1. SUFFICES ASSUME pc'[c] \in Renewing, NEW j \in Objects
                     PROVE  producers'[j][c] # published'[c]
        OBVIOUS
      <4>2. published[c] # 0
        <5>1. producers[i][c] # 0 /\ producers[i][c] <= published[c]
          BY <2>7, <3>2, <4>1, NegotiatedEffect DEF PublishOnce,
             TypeOK, Renewing
        <5>2. producers[i][c] \in Nat
          BY <3>2, BoundsAssumption DEF TypeOK, Publishes
        <5>3. QED
          BY <5>1, <5>2, <3>4
      <4>3. QED
        BY <3>1, <3>2, <3>3, <3>4, <4>1, <4>2
    <3>9. QED
      BY <3>5, <3>6, <3>7, <3>8 DEF PublishOnce
  <2>8. CASE SwapOne(c)
    BY <2>8 DEF SwapOne, PopOne, DropKeys, PublishOnce, Renewing
  <2>9. CASE SwapFails(c)
    BY <2>9 DEF SwapFails, PublishOnce, Renewing
  <2>10. CASE Swapped(c)
    BY <2>10 DEF Swapped, DropKeys, Into, PublishOnce, Renewing, TypeOK,
       Working, Objects, Publishes
  <2>11. CASE AnnounceProducers(c)
    BY <2>11 DEF AnnounceProducers, PublishOnce, Renewing
  <2>12. CASE Subscribed(c)
    BY <2>12 DEF Subscribed, File, PublishOnce, Renewing, TypeOK
  <2>13. CASE Resubscribed(c)
    BY <2>13 DEF Resubscribed, File, PublishOnce, Renewing
  <2>14. CASE FinallyNoRoom(c)
    BY <2>14 DEF FinallyNoRoom, PublishOnce, Renewing
  <2>15. CASE BeginRemove(c)
    BY <2>15 DEF BeginRemove, PublishOnce, Renewing, TypeOK, Working,
       Objects, Publishes
  <2>16. CASE DropOne(c)
    BY <2>16 DEF DropOne, PopOne, DropKeys, PublishOnce, Renewing
  <2>17. CASE UnsubscribeOne(c)
    BY <2>17 DEF UnsubscribeOne, PopOne, OwnKeys, DropKeys, PublishOnce,
       Renewing
  <2>18. CASE RemoveFails(c)
    BY <2>18 DEF RemoveFails, PublishOnce, Renewing
  <2>19. CASE Removed(c)
    BY <2>19 DEF Removed, DropKeys, OwnKeys, PublishOnce, Renewing
  <2>20. QED
    BY <1>2, <2>1, <2>2, <2>3, <2>4, <2>5, <2>6, <2>7, <2>8, <2>9, <2>10,
       <2>11, <2>12, <2>13, <2>14, <2>15, <2>16, <2>17, <2>18, <2>19
         DEF Step, Publishing, Subscribing, Ending
<1>3. QED
  BY <1>1, <1>2 DEF Next, Step

\* Nobody closes an upstream that is about to be filed.
LEMMA NewIsLiveStep ==
    ASSUME TypeOK, PInv, [Next]_vars
    PROVE  NewIsLive'
<1>1. CASE UNCHANGED vars
  BY <1>1 DEF vars, PInv, NewIsLive
<1>2. ASSUME NEW c \in Clients, Step(c)
      PROVE  NewIsLive'
  <2>1. CASE Leave(c)
    BY <2>1 DEF Leave, PInv, NewIsLive
  <2>2. CASE Rejoin(c)
    BY <2>2 DEF Rejoin, PInv, NewIsLive
  <2>3. CASE RecvPublish(c)
    BY <2>3 DEF RecvPublish, PInv, NewIsLive
  <2>4. CASE NegotiationFails(c)
    BY <2>4 DEF NegotiationFails, PInv, NewIsLive
  <2>5. CASE \E p \in Clients : RecvSubscribe(c, p)
    BY <2>5 DEF RecvSubscribe, PInv, NewIsLive
  <2>6. CASE End(c)
    BY <2>6 DEF End, PInv, NewIsLive
  <2>7. CASE Negotiated(c)
    <3>1. \A j \in Objects : producers[j][c] # published[c]
      BY <2>7 DEF Negotiated, PInv, PublishOnce, Renewing
    <3>2. <<c, published[c]>> \in live'
      BY <2>7, <3>1, NegotiatedEffect DEF PInv
    <3>3. \A d \in Clients : d # c =>
             pc'[d] = pc[d] /\ (<<d, published[d]>> \in live => <<d, published[d]>> \in live')
      BY <2>7, NegotiatedEffect DEF PInv, TypeOK
    <3>4. QED
      BY <2>7, <3>2, <3>3 DEF Negotiated, PInv, NewIsLive
  <2>8. CASE SwapOne(c)
    BY <2>8 DEF SwapOne, PopOne, DropKeys, PInv, NewIsLive
  <2>9. CASE SwapFails(c)
    BY <2>9 DEF SwapFails, PInv, NewIsLive
  <2>10. CASE Swapped(c)
    BY <2>10 DEF Swapped, DropKeys, PInv, NewIsLive
  <2>11. CASE AnnounceProducers(c)
    BY <2>11 DEF AnnounceProducers, PInv, NewIsLive
  <2>12. CASE Subscribed(c)
    BY <2>12 DEF Subscribed, File, PInv, NewIsLive, TypeOK
  <2>13. CASE Resubscribed(c)
    BY <2>13 DEF Resubscribed, File, PInv, NewIsLive
  <2>14. CASE FinallyNoRoom(c)
    BY <2>14 DEF FinallyNoRoom, PInv, NewIsLive
  <2>15. CASE BeginRemove(c)
    BY <2>15 DEF BeginRemove, PInv, NewIsLive
  <2>16. CASE DropOne(c)
    BY <2>16 DEF DropOne, PopOne, DropKeys, PInv, NewIsLive
  <2>17. CASE UnsubscribeOne(c)
    BY <2>17 DEF UnsubscribeOne, PopOne, OwnKeys, DropKeys, PInv, NewIsLive
  <2>18. CASE RemoveFails(c)
    BY <2>18 DEF RemoveFails, PInv, NewIsLive
  <2>19. CASE Removed(c)
    BY <2>19 DEF Removed, DropKeys, OwnKeys, PInv, NewIsLive
  <2>20. QED
    BY <1>2, <2>1, <2>2, <2>3, <2>4, <2>5, <2>6, <2>7, <2>8, <2>9, <2>10,
       <2>11, <2>12, <2>13, <2>14, <2>15, <2>16, <2>17, <2>18, <2>19
         DEF Step, Publishing, Subscribing, Ending
<1>3. QED
  BY <1>1, <1>2 DEF Next, Step

\* An upstream is taken out in the step that closes it.
LEMMA UpstreamsStep ==
    ASSUME TypeOK, PInv, [Next]_vars
    PROVE  UpstreamsUsable'
<1>1. CASE UNCHANGED vars
  BY <1>1 DEF vars, PInv, UpstreamsUsable, Objects
<1>2. ASSUME NEW c \in Clients, Step(c)
      PROVE  UpstreamsUsable'
  <2>1. CASE Leave(c)
    BY <2>1 DEF Leave, PInv, UpstreamsUsable
  <2>2. CASE Rejoin(c)
    BY <2>2 DEF Rejoin, PInv, UpstreamsUsable
  <2>3. CASE RecvPublish(c)
    BY <2>3 DEF RecvPublish, PInv, UpstreamsUsable
  <2>4. CASE NegotiationFails(c)
    BY <2>4 DEF NegotiationFails, PInv, UpstreamsUsable
  <2>5. CASE \E p \in Clients : RecvSubscribe(c, p)
    BY <2>5 DEF RecvSubscribe, PInv, UpstreamsUsable
  <2>6. CASE End(c)
    BY <2>6 DEF End, PInv, UpstreamsUsable
  <2>7. CASE Negotiated(c)
    <3> DEFINE i == room[c]
    <3> SUFFICES ASSUME NEW j \in Objects, NEW d \in Clients, producers'[j][d] # 0
                 PROVE  <<d, producers'[j][d]>> \in live'
      BY DEF UpstreamsUsable
    <3>1. \A l \in Objects : producers[l][c] # published[c]
      BY <2>7 DEF Negotiated, PInv, PublishOnce, Renewing
    <3>2. CASE j = i /\ d = c
      BY <2>7, <3>2, NegotiatedEffect DEF PInv
    <3>3. CASE ~(j = i /\ d = c)
      <4>1. producers'[j][d] = producers[j][d] /\ <<d, producers[j][d]>> \in live
        BY <2>7, <3>3, NegotiatedEffect DEF PInv, UpstreamsUsable
      <4>2. d = c => producers[j][d] # producers[i][c]
        BY <2>7, <3>3, <4>1, NegotiatedEffect DEF PInv, PublishOnce
      <4>3. QED
        BY <2>7, <4>1, <4>2, NegotiatedEffect DEF PInv
    <3>4. QED
      BY <3>2, <3>3
  <2>8. CASE SwapOne(c)
    BY <2>8 DEF SwapOne, PopOne, DropKeys, Into, PInv, UpstreamsUsable
  <2>9. CASE SwapFails(c)
    BY <2>9 DEF SwapFails, PInv, UpstreamsUsable
  <2>10. CASE Swapped(c)
    BY <2>10 DEF Swapped, DropKeys, Into, PInv, UpstreamsUsable, NewIsLive
  <2>11. CASE AnnounceProducers(c)
    BY <2>11 DEF AnnounceProducers, PInv, UpstreamsUsable
  <2>12. CASE Subscribed(c)
    BY <2>12 DEF Subscribed, File, PInv, UpstreamsUsable
  <2>13. CASE Resubscribed(c)
    BY <2>13 DEF Resubscribed, File, PInv, UpstreamsUsable
  <2>14. CASE FinallyNoRoom(c)
    BY <2>14 DEF FinallyNoRoom, PInv, UpstreamsUsable
  <2>15. CASE BeginRemove(c)
    <3> SUFFICES ASSUME NEW j \in Objects, NEW d \in Clients, producers'[j][d] # 0
                 PROVE  <<d, producers'[j][d]>> \in live'
      BY DEF UpstreamsUsable
    <3>1. registered \in Objects
      BY <2>15, RegisteredObject DEF BeginRemove
    <3>2. producers'[j][d] = IF j = registered /\ d = c THEN 0 ELSE producers[j][d]
      BY <2>15, <3>1, Zero, ProducerSet DEF BeginRemove
    <3>3. producers'[j][d] = producers[j][d] /\ <<d, producers[j][d]>> \in live
      BY <3>2 DEF PInv, UpstreamsUsable
    <3>4. d = c => producers[j][d] # producers[registered][c]
      BY <3>1, <3>2, <3>3 DEF PInv, PublishOnce
    <3>5. QED
      BY <2>15, <3>3, <3>4 DEF BeginRemove
  <2>16. CASE DropOne(c)
    BY <2>16 DEF DropOne, PopOne, DropKeys, Into, PInv, UpstreamsUsable
  <2>17. CASE UnsubscribeOne(c)
    BY <2>17 DEF UnsubscribeOne, PopOne, OwnKeys, DropKeys, Into, Outof,
       PInv, UpstreamsUsable
  <2>18. CASE RemoveFails(c)
    BY <2>18 DEF RemoveFails, PInv, UpstreamsUsable
  <2>19. CASE Removed(c)
    BY <2>19 DEF Removed, DropKeys, Into, OwnKeys, Outof, PInv,
       UpstreamsUsable
  <2>20. QED
    BY <1>2, <2>1, <2>2, <2>3, <2>4, <2>5, <2>6, <2>7, <2>8, <2>9, <2>10,
       <2>11, <2>12, <2>13, <2>14, <2>15, <2>16, <2>17, <2>18, <2>19
         DEF Step, Publishing, Subscribing, Ending
<1>3. QED
  BY <1>1, <1>2 DEF Next, Step

\* Only made objects are written to.
LEMMA UntouchedStep ==
    ASSUME TypeOK, Working, Untouched, [Next]_vars
    PROVE  Untouched'
<1>1. CASE UNCHANGED vars
  BY <1>1 DEF vars, Untouched, Objects, Keys
<1>2. ASSUME NEW c \in Clients, Step(c)
      PROVE  Untouched'
  <2>1. CASE Leave(c)
    BY <2>1 DEF Leave, Untouched
  <2>2. CASE Rejoin(c)
    BY <2>2 DEF Rejoin, Untouched
  <2>3. CASE RecvPublish(c)
    BY <2>3 DEF RecvPublish, Untouched, TypeOK, Objects
  <2>4. CASE NegotiationFails(c)
    BY <2>4 DEF NegotiationFails, Untouched
  <2>5. CASE \E p \in Clients : RecvSubscribe(c, p)
    BY <2>5 DEF RecvSubscribe, Untouched
  <2>6. CASE End(c)
    BY <2>6 DEF End, Untouched
  <2>7. CASE Negotiated(c)
    <3>1. \A j \in Objects : j > made => j # room[c]
      BY <2>7 DEF Negotiated, Working, Renewing, TypeOK, Objects
    <3>2. \A j \in Objects, d \in Clients :
             j # room[c] => producers'[j][d] = producers[j][d]
      BY <2>7, NegotiatedEffect
    <3>3. made' = made /\ forwards' = forwards
      BY <2>7 DEF Negotiated
    <3>4. QED
      BY <3>1, <3>2, <3>3 DEF Untouched
  <2>8. CASE SwapOne(c)
    BY <2>8 DEF SwapOne, PopOne, DropKeys, Into, Untouched
  <2>9. CASE SwapFails(c)
    BY <2>9 DEF SwapFails, Untouched
  <2>10. CASE Swapped(c)
    BY <2>10 DEF Swapped, DropKeys, Into, Untouched, TypeOK
  <2>11. CASE AnnounceProducers(c)
    BY <2>11 DEF AnnounceProducers, Untouched
  <2>12. CASE Subscribed(c)
    <3>1. \A j \in Objects : j > made => j # room[c]
      BY <2>12 DEF Subscribed, Working, TypeOK, Objects
    <3>2. CASE File(c)
      <4>1. \A j \in Objects, q \in Keys :
               j # room[c] => forwards'[j][q] = forwards[j][q]
        BY <2>12, <3>2, FileEffect DEF Subscribed
      <4>2. made' = made /\ producers' = producers
        BY <2>12 DEF Subscribed
      <4>3. QED
        BY <3>1, <4>1, <4>2 DEF Untouched
    <3>3. CASE UNCHANGED forwards
      BY <2>12, <3>3 DEF Subscribed, Untouched
    <3>4. QED
      BY <2>12, <3>2, <3>3 DEF Subscribed
  <2>13. CASE Resubscribed(c)
    BY <2>13 DEF Resubscribed, File, Untouched, TypeOK
  <2>14. CASE FinallyNoRoom(c)
    BY <2>14 DEF FinallyNoRoom, Untouched
  <2>15. CASE BeginRemove(c)
    BY <2>15 DEF BeginRemove, Untouched
  <2>16. CASE DropOne(c)
    BY <2>16 DEF DropOne, PopOne, DropKeys, Into, Untouched
  <2>17. CASE UnsubscribeOne(c)
    BY <2>17 DEF UnsubscribeOne, PopOne, OwnKeys, DropKeys, Into, Outof,
       Untouched
  <2>18. CASE RemoveFails(c)
    BY <2>18 DEF RemoveFails, Untouched
  <2>19. CASE Removed(c)
    BY <2>19 DEF Removed, DropKeys, Into, OwnKeys, Outof, Untouched
  <2>20. QED
    BY <1>2, <2>1, <2>2, <2>3, <2>4, <2>5, <2>6, <2>7, <2>8, <2>9, <2>10,
       <2>11, <2>12, <2>13, <2>14, <2>15, <2>16, <2>17, <2>18, <2>19
         DEF Step, Publishing, Subscribing, Ending
<1>3. QED
  BY <1>1, <1>2 DEF Next, Step

\* While a connection is removed nobody else changes the registered object or
\* files something of the lost peer.
LEMMA RemovingStep ==
    ASSUME TypeOK, Working, Removing, [Next]_vars
    PROVE  Removing'
<1>1. CASE UNCHANGED vars
  BY <1>1 DEF vars, Removing, Outof, InRemove, Keys
<1>2. ASSUME NEW c \in Clients, Step(c)
      PROVE  Removing'
  <2>1. CASE Leave(c)
    BY <2>1 DEF Leave, Removing, InRemove, Outof
  <2>2. CASE Rejoin(c)
    BY <2>2 DEF Rejoin, Removing, InRemove, Outof
  <2>3. CASE RecvPublish(c)
    BY <2>3 DEF RecvPublish, Removing, InRemove, Outof
  <2>4. CASE NegotiationFails(c)
    BY <2>4 DEF NegotiationFails, Removing, InRemove, Outof
  <2>5. CASE \E p \in Clients : RecvSubscribe(c, p)
    BY <2>5 DEF RecvSubscribe, Removing, InRemove, Outof
  <2>6. CASE End(c)
    BY <2>6 DEF End, Removing, InRemove, Outof
  <2>7. CASE Negotiated(c)
    <3>1. /\ pc'[c] \notin InRemove
          /\ \A d \in Clients : d # c => pc'[d] = pc[d]
          /\ \A d \in Clients, j \in Objects : d # c => producers'[j][d] = producers[j][d]
      <4>1. pc \in [Clients -> Steps]
        BY DEF TypeOK
      <4>2. /\ \E step \in {"replacing", "announcing"} : pc' = [pc EXCEPT ![c] = step]
            /\ \A j \in Objects, d \in Clients : d # c => producers'[j][d] = producers[j][d]
        BY <2>7, NegotiatedEffect
      <4>3. QED
        BY ONLY <4>1, <4>2, c \in Clients DEF InRemove
    <3>2. registered # 0 => registered \in Objects
      BY RegisteredObject
    <3>3. QED
      BY <2>7, <3>1, <3>2 DEF Negotiated, Removing, Outof
  <2>8. CASE SwapOne(c)
    BY <2>8 DEF SwapOne, PopOne, DropKeys, Into, Removing, InRemove, Outof
  <2>9. CASE SwapFails(c)
    BY <2>9 DEF SwapFails, Removing, InRemove, Outof
  <2>10. CASE Swapped(c)
    BY <2>10 DEF Swapped, DropKeys, Into, Removing, InRemove, Outof
  <2>11. CASE AnnounceProducers(c)
    BY <2>11 DEF AnnounceProducers, Removing, InRemove, Outof
  <2>12. CASE Subscribed(c)
    <3>1. CASE File(c)
      <4>1. pc'[c] \notin InRemove /\ (\A d \in Clients : d # c => pc'[d] = pc[d] /\ room'[d] = room[d])
        BY <2>12, <3>1, FileEffect DEF Subscribed, TypeOK, InRemove
      <4>2. \A d \in Clients : d # c /\ registered # 0 => Outof(registered, d)' = Outof(registered, d)
        BY <2>12, <3>1, FileEffect, RegisteredObject DEF Subscribed, Outof
      <4>3. QED
        BY <2>12, <4>1, <4>2 DEF Subscribed, Removing
    <3>2. CASE /\ pc' = [pc EXCEPT ![c] = "resubscribing"]
               /\ UNCHANGED <<forwards, room, target>>
      BY <2>12, <3>2 DEF Subscribed, TypeOK, InRemove, Removing, Outof
    <3>3. QED
      BY <2>12, <3>1, <3>2 DEF Subscribed
  <2>13. CASE Resubscribed(c)
    BY <2>13 DEF Resubscribed, File, Removing, InRemove, Outof
  <2>14. CASE FinallyNoRoom(c)
    BY <2>14 DEF FinallyNoRoom, Removing, InRemove, Outof
  <2>15. CASE BeginRemove(c)
    <3>1. registered \in Objects
      BY <2>15, RegisteredObject DEF BeginRemove
    <3>2. producers'[registered][c] = 0
      BY <2>15, <3>1, Zero, ProducerSet DEF BeginRemove
    <3>3. \A d \in Clients : d # c => pc'[d] = pc[d] /\ pc[d] \notin InRemove
      BY <2>15, ClientsAssumption DEF BeginRemove, TypeOK, Removing
    <3>4. pc'[c] = "removing" /\ room'[c] = registered
      BY <2>15 DEF BeginRemove, TypeOK
    <3>5. QED
      BY <2>15, <3>2, <3>3, <3>4 DEF BeginRemove, Removing
  <2>16. CASE DropOne(c)
    BY <2>16 DEF DropOne, PopOne, DropKeys, Into, Removing, InRemove, Outof
  <2>17. CASE UnsubscribeOne(c)
    <3>1. PICK k \in OwnKeys(c) : PopOne(c, OwnKeys(c), k, "unsubscribing")
      BY <2>17 DEF UnsubscribeOne
    <3>2. /\ pc[c] \in InRemove
          /\ lock = c /\ registered # 0 /\ room[c] = registered
          /\ producers[registered][c] = 0
          /\ Outof(registered, c) \subseteq OwnKeys(c)
      BY <2>17 DEF UnsubscribeOne, Removing, InRemove, OwnKeys
    <3>3. /\ pc' = [pc EXCEPT ![c] = "unsubscribing"]
          /\ stale' = [stale EXCEPT ![c] = OwnKeys(c) \ {k}]
          /\ \A q \in Keys : forwards'[registered][q] =
                                IF q = k THEN 0 ELSE forwards[registered][q]
      <4>1. OwnKeys(c) \in SUBSET Keys
        BY KeyLists
      <4>6. PopOne(c, OwnKeys(c), k, "unsubscribing")
        BY <3>1
      <4>2. registered \in Objects
        BY <3>2, RegisteredObject
      <4>3. /\ pc' = [pc EXCEPT ![c] = "unsubscribing"]
            /\ stale' = [stale EXCEPT ![c] = OwnKeys(c) \ {k}]
        BY <4>6 DEF PopOne
      <4>8. \A j \in Objects, q \in Keys :
                  forwards'[j][q] = IF j = room[c] /\ q = k THEN 0
                                    ELSE forwards[j][q]
        <5>1. room[c] \in Objects /\ k \in Keys
          BY <3>2, <4>1, <4>2
        <5>2. forwards' = [forwards EXCEPT ![room[c]][k] = 0]
          BY <4>6 DEF PopOne
        <5>3. QED
          BY <5>1, <5>2, Zero, ForwardSet
      <4>7. QED
        BY <3>2, <4>2, <4>3, <4>8
    <3>4. Outof(registered, c)' \subseteq stale'[c]
      BY <2>17, <3>2, <3>3 DEF UnsubscribeOne, Outof, TypeOK
    <3>5. \A d \in Clients : d # c => pc'[d] = pc[d] /\ pc[d] \notin InRemove
      BY <3>2, <3>3 DEF Removing, TypeOK
    <3>6. QED
      BY <2>17, <3>2, <3>3, <3>4, <3>5 DEF UnsubscribeOne, Removing, TypeOK
  <2>18. CASE RemoveFails(c)
    BY <2>18 DEF RemoveFails, Removing, InRemove, Outof, TypeOK
  <2>19. CASE Removed(c)
    BY <2>19 DEF Removed, DropKeys, Into, OwnKeys, Outof, Removing,
       InRemove, TypeOK
  <2>20. QED
    BY <1>2, <2>1, <2>2, <2>3, <2>4, <2>5, <2>6, <2>7, <2>8, <2>9, <2>10,
       <2>11, <2>12, <2>13, <2>14, <2>15, <2>16, <2>17, <2>18, <2>19
         DEF Step, Publishing, Subscribing, Ending
<1>3. QED
  BY <1>1, <1>2 DEF Next, Step

\* Who never leaves is joined until the cleanup.
LEMMA StayingStep ==
    ASSUME TypeOK, Staying, [Next]_vars
    PROVE  Staying'
<1>1. CASE UNCHANGED vars
  BY <1>1 DEF vars, Staying
<1>2. ASSUME NEW c \in Clients, Step(c)
      PROVE  Staying'
  <2>1. CASE Leave(c)
    BY <2>1 DEF Leave, Staying
  <2>2. CASE Rejoin(c)
    BY <2>2 DEF Rejoin, Staying
  <2>3. CASE RecvPublish(c)
    BY <2>3 DEF RecvPublish, Staying
  <2>4. CASE NegotiationFails(c)
    BY <2>4 DEF NegotiationFails, Staying
  <2>5. CASE \E p \in Clients : RecvSubscribe(c, p)
    BY <2>5 DEF RecvSubscribe, Staying
  <2>6. CASE End(c)
    BY <2>6 DEF End, Staying
  <2>7. CASE Negotiated(c)
    BY <2>7 DEF Negotiated, Staying, TypeOK
  <2>8. CASE SwapOne(c)
    BY <2>8 DEF SwapOne, PopOne, DropKeys, Staying
  <2>9. CASE SwapFails(c)
    BY <2>9 DEF SwapFails, Staying
  <2>10. CASE Swapped(c)
    BY <2>10 DEF Swapped, DropKeys, Staying
  <2>11. CASE AnnounceProducers(c)
    BY <2>11 DEF AnnounceProducers, Staying
  <2>12. CASE Subscribed(c)
    BY <2>12 DEF Subscribed, File, Staying, TypeOK
  <2>13. CASE Resubscribed(c)
    BY <2>13 DEF Resubscribed, File, Staying
  <2>14. CASE FinallyNoRoom(c)
    BY <2>14 DEF FinallyNoRoom, Staying, TypeOK
  <2>15. CASE BeginRemove(c)
    BY <2>15 DEF BeginRemove, Staying
  <2>16. CASE DropOne(c)
    BY <2>16 DEF DropOne, PopOne, DropKeys, Staying
  <2>17. CASE UnsubscribeOne(c)
    BY <2>17 DEF UnsubscribeOne, PopOne, OwnKeys, DropKeys, Staying
  <2>18. CASE RemoveFails(c)
    BY <2>18 DEF RemoveFails, Staying
  <2>19. CASE Removed(c)
    BY <2>19 DEF Removed, DropKeys, Into, OwnKeys, Outof, Staying, TypeOK
  <2>20. QED
    BY <1>2, <2>1, <2>2, <2>3, <2>4, <2>5, <2>6, <2>7, <2>8, <2>9, <2>10,
       <2>11, <2>12, <2>13, <2>14, <2>15, <2>16, <2>17, <2>18, <2>19
         DEF Step, Publishing, Subscribing, Ending
<1>3. QED
  BY <1>1, <1>2 DEF Next, Step

\* Nothing comes back after the removal.
LEMMA DeadStep ==
    ASSUME TypeOK, RInv, [Next]_vars
    PROVE  DeadPeerGone'
<1>1. CASE UNCHANGED vars
  BY <1>1 DEF vars, RInv, DeadPeerGone, Outof, Keys
<1>2. ASSUME NEW c \in Clients, Step(c)
      PROVE  DeadPeerGone'
  <2>1. CASE Leave(c)
    BY <2>1 DEF Leave, RInv, DeadPeerGone, Outof
  <2>2. CASE Rejoin(c)
    BY <2>2 DEF Rejoin, RInv, DeadPeerGone, Outof
  <2>3. CASE RecvPublish(c)
    <3>1. CASE registered = 0
      <4>1. registered' = made + 1 /\ registered' \in Objects /\ registered' > made
        BY <2>3, <3>1, BoundsAssumption DEF RecvPublish, TypeOK, Objects
      <4>2. \A d \in Clients : producers[registered'][d] = 0 /\ Outof(registered', d) = {}
        BY <4>1 DEF RInv, Untouched, Outof
      <4>3. QED
        BY <2>3, <4>2 DEF RecvPublish, DeadPeerGone, Outof
    <3>2. CASE registered # 0
      BY <2>3, <3>2 DEF RecvPublish, RInv, DeadPeerGone, Outof, TypeOK, Steps
    <3>3. QED
      BY <3>1, <3>2
  <2>4. CASE NegotiationFails(c)
    BY <2>4 DEF NegotiationFails, RInv, DeadPeerGone, Outof
  <2>5. CASE \E p \in Clients : RecvSubscribe(c, p)
    BY <2>5 DEF RecvSubscribe, RInv, DeadPeerGone, Outof
  <2>6. CASE End(c)
    BY <2>6 DEF End, RInv, DeadPeerGone, Outof
  <2>7. CASE Negotiated(c)
    <3>1. /\ pc'[c] # "done"
          /\ \A d \in Clients : d # c => pc'[d] = pc[d]
          /\ \A d \in Clients, j \in Objects : d # c => producers'[j][d] = producers[j][d]
      BY <2>7, NegotiatedEffect DEF RInv, TypeOK
    <3>2. registered # 0 => registered \in Objects
      BY RegisteredObject
    <3>3. QED
      BY <2>7, <3>1, <3>2 DEF Negotiated, RInv, DeadPeerGone, Outof
  <2>8. CASE SwapOne(c)
    BY <2>8 DEF SwapOne, PopOne, DropKeys, Into, RInv, DeadPeerGone, Outof
  <2>9. CASE SwapFails(c)
    BY <2>9 DEF SwapFails, RInv, DeadPeerGone, Outof
  <2>10. CASE Swapped(c)
    BY <2>10 DEF Swapped, DropKeys, Into, RInv, DeadPeerGone, Outof
  <2>11. CASE AnnounceProducers(c)
    BY <2>11 DEF AnnounceProducers, RInv, DeadPeerGone, Outof
  <2>12. CASE Subscribed(c)
    <3>1. CASE File(c)
      <4>1. pc'[c] # "done" /\ (\A d \in Clients : d # c => pc'[d] = pc[d])
        BY <2>12, <3>1, FileEffect DEF Subscribed, RInv, TypeOK
      <4>2. \A d \in Clients : d # c /\ registered # 0 => Outof(registered, d)' = Outof(registered, d)
        BY <2>12, <3>1, FileEffect, RegisteredObject DEF Subscribed,
           RInv, Outof
      <4>3. QED
        BY <2>12, <4>1, <4>2 DEF Subscribed, RInv, DeadPeerGone
    <3>2. CASE /\ pc' = [pc EXCEPT ![c] = "resubscribing"]
               /\ UNCHANGED <<forwards, room, target>>
      BY <2>12, <3>2 DEF Subscribed, TypeOK, RInv, DeadPeerGone, Outof
    <3>3. QED
      BY <2>12, <3>1, <3>2 DEF Subscribed
  <2>13. CASE Resubscribed(c)
    BY <2>13 DEF Resubscribed, File, RInv, DeadPeerGone, Outof
  <2>14. CASE FinallyNoRoom(c)
    BY <2>14 DEF FinallyNoRoom, RInv, DeadPeerGone, Outof, TypeOK, Staying
  <2>15. CASE BeginRemove(c)
    BY <2>15 DEF BeginRemove, RInv, DeadPeerGone, Outof
  <2>16. CASE DropOne(c)
    BY <2>16 DEF DropOne, PopOne, DropKeys, Into, RInv, DeadPeerGone, Outof
  <2>17. CASE UnsubscribeOne(c)
    BY <2>17 DEF UnsubscribeOne, PopOne, OwnKeys, DropKeys, Into, Outof,
       RInv, DeadPeerGone
  <2>18. CASE RemoveFails(c)
    BY <2>18 DEF RemoveFails, RInv, DeadPeerGone, Outof
  <2>19. CASE Removed(c)
    BY <2>19 DEF Removed, DropKeys, Into, OwnKeys, Outof, RInv,
       DeadPeerGone, TypeOK, Staying, Removing, InRemove
  <2>20. QED
    BY <1>2, <2>1, <2>2, <2>3, <2>4, <2>5, <2>6, <2>7, <2>8, <2>9, <2>10,
       <2>11, <2>12, <2>13, <2>14, <2>15, <2>16, <2>17, <2>18, <2>19
         DEF Step, Publishing, Subscribing, Ending
<1>3. QED
  BY <1>1, <1>2 DEF Next, Step

-----------------------------------------------------------------------------
\* The invariant holds initially ...
LEMMA InitIInv == Init => IInv
<1> SUFFICES ASSUME Init PROVE IInv
  OBVIOUS
<1>1. TypeOK
  BY Zero, BoundsAssumption, ClientsAssumption DEF Init, TypeOK, Steps,
     Publishes
<1>2. PInv
  BY BoundsAssumption DEF Init, PInv, Working, PublishOnce, NewIsLive,
     UpstreamsUsable,
                          Renewing, InRemove
<1>3. RInv
  BY DEF Init, RInv, Working, Untouched, Removing, Staying, DeadPeerGone,
     Renewing, InRemove
<1>4. QED
  BY <1>1, <1>2, <1>3 DEF IInv

\* ... and every step preserves it.
LEMMA IInvStep == IInv /\ [Next]_vars => IInv'
<1> SUFFICES ASSUME IInv, [Next]_vars PROVE IInv'
  OBVIOUS
<1> USE DEF IInv
<1>1. TypeOK' /\ Working'
  BY TypeStep, WorkingStep DEF PInv, RInv
<1>2. PInv'
  BY <1>1, PublishOnceStep, NewIsLiveStep, UpstreamsStep DEF PInv
<1>3. RInv'
  BY <1>1, UntouchedStep, RemovingStep, StayingStep, DeadStep DEF RInv
<1>4. QED
  BY <1>1, <1>2, <1>3

\* The inductive invariant holds in every reachable state.
THEOREM Invariance == Spec => []IInv
<1>1. Init => IInv
  BY InitIInv
<1>2. IInv /\ [Next]_vars => IInv'
  BY IInvStep
<1>3. QED
  BY <1>1, <1>2, PTL DEF Spec

\* The state of the SFU room has its types in every reachable state.
THEOREM TypeCorrect == Spec => []TypeOK
<1>1. IInv => TypeOK
  BY DEF IInv
<1>2. QED
  BY <1>1, Invariance, PTL

\* An upstream that has_producer reports is completely negotiated and open,
\* whatever the interleaving of publishes, removals and collections.
THEOREM NeverForwardsDead == Spec => []UpstreamsUsable
<1>1. IInv => UpstreamsUsable
  BY DEF IInv, PInv
<1>2. QED
  BY <1>1, Invariance, PTL

\* remove_peer leaves nothing of the lost peer in the registered room.
THEOREM RemovalIsComplete == Spec => []DeadPeerGone
<1>1. IInv => DeadPeerGone
  BY DEF IInv, RInv
<1>2. QED
  BY <1>1, Invariance, PTL

-----------------------------------------------------------------------------
(***************************************************************************)
(* SfuRooms: a room is collected when it has become empty, and nobody's    *)
(* stream ends by the doing of a third.                                    *)
(***************************************************************************)

\* A handler at work is of a connection that is joined, has published if it
\* publishes, and subscribes to another's upstream if it subscribes.
AtWork ==
    \A c \in Clients :
       /\ pc[c] \notin {"idle", "ended", "done", "failed"} => c \in joined
       /\ pc[c] \in Renewing => published[c] # 0
       /\ pc[c] \in {"subscribing", "resubscribing"} => target[c][1] # c /\ target[c][2] # 0

\* The keys on a list are of downstreams from the peer, in the first loop, or to
\* the peer, in the second.
Listed ==
    \A c \in Clients :
       /\ pc[c] \in {"swapping", "dropping"} => \A k \in stale[c] : k[2] = c
       /\ pc[c] = "dropping" => \A k \in stale[c] : forwards[room[c]][k] # 0
       /\ pc[c] = "unsubscribing" => \A k \in stale[c] : k[1] = c

\* p publishes in the registered object, or is about to be removed.
Filling(p) ==
    \/ pc[p] \in Renewing /\ room[p] = registered
    \/ producers[registered][p] # 0
    \/ pc[p] = "ended" /\ p \in joined

\* A key that is gone when the second loop of remove_peer comes to it was popped
\* by a producer that replaces its upstream.
Popped ==
    \A c \in Clients : pc[c] = "unsubscribing" =>
       \A k \in stale[c] : forwards[registered][k] # 0 \/ (k[2] # c /\ Filling(k[2]))

\* What keeps an empty room from being forgotten.
Using(c) ==
    \/ pc[c] \in Renewing \cup InRemove /\ room[c] = registered
    \/ pc[c] = "ended" /\ c \in joined

CollectInv == AtWork /\ Listed /\ Popped /\ EmptyRoomIsInUse

\* A step of one handler leaves what the others have.
LEMMA OthersStay ==
    ASSUME TypeOK, NEW c \in Clients, Step(c), NEW d \in Clients, d # c
    PROVE  /\ pc'[d] = pc[d] /\ room'[d] = room[d] /\ target'[d] = target[d]
           /\ stale'[d] = stale[d] /\ published'[d] = published[d]
           /\ d \in joined' <=> d \in joined
<1>1. CASE Leave(c) \/ Rejoin(c) \/ End(c)
  BY <1>1 DEF Leave, Rejoin, End, TypeOK
<1>2. CASE RecvPublish(c)
  BY <1>2 DEF RecvPublish, TypeOK
<1>3. CASE NegotiationFails(c)
  BY <1>3 DEF NegotiationFails, TypeOK
<1>4. CASE \E p \in Clients : RecvSubscribe(c, p)
  BY <1>4 DEF RecvSubscribe, TypeOK
<1>5. CASE Negotiated(c)
  BY <1>5 DEF Negotiated, TypeOK
<1>6. CASE SwapOne(c)
  BY <1>6 DEF SwapOne, PopOne, TypeOK
<1>7. CASE SwapFails(c) \/ Swapped(c) \/ AnnounceProducers(c)
  BY <1>7 DEF SwapFails, Swapped, AnnounceProducers, TypeOK
<1>8. CASE Subscribed(c)
  BY <1>8 DEF Subscribed, File, TypeOK
<1>9. CASE Resubscribed(c)
  BY <1>9 DEF Resubscribed, File, TypeOK
<1>10. CASE FinallyNoRoom(c) \/ BeginRemove(c)
  BY <1>10 DEF FinallyNoRoom, BeginRemove, TypeOK
<1>11. CASE DropOne(c) \/ UnsubscribeOne(c)
  BY <1>11 DEF DropOne, UnsubscribeOne, PopOne, TypeOK
<1>12. CASE RemoveFails(c) \/ Removed(c)
  BY <1>12 DEF RemoveFails, Removed, TypeOK
<1>13. QED
  BY <1>1, <1>2, <1>3, <1>4, <1>5, <1>6, <1>7, <1>8, <1>9, <1>10, <1>11, <1>12
     DEF Step, Publishing, Subscribing, Ending

\* The registered object stays so until it is empty.
LEMMA RegisteredStays ==
    ASSUME TypeOK, Removing, NEW c \in Clients, Step(c)
    PROVE  \/ registered' = registered
           \/ RecvPublish(c) /\ registered = 0
           \/ Removed(c) /\ registered' = 0 /\ registered # 0 /\ IsEmpty(registered, forwards)
<1>1. CASE RecvPublish(c)
  BY <1>1 DEF RecvPublish
<1>2. CASE Removed(c)
  BY <1>2 DEF Removed, Removing, InRemove
<1>3. CASE Leave(c) \/ Rejoin(c) \/ End(c) \/ NegotiationFails(c)
  BY <1>3 DEF Leave, Rejoin, End, NegotiationFails
<1>4. CASE \E p \in Clients : RecvSubscribe(c, p)
  BY <1>4 DEF RecvSubscribe
<1>5. CASE Publishing(c) \/ Subscribing(c)
  BY <1>5 DEF Publishing, Subscribing, Negotiated, SwapOne, SwapFails, Swapped,
     AnnounceProducers, Subscribed, Resubscribed
<1>6. CASE FinallyNoRoom(c) \/ BeginRemove(c) \/ DropOne(c) \/ UnsubscribeOne(c) \/ RemoveFails(c)
  BY <1>6 DEF FinallyNoRoom, BeginRemove, DropOne, UnsubscribeOne, RemoveFails
<1>7. QED
  BY <1>1, <1>2, <1>3, <1>4, <1>5, <1>6 DEF Step, Ending

\* An upstream is taken out by its peer, which replaces it or is removed.
LEMMA ProducersFall ==
    ASSUME TypeOK, Working, AtWork, NEW c \in Clients, Step(c),
           NEW j \in Objects, NEW p \in Clients,
           producers[j][p] # 0, producers'[j][p] = 0
    PROVE  /\ p = c
           /\ \/ pc[c] = "publishing" /\ pc'[c] = "replacing" /\ j = room[c] /\ room' = room
                  /\ lock' = lock
              \/ BeginRemove(c) /\ j = registered
<1>1. CASE UNCHANGED producers
  BY <1>1
<1>2. CASE Negotiated(c)
  <2>1. p = c /\ j = room[c]
    BY <1>2, NegotiatedEffect
  <2>2. pc' = [pc EXCEPT ![c] = "replacing"]
    BY <1>2, <2>1, NegotiatedEffect
  <2>3. QED
    BY <1>2, <2>1, <2>2 DEF Negotiated, TypeOK
<1>3. CASE Swapped(c)
  <2>1. published[c] \in Publishes /\ published[c] # 0 /\ room[c] \in Objects
    BY <1>3, WorkObject DEF Swapped, AtWork, Renewing, TypeOK, Working
  <2>2. producers'[j][p] = IF j = room[c] /\ p = c THEN published[c] ELSE producers[j][p]
    BY <1>3, <2>1, ProducerSet DEF Swapped
  <2>3. QED
    BY <2>1, <2>2
<1>4. CASE BeginRemove(c)
  <2>1. registered \in Objects /\ 0 \in Publishes
    BY <1>4, Zero, RegisteredObject DEF BeginRemove
  <2>2. producers'[j][p] = IF j = registered /\ p = c THEN 0 ELSE producers[j][p]
    BY <1>4, <2>1, ProducerSet DEF BeginRemove
  <2>3. QED
    BY <1>4, <2>2
<1>5. \/ UNCHANGED producers
      \/ Negotiated(c) \/ Swapped(c) \/ BeginRemove(c)
  BY DEF Step, Publishing, Subscribing, Ending, Leave, Rejoin, RecvPublish, NegotiationFails,
     RecvSubscribe, End, SwapOne, SwapFails, AnnounceProducers, Subscribed, Resubscribed,
     FinallyNoRoom, DropOne, UnsubscribeOne, RemoveFails, Removed
<1>6. QED
  BY <1>1, <1>2, <1>3, <1>4, <1>5

\* What a pop does to any downstream.
LEMMA PopAt ==
    ASSUME TypeOK, Working, NEW c \in Clients, pc[c] \in Renewing \cup InRemove,
           NEW k \in Keys, forwards' = [forwards EXCEPT ![room[c]][k] = 0],
           NEW j \in Objects, NEW q \in Keys
    PROVE  forwards'[j][q] = IF j = room[c] /\ q = k THEN 0 ELSE forwards[j][q]
<1>1. 0 \in Publishes /\ room[c] \in Objects
  BY Zero, WorkObject DEF Working
<1>. QED  BY <1>1, ForwardSet

\* A downstream is popped by the handler of one of its ends.
LEMMA ForwardsFall ==
    ASSUME TypeOK, Working, AtWork, NEW c \in Clients, Step(c),
           NEW j \in Objects, NEW k \in Keys,
           forwards[j][k] # 0, forwards'[j][k] = 0
    PROVE  /\ j = room[c] /\ room' = room /\ registered' = registered /\ lock' = lock
           /\ producers' = producers
           /\ \/ /\ k \in DropKeys(c) /\ stale'[c] = DropKeys(c) \ {k}
                 /\ \/ pc[c] \in {"replacing", "swapping"} /\ pc'[c] = "swapping"
                    \/ pc[c] \in {"removing", "dropping"} /\ pc'[c] = "dropping"
              \/ /\ k \in OwnKeys(c) /\ stale'[c] = OwnKeys(c) \ {k} /\ DropKeys(c) = {}
                 /\ pc[c] \in InRemove /\ pc'[c] = "unsubscribing"
<1>1. CASE UNCHANGED forwards
  BY <1>1
<1>2. ASSUME pc[c] \in {"subscribing", "resubscribing"}, File(c) PROVE FALSE
  <2>1. room[c] \in Objects /\ target[c][2] # 0
    BY <1>2, FileEffect DEF AtWork
  <2>2. <<c, target[c][1]>> \in Keys /\ j = room[c] /\ k = <<c, target[c][1]>>
    BY <1>2, FileEffect
  <2>3. forwards' = [forwards EXCEPT ![j][k] = target[c][2]]
    BY <1>2, <2>2 DEF File
  <2>4. forwards'[j][k] = target[c][2]
    BY <2>3 DEF TypeOK
  <2>5. QED
    BY <2>1, <2>4
<1>3. CASE SwapOne(c)
  <2>1. PICK q \in DropKeys(c) : PopOne(c, DropKeys(c), q, "swapping")
    BY <1>3 DEF SwapOne
  <2>2. /\ DropKeys(c) \in SUBSET Keys /\ pc[c] \in {"replacing", "swapping"}
        /\ pc[c] \in Renewing \cup InRemove
        /\ room' = room /\ registered' = registered /\ lock' = lock /\ producers' = producers
    BY <1>3, KeyLists DEF SwapOne, Renewing
  <2>3. /\ q \in DropKeys(c) /\ q \in Keys
        /\ forwards' = [forwards EXCEPT ![room[c]][q] = 0]
        /\ stale' = [stale EXCEPT ![c] = DropKeys(c) \ {q}]
        /\ pc' = [pc EXCEPT ![c] = "swapping"]
    BY <2>1, <2>2 DEF PopOne
  <2>4. forwards'[j][k] = IF j = room[c] /\ k = q THEN 0 ELSE forwards[j][k]
    BY <2>2, <2>3, PopAt
  <2>5. stale'[c] = DropKeys(c) \ {q} /\ pc'[c] = "swapping"
    BY <2>3 DEF TypeOK
  <2>. QED  BY <2>2, <2>3, <2>4, <2>5
<1>4. CASE DropOne(c)
  <2>1. PICK q \in DropKeys(c) : PopOne(c, DropKeys(c), q, "dropping")
    BY <1>4 DEF DropOne
  <2>2. /\ DropKeys(c) \in SUBSET Keys /\ pc[c] \in {"removing", "dropping"}
        /\ pc[c] \in Renewing \cup InRemove
        /\ room' = room /\ registered' = registered /\ lock' = lock /\ producers' = producers
    BY <1>4, KeyLists DEF DropOne, InRemove
  <2>3. /\ q \in DropKeys(c) /\ q \in Keys
        /\ forwards' = [forwards EXCEPT ![room[c]][q] = 0]
        /\ stale' = [stale EXCEPT ![c] = DropKeys(c) \ {q}]
        /\ pc' = [pc EXCEPT ![c] = "dropping"]
    BY <2>1, <2>2 DEF PopOne
  <2>4. forwards'[j][k] = IF j = room[c] /\ k = q THEN 0 ELSE forwards[j][k]
    BY <2>2, <2>3, PopAt
  <2>5. stale'[c] = DropKeys(c) \ {q} /\ pc'[c] = "dropping"
    BY <2>3 DEF TypeOK
  <2>. QED  BY <2>2, <2>3, <2>4, <2>5
<1>5. CASE UnsubscribeOne(c)
  <2>1. PICK q \in OwnKeys(c) : PopOne(c, OwnKeys(c), q, "unsubscribing")
    BY <1>5 DEF UnsubscribeOne
  <2>2. /\ OwnKeys(c) \in SUBSET Keys /\ pc[c] \in InRemove /\ DropKeys(c) = {}
        /\ pc[c] \in Renewing \cup InRemove
        /\ room' = room /\ registered' = registered /\ lock' = lock /\ producers' = producers
    BY <1>5, KeyLists DEF UnsubscribeOne, InRemove
  <2>3. /\ q \in OwnKeys(c) /\ q \in Keys
        /\ forwards' = [forwards EXCEPT ![room[c]][q] = 0]
        /\ stale' = [stale EXCEPT ![c] = OwnKeys(c) \ {q}]
        /\ pc' = [pc EXCEPT ![c] = "unsubscribing"]
    BY <2>1, <2>2 DEF PopOne
  <2>4. forwards'[j][k] = IF j = room[c] /\ k = q THEN 0 ELSE forwards[j][k]
    BY <2>2, <2>3, PopAt
  <2>5. stale'[c] = OwnKeys(c) \ {q} /\ pc'[c] = "unsubscribing"
    BY <2>3 DEF TypeOK
  <2>. QED  BY <2>2, <2>3, <2>4, <2>5
<1>6. \/ UNCHANGED forwards \/ SwapOne(c) \/ DropOne(c) \/ UnsubscribeOne(c)
      \/ pc[c] \in {"subscribing", "resubscribing"} /\ File(c)
  BY DEF Step, Publishing, Subscribing, Ending, Leave, Rejoin, RecvPublish, NegotiationFails,
     RecvSubscribe, End, Negotiated, SwapFails, Swapped, AnnounceProducers, Subscribed,
     Resubscribed, FinallyNoRoom, BeginRemove, RemoveFails, Removed
<1>7. QED
  BY <1>1, <1>2, <1>3, <1>4, <1>5, <1>6

\* The invariant's parts hold after a step: whoever is at work is joined, and
\* means something.
LEMMA AtWorkStep ==
    ASSUME TypeOK, AtWork, NEW c \in Clients, Step(c)
    PROVE  AtWork'
<1> SUFFICES ASSUME NEW d \in Clients
             PROVE  /\ pc'[d] \notin {"idle", "ended", "done", "failed"} => d \in joined'
                    /\ pc'[d] \in Renewing => published'[d] # 0
                    /\ pc'[d] \in {"subscribing", "resubscribing"} => target'[d][1] # d /\ target'[d][2] # 0
  BY DEF AtWork
<1>1. CASE d # c
  BY <1>1, OthersStay DEF AtWork
<1>2. CASE d = c
  <2>1. CASE Leave(c) \/ Rejoin(c) \/ End(c)
    BY <1>2, <2>1 DEF Leave, Rejoin, End, TypeOK, Renewing
  <2>2. CASE RecvPublish(c)
    BY <1>2, <2>2 DEF RecvPublish, TypeOK, Publishes
  <2>3. CASE NegotiationFails(c)
    BY <1>2, <2>3 DEF NegotiationFails, TypeOK, Renewing
  <2>4. CASE \E p \in Clients : RecvSubscribe(c, p)
    BY <1>2, <2>4 DEF RecvSubscribe, TypeOK, Renewing
  <2>5. CASE Negotiated(c)
    BY <1>2, <2>5 DEF Negotiated, TypeOK, AtWork, Renewing
  <2>6. CASE SwapOne(c)
    BY <1>2, <2>6 DEF SwapOne, PopOne, TypeOK, AtWork, Renewing
  <2>7. CASE SwapFails(c) \/ Swapped(c) \/ AnnounceProducers(c)
    BY <1>2, <2>7 DEF SwapFails, Swapped, AnnounceProducers, TypeOK, AtWork, Renewing
  <2>8. CASE Subscribed(c)
    BY <1>2, <2>8 DEF Subscribed, File, TypeOK, AtWork, Renewing
  <2>9. CASE Resubscribed(c)
    BY <1>2, <2>9 DEF Resubscribed, File, TypeOK, Renewing
  <2>10. CASE FinallyNoRoom(c) \/ BeginRemove(c)
    BY <1>2, <2>10 DEF FinallyNoRoom, BeginRemove, TypeOK, AtWork, Renewing
  <2>11. CASE DropOne(c) \/ UnsubscribeOne(c)
    BY <1>2, <2>11 DEF DropOne, UnsubscribeOne, PopOne, TypeOK, AtWork, Renewing
  <2>12. CASE RemoveFails(c) \/ Removed(c)
    BY <1>2, <2>12 DEF RemoveFails, Removed, TypeOK, Renewing
  <2>13. QED
    BY <2>1, <2>2, <2>3, <2>4, <2>5, <2>6, <2>7, <2>8, <2>9, <2>10, <2>11, <2>12
       DEF Step, Publishing, Subscribing, Ending
<1>3. QED
  BY <1>1, <1>2

\* What a handler that is closing downstreams still has on its list.
LEMMA ListsOf ==
    ASSUME TypeOK, Listed, NEW c \in Clients
    PROVE  /\ \A k \in DropKeys(c) : k \in Keys /\ k[2] = c
           /\ \A k \in OwnKeys(c) : k \in Keys /\ k[1] = c
           /\ pc[c] \in {"removing", "dropping"} =>
                \A k \in DropKeys(c) : forwards[room[c]][k] # 0
BY DEF TypeOK, Listed, DropKeys, OwnKeys, Into, Outof

\* ... the lists name the right downstreams ...
LEMMA ListedStep ==
    ASSUME TypeOK, Working, Removing, AtWork, Listed, NEW c \in Clients, Step(c)
    PROVE  Listed'
<1> SUFFICES ASSUME NEW d \in Clients
             PROVE  /\ pc'[d] \in {"swapping", "dropping"} => \A k \in stale'[d] : k[2] = d
                    /\ pc'[d] = "dropping" => \A k \in stale'[d] : forwards'[room'[d]][k] # 0
                    /\ pc'[d] = "unsubscribing" => \A k \in stale'[d] : k[1] = d
  BY DEF Listed
<1>1. CASE d # c
  <2>1. pc'[d] = pc[d] /\ room'[d] = room[d] /\ stale'[d] = stale[d]
    BY <1>1, OthersStay
  <2>2. ASSUME pc[d] = "dropping", NEW k \in stale[d], forwards'[room[d]][k] = 0 PROVE FALSE
    <3>1. /\ lock = d /\ room[d] = registered /\ registered # 0
          /\ k \in Keys /\ k[2] = d /\ forwards[room[d]][k] # 0
      BY <2>2 DEF Removing, InRemove, Listed, TypeOK
    <3>2. room[d] \in Objects
      BY <3>1, RegisteredObject
    <3>3. k \in DropKeys(c) \/ pc[c] \in InRemove
      BY <2>2, <3>1, <3>2, ForwardsFall
    <3>4. pc[c] \notin InRemove
      BY <1>1, <3>1 DEF Removing
    <3>5. QED
      BY <1>1, <3>1, <3>3, <3>4, ListsOf
  <2>3. QED
    BY <2>1, <2>2 DEF Listed
<1>2. CASE d = c
  <2>1. CASE pc'[c] \notin {"swapping", "dropping", "unsubscribing"}
    BY <1>2, <2>1
  <2>2. CASE SwapOne(c)
    <3>1. stale'[c] \subseteq DropKeys(c) /\ pc'[c] = "swapping"
      BY <2>2 DEF SwapOne, PopOne, TypeOK
    <3>2. QED
      BY <1>2, <3>1, ListsOf
  <2>3. CASE DropOne(c)
    <3>1. PICK q \in DropKeys(c) : PopOne(c, DropKeys(c), q, "dropping")
      BY <2>3 DEF DropOne
    <3>2. /\ pc[c] \in {"removing", "dropping"} /\ pc[c] \in Renewing \cup InRemove
          /\ room' = room /\ q \in Keys /\ DropKeys(c) \in SUBSET Keys
      BY <2>3, <3>1, KeyLists DEF DropOne, InRemove
    <3>3. /\ forwards' = [forwards EXCEPT ![room[c]][q] = 0]
          /\ stale'[c] = DropKeys(c) \ {q}
          /\ pc'[c] = "dropping"
      BY <3>1 DEF PopOne, TypeOK
    <3>4. ASSUME NEW k \in stale'[c] PROVE forwards'[room'[c]][k] # 0
      <4>1. k \in Keys /\ k # q /\ k \in DropKeys(c) /\ room'[c] = room[c]
        BY <3>2, <3>3, <3>4
      <4>2. room[c] \in Objects
        BY <3>2, WorkObject DEF Working
      <4>3. forwards'[room[c]][k] = IF room[c] = room[c] /\ k = q THEN 0 ELSE forwards[room[c]][k]
        BY <3>2, <3>3, <4>1, <4>2, PopAt
      <4>4. forwards[room[c]][k] # 0
        BY <3>2, <4>1, ListsOf
      <4>5. QED
        BY <4>1, <4>3, <4>4
    <3>5. QED
      BY <1>2, <3>3, <3>4, ListsOf
  <2>4. CASE UnsubscribeOne(c)
    <3>1. stale'[c] \subseteq OwnKeys(c) /\ pc'[c] = "unsubscribing"
      BY <2>4 DEF UnsubscribeOne, PopOne, TypeOK
    <3>2. QED
      BY <1>2, <3>1, ListsOf
  <2>5. \/ pc'[c] \notin {"swapping", "dropping", "unsubscribing"}
        \/ SwapOne(c) \/ DropOne(c) \/ UnsubscribeOne(c)
    <3>1. CASE Leave(c) \/ Rejoin(c) \/ End(c) \/ RecvPublish(c) \/ NegotiationFails(c)
      BY <3>1 DEF Leave, Rejoin, End, RecvPublish, NegotiationFails, TypeOK
    <3>2. CASE (\E p \in Clients : RecvSubscribe(c, p)) \/ Negotiated(c)
      BY <3>2 DEF RecvSubscribe, Negotiated, TypeOK
    <3>3. CASE SwapFails(c) \/ Swapped(c) \/ AnnounceProducers(c)
      BY <3>3 DEF SwapFails, Swapped, AnnounceProducers, TypeOK
    <3>4. CASE Subscribed(c) \/ Resubscribed(c)
      BY <3>4 DEF Subscribed, Resubscribed, File, TypeOK
    <3>5. CASE FinallyNoRoom(c) \/ BeginRemove(c) \/ RemoveFails(c) \/ Removed(c)
      BY <3>5 DEF FinallyNoRoom, BeginRemove, RemoveFails, Removed, TypeOK
    <3>6. QED
      BY <3>1, <3>2, <3>3, <3>4, <3>5 DEF Step, Publishing, Subscribing, Ending
  <2>6. QED
    BY <2>1, <2>2, <2>3, <2>4, <2>5
<1>3. QED
  BY <1>1, <1>2

\* Where a handler that replaces an upstream can go.
LEMMA RenewingStep ==
    ASSUME TypeOK, Working, AtWork, NEW c \in Clients, Step(c), pc[c] \in Renewing
    PROVE  \/ pc'[c] \in {"replacing", "swapping"} /\ room'[c] = room[c]
           \/ room[c] \in Objects /\ producers'[room[c]][c] # 0
           \/ pc'[c] = "ended" /\ c \in joined'
<1>0. c \in joined /\ published[c] # 0 /\ published[c] \in Publishes /\ room[c] \in Objects
  BY WorkObject DEF AtWork, Renewing, TypeOK, Working
<1>1. CASE NegotiationFails(c)
  BY <1>0, <1>1 DEF NegotiationFails, TypeOK
<1>2. CASE Negotiated(c)
  BY <1>0, <1>2, NegotiatedEffect DEF Negotiated, TypeOK
<1>3. CASE SwapOne(c)
  BY <1>3 DEF SwapOne, PopOne, TypeOK
<1>4. CASE SwapFails(c)
  BY <1>0, <1>4 DEF SwapFails, TypeOK
<1>5. CASE Swapped(c)
  BY <1>0, <1>5, ProducerSet DEF Swapped
<1>6. NegotiationFails(c) \/ Negotiated(c) \/ SwapOne(c) \/ SwapFails(c) \/ Swapped(c)
  BY DEF Step, Publishing, Subscribing, Ending, Renewing, Leave, Rejoin, RecvPublish,
     RecvSubscribe, End, AnnounceProducers, Subscribed, Resubscribed, FinallyNoRoom,
     BeginRemove, DropOne, UnsubscribeOne, RemoveFails, Removed
<1>7. QED
  BY <1>1, <1>2, <1>3, <1>4, <1>5, <1>6

\* Where a connection that is to be removed can go.
LEMMA EndedStep ==
    ASSUME TypeOK, NEW c \in Clients, Step(c), pc[c] = "ended", c \in joined, registered # 0
    PROVE  BeginRemove(c) /\ pc'[c] = "removing" /\ room'[c] = registered
<1>1. BeginRemove(c)
  BY DEF Step, Publishing, Subscribing, Ending, Leave, Rejoin, RecvPublish, NegotiationFails,
     RecvSubscribe, End, Negotiated, SwapOne, SwapFails, Swapped, AnnounceProducers,
     Subscribed, Resubscribed, FinallyNoRoom, DropOne, UnsubscribeOne, RemoveFails, Removed
<1>2. QED
  BY <1>1 DEF BeginRemove, TypeOK

\* While another holds the mutex a producer goes on filling the room.
LEMMA FillingStays ==
    ASSUME TypeOK, Working, AtWork, NEW c \in Clients, Step(c),
           registered # 0, registered' = registered, lock # Nobody,
           NEW p \in Clients, Filling(p)
    PROVE  Filling(p)'
<1>1. CASE producers[registered][p] # 0
  <2>1. registered \in Objects
    BY RegisteredObject
  <2>2. CASE producers'[registered][p] = 0
    <3>1. p = c /\ pc'[c] = "replacing" /\ room[c] = registered /\ room' = room
      BY <1>1, <2>1, <2>2, ProducersFall DEF BeginRemove
    <3>2. QED
      BY <3>1 DEF Filling, Renewing
  <2>3. QED
    BY <2>2 DEF Filling
<1>2. CASE pc[p] \in Renewing /\ room[p] = registered
  <2>1. CASE p = c
    BY <1>2, <2>1, RenewingStep DEF Filling, Renewing
  <2>2. CASE p # c
    BY <1>2, <2>2, OthersStay DEF Filling
  <2>3. QED
    BY <2>1, <2>2
<1>3. CASE pc[p] = "ended" /\ p \in joined
  <2>1. p # c
    BY <1>3, EndedStep DEF BeginRemove
  <2>2. QED
    BY <1>3, <2>1, OthersStay DEF Filling
<1>4. QED
  BY <1>1, <1>2, <1>3 DEF Filling

\* ... a key that is gone was popped by a producer that goes on ...
LEMMA PoppedStep ==
    ASSUME TypeOK, Working, Removing, AtWork, Listed, Popped, NEW c \in Clients, Step(c)
    PROVE  Popped'
<1> SUFFICES ASSUME NEW d \in Clients, pc'[d] = "unsubscribing", NEW k \in stale'[d]
             PROVE  forwards'[registered'][k] # 0 \/ (k[2] # d /\ Filling(k[2])')
  BY DEF Popped
<1>1. CASE d = c
  <2>1. UnsubscribeOne(c)
    BY <1>1 DEF Step, Publishing, Subscribing, Ending, Leave, Rejoin, RecvPublish,
       NegotiationFails, RecvSubscribe, End, Negotiated, SwapOne, SwapFails, Swapped,
       AnnounceProducers, Subscribed, Resubscribed, File, FinallyNoRoom, BeginRemove,
       DropOne, PopOne, RemoveFails, Removed, TypeOK
  <2>2. PICK q \in OwnKeys(c) : PopOne(c, OwnKeys(c), q, "unsubscribing")
    BY <2>1 DEF UnsubscribeOne
  <2>3. /\ pc[c] \in InRemove /\ pc[c] \in Renewing \cup InRemove
        /\ registered' = registered /\ room' = room /\ producers' = producers
        /\ joined' = joined
        /\ q \in Keys /\ OwnKeys(c) \in SUBSET Keys
    BY <2>1, <2>2, KeyLists DEF UnsubscribeOne, InRemove
  <2>4. /\ forwards' = [forwards EXCEPT ![room[c]][q] = 0]
        /\ stale'[c] = OwnKeys(c) \ {q}
        /\ pc' = [pc EXCEPT ![c] = "unsubscribing"]
    BY <2>2 DEF PopOne, TypeOK
  <2>5. room[c] = registered /\ registered # 0 /\ registered \in Objects
    BY <2>3, RegisteredObject DEF Removing
  <2>6. k \in OwnKeys(c) /\ k # q /\ k \in Keys
    BY <1>1, <2>3, <2>4
  <2>7. forwards'[registered][k] = IF registered = room[c] /\ k = q THEN 0 ELSE forwards[registered][k]
    BY <2>3, <2>4, <2>5, <2>6, PopAt
  <2>8. forwards[registered][k] # 0 \/ (k[2] # c /\ Filling(k[2]))
    BY <2>5, <2>6 DEF OwnKeys, Outof, Popped
  <2>9. ASSUME k[2] # c, Filling(k[2]) PROVE Filling(k[2])'
    <3>1. k[2] \in Clients
      BY <2>6 DEF Keys
    <3>2. pc'[k[2]] = pc[k[2]]
      BY <2>4, <2>9, <3>1 DEF TypeOK
    <3>3. QED
      BY <2>3, <2>9, <3>2 DEF Filling
  <2>10. QED
    BY <1>1, <2>3, <2>6, <2>7, <2>8, <2>9
<1>2. CASE d # c
  <2>1. pc[d] = "unsubscribing" /\ k \in stale[d] /\ k \in Keys
    BY <1>2, OthersStay DEF TypeOK
  <2>2. lock = d /\ registered # 0 /\ room[d] = registered /\ registered \in Objects
    BY <2>1, RegisteredObject DEF Removing, InRemove
  <2>3. pc[c] \notin InRemove /\ lock # Nobody
    BY <1>2, <2>2, ClientsAssumption DEF Removing
  <2>4. registered' = registered
    BY <2>2, <2>3, RegisteredStays DEF Removed, InRemove
  <2>5. k[2] \in Clients
    BY <2>1 DEF Keys
  <2>6. CASE k[2] # d /\ Filling(k[2])
    BY <2>2, <2>3, <2>4, <2>5, <2>6, FillingStays
  <2>7. CASE forwards[registered][k] # 0
    <3>1. CASE forwards'[registered][k] # 0
      BY <2>4, <3>1
    <3>2. CASE forwards'[registered][k] = 0
      <4>1. /\ registered = room[c] /\ room' = room
            /\ k \in DropKeys(c) /\ pc'[c] = "swapping"
        BY <2>1, <2>2, <2>3, <2>7, <3>2, ForwardsFall DEF InRemove
      <4>2. k[2] = c
        BY <4>1, ListsOf
      <4>3. Filling(c)'
        BY <2>4, <4>1 DEF Filling, Renewing
      <4>4. QED
        BY <1>2, <4>2, <4>3
    <3>3. QED
      BY <3>1, <3>2
  <2>8. QED
    BY <2>1, <2>6, <2>7 DEF Popped
<1>3. QED
  BY <1>1, <1>2

\* Whoever keeps an empty room from being forgotten goes on doing so.
LEMMA UsingStays ==
    ASSUME TypeOK, Working, Removing, AtWork, Listed, Popped, NEW c \in Clients, Step(c),
           registered # 0, registered' = registered,
           IsEmpty(registered, forwards), IsEmpty(registered, forwards)',
           NEW w \in Clients, Using(w)
    PROVE  \E d \in Clients : Using(d)'
<1>0. registered \in Objects
  BY RegisteredObject
<1>1. CASE w # c
  BY <1>1, OthersStay DEF Using
<1>2. CASE w = c /\ pc[c] \in Renewing /\ room[c] = registered
  <2>1. producers'[registered][c] = 0
    BY <1>0 DEF IsEmpty, ProducerIds
  <2>2. Using(c)'
    BY <1>2, <2>1, RenewingStep DEF Using, Renewing
  <2>3. QED
    BY <2>2
<1>3. CASE w = c /\ pc[c] \in InRemove /\ room[c] = registered
  <2>1. CASE DropOne(c) \/ UnsubscribeOne(c)
    <3>1. Using(c)'
      BY <1>3, <2>1 DEF DropOne, UnsubscribeOne, PopOne, TypeOK, Using, InRemove
    <3>2. QED
      BY <3>1
  <2>2. CASE RemoveFails(c)
    <3>1. PICK k \in stale[c] : forwards[room[c]][k] = 0
      BY <2>2 DEF RemoveFails
    <3>2. pc[c] = "unsubscribing"
      BY <2>2, <3>1 DEF RemoveFails, Listed
    <3>3. k[2] # c /\ Filling(k[2]) /\ k[2] \in Clients
      BY <1>3, <3>1, <3>2 DEF Popped, TypeOK, Keys
    <3>4. producers[registered][k[2]] = 0
      BY <3>3 DEF IsEmpty, ProducerIds
    <3>5. Using(k[2])
      BY <3>3, <3>4 DEF Filling, Using
    <3>6. Using(k[2])'
      BY <3>3, <3>5, OthersStay DEF Using
    <3>7. QED
      BY <3>3, <3>6
  <2>3. ~Removed(c)
    BY <1>3 DEF Removed
  <2>4. DropOne(c) \/ UnsubscribeOne(c) \/ RemoveFails(c)
    BY <1>3, <2>3 DEF Step, Publishing, Subscribing, Ending, InRemove, Leave, Rejoin,
       RecvPublish, NegotiationFails, RecvSubscribe, End, Negotiated, SwapOne, SwapFails,
       Swapped, AnnounceProducers, Subscribed, Resubscribed, FinallyNoRoom, BeginRemove
  <2>5. QED
    BY <2>1, <2>2, <2>4
<1>4. CASE w = c /\ pc[c] = "ended" /\ c \in joined
  <2>1. Using(c)'
    BY <1>4, EndedStep DEF Using, InRemove
  <2>2. QED
    BY <2>1
<1>5. QED
  BY <1>1, <1>2, <1>3, <1>4 DEF Using

\* EmptyRoomIsInUse, with a name for what keeps the room.
LEMMA EmptyRoom ==
    EmptyRoomIsInUse <=> (registered # 0 /\ IsEmpty(registered, forwards) => \E c \in Clients : Using(c))
BY DEF EmptyRoomIsInUse, Using, Renewing, InRemove

\* ... and an empty room is in use.
LEMMA EmptyStep ==
    ASSUME TypeOK, Working, Removing, AtWork, Listed, Popped, EmptyRoomIsInUse,
           NEW c \in Clients, Step(c),
           registered' # 0, IsEmpty(registered, forwards)'
    PROVE  \E d \in Clients : Using(d)'
<1>1. CASE RecvPublish(c)
  <2>1. Using(c)'
    BY <1>1 DEF RecvPublish, Using, Renewing, TypeOK
  <2>2. QED
    BY <2>1
<1>2. CASE registered' = registered /\ IsEmpty(registered, forwards)
  BY <1>2, EmptyRoom, UsingStays
<1>3. CASE registered' = registered /\ ~IsEmpty(registered, forwards)
  <2>1. registered \in Objects /\ registered # 0
    BY <1>3, RegisteredObject
  <2>2. ASSUME NEW p \in Clients, producers[registered][p] # 0 PROVE Using(c)'
    <3>1. producers'[registered][p] = 0
      BY <1>3, <2>2 DEF IsEmpty, ProducerIds
    <3>2. \/ pc'[c] = "replacing" /\ registered = room[c] /\ room' = room
          \/ BeginRemove(c)
      BY <2>1, <2>2, <3>1, ProducersFall
    <3>3. QED
      BY <1>3, <3>2 DEF BeginRemove, Using, Renewing, InRemove, TypeOK
  <2>3. ASSUME NEW k \in Keys, forwards[registered][k] # 0 PROVE Using(c)'
    <3>1. forwards'[registered][k] = 0
      BY <1>3, <2>3 DEF IsEmpty
    <3>2. registered = room[c] /\ room' = room /\ pc'[c] \in {"swapping", "dropping", "unsubscribing"}
      BY <2>1, <2>3, <3>1, ForwardsFall
    <3>3. QED
      BY <1>3, <3>2 DEF Using, Renewing, InRemove
  <2>4. \/ \E p \in Clients : producers[registered][p] # 0
        \/ \E k \in Keys : forwards[registered][k] # 0
    BY <1>3 DEF IsEmpty, ProducerIds
  <2>5. QED
    BY <2>2, <2>3, <2>4
<1>4. QED
  BY <1>1, <1>2, <1>3, RegisteredStays

\* The invariant of the collection of rooms is inductive.
LEMMA CollectStep ==
    ASSUME IInv, CollectInv, [Next]_vars
    PROVE  CollectInv'
<1>1. CASE UNCHANGED vars
  BY <1>1 DEF vars, CollectInv, AtWork, Listed, Popped, Filling, EmptyRoomIsInUse, IsEmpty,
     ProducerIds, Keys
<1>2. ASSUME NEW c \in Clients, Step(c)
      PROVE  CollectInv'
  <2>1. TypeOK /\ Working /\ Removing /\ AtWork /\ Listed /\ Popped /\ EmptyRoomIsInUse
    BY DEF IInv, PInv, RInv, CollectInv
  <2>2. AtWork' /\ Listed' /\ Popped'
    BY <1>2, <2>1, AtWorkStep, ListedStep, PoppedStep
  <2>3. EmptyRoomIsInUse'
    BY <1>2, <2>1, EmptyStep DEF EmptyRoomIsInUse, Using, Renewing, InRemove
  <2>4. QED
    BY <2>2, <2>3 DEF CollectInv
<1>3. QED
  BY <1>1, <1>2 DEF Next, Step

\* It holds in every reachable state.
LEMMA Collecting == Spec => [](IInv /\ CollectInv)
<1>1. Init => CollectInv
  BY DEF Init, CollectInv, AtWork, Listed, Popped, EmptyRoomIsInUse, Renewing
<1>2. IInv /\ CollectInv /\ [Next]_vars => CollectInv'
  BY CollectStep
<1>3. QED
  BY <1>1, <1>2, Invariance, PTL DEF Spec

\* A registered room with nothing in it is being filled or tidied, or its
\* publisher is about to be removed: no interleaving of get_or_create and
\* remove_peer leaves an empty room registered for good.
THEOREM EmptyRoomsGo == Spec => []EmptyRoomIsInUse
<1>1. CollectInv => EmptyRoomIsInUse
  BY DEF CollectInv
<1>2. QED
  BY <1>1, Collecting, PTL

\* A peer's upstream goes out of the room only by a step of the peer's own
\* handler: neither the removal of another peer nor the collection of the room
\* takes a running publisher with it.
THEOREM OnlyOwnerStops == Spec => OnlyOwnerStopsProducing
<1>1. ASSUME IInv, CollectInv, [Next]_vars, NEW p \in Clients, Offered(p), ~Offered(p)'
      PROVE  pc'[p] # pc[p]
  <2>1. ~UNCHANGED vars
    BY <1>1 DEF vars, Offered
  <2>2. PICK c \in Clients : Step(c)
    BY <1>1, <2>1 DEF Next, Step
  <2>3. TypeOK /\ Working /\ Removing /\ AtWork
    BY <1>1 DEF IInv, PInv, RInv, CollectInv
  <2>4. registered # 0 /\ producers[registered][p] # 0 /\ registered \in Objects
    BY <1>1, <2>3, RegisteredObject DEF Offered
  <2>5. registered' = registered
    BY <2>2, <2>3, <2>4, RegisteredStays DEF IsEmpty, ProducerIds
  <2>6. producers'[registered][p] = 0
    BY <1>1, <2>4, <2>5 DEF Offered
  <2>7. p = c /\ ((pc[c] = "publishing" /\ pc'[c] = "replacing") \/ BeginRemove(c))
    BY <2>2, <2>3, <2>4, <2>6, ProducersFall
  <2>8. QED
    BY <2>3, <2>7 DEF BeginRemove, TypeOK
<1>2. IInv /\ CollectInv /\ [Next]_vars =>
        [\A p \in Clients : Offered(p) /\ ~Offered(p)' => pc'[p] # pc[p]]_vars
  BY <1>1
<1>3. QED
  BY <1>2, Collecting, PTL DEF Spec, OnlyOwnerStopsProducing

\* A downstream ends only by a step of its subscriber's or its producer's
\* handler: no third connection's removal or publish closes it.
THEOREM ThirdsStopNothing == Spec => OnlyAnEndStopsForwarding
<1>1. ASSUME IInv, CollectInv, [Next]_vars, NEW k \in Keys, Forwarded(k), ~Forwarded(k)'
      PROVE  \E e \in {k[1], k[2]} : pc'[e] # pc[e] \/ stale'[e] # stale[e]
  <2>1. ~UNCHANGED vars
    BY <1>1 DEF vars, Forwarded
  <2>2. PICK c \in Clients : Step(c)
    BY <1>1, <2>1 DEF Next, Step
  <2>3. TypeOK /\ Working /\ Removing /\ AtWork /\ Listed
    BY <1>1 DEF IInv, PInv, RInv, CollectInv
  <2>4. registered # 0 /\ forwards[registered][k] # 0 /\ registered \in Objects
    BY <1>1, <2>3, RegisteredObject DEF Forwarded
  <2>5. registered' = registered
    BY <2>2, <2>3, <2>4, RegisteredStays DEF IsEmpty
  <2>6. forwards'[registered][k] = 0
    BY <1>1, <2>4, <2>5 DEF Forwarded
  <2>7. \/ /\ k \in DropKeys(c) /\ stale'[c] = DropKeys(c) \ {k}
           /\ \/ pc[c] \in {"replacing", "swapping"} /\ pc'[c] = "swapping"
              \/ pc[c] \in {"removing", "dropping"} /\ pc'[c] = "dropping"
        \/ /\ k \in OwnKeys(c) /\ stale'[c] = OwnKeys(c) \ {k}
           /\ pc[c] \in InRemove /\ pc'[c] = "unsubscribing"
    BY <2>2, <2>3, <2>4, <2>6, ForwardsFall
  <2>8. pc'[c] # pc[c] \/ stale'[c] # stale[c]
    BY <2>7 DEF DropKeys, OwnKeys
  <2>9. c = k[1] \/ c = k[2]
    BY <2>3, <2>7, ListsOf
  <2>10. QED
    BY <2>8, <2>9
<1>2. IInv /\ CollectInv /\ [Next]_vars =>
        [\A k \in Keys : Forwarded(k) /\ ~Forwarded(k)' =>
          \E e \in {k[1], k[2]} :
              pc'[e] # pc[e] \/ stale'[e] # stale[e]]_vars
  BY <1>1
<1>3. QED
  BY <1>2, Collecting, PTL DEF Spec, OnlyAnEndStopsForwarding

-----------------------------------------------------------------------------
(* DeviceKeys: both ends of a session stand at the same key. *)

\* The secrets that agreements give, and none.
Secrets == {InitiatorSecret(h, d, opk) : h \in Nat, d \in Devices, opk \in BOOLEAN} \cup {<<>>}
SessionStates == [secret : Secrets, n : Nat]
Hellos == [kind : {"hello"}, h : Nat, opk : BOOLEAN]
Messages == [kind : {"message"}, key : Secrets \X Nat]

\* Where a device stands once it has taken m.
After(d, m) ==
    IF m.kind = "hello" THEN <<InitiatorSecret(m.h, d, m.opk), 0>>
                        ELSE <<m.key[1], m.key[2] + 1>>

\* Where a device stands when it has taken the first i of what is on its way.
StandsAt(d, i) == IF i = 0 THEN KeyOf(held[d]) ELSE After(d, wire[d][i])

\* The session of the sender with d as it will be kept.
Current(d) == IF batch # NoBatch /\ batch[d] # Failed THEN batch[d] ELSE sessions[d]

Agreed ==
    /\ deviceRows \in DeviceRows
    /\ DOMAIN registry \subseteq Devices /\ registry \in [DOMAIN registry -> BOOLEAN]
    /\ DOMAIN sessions \subseteq Devices /\ sessions \in [DOMAIN sessions -> SessionStates]
    /\ batch # NoBatch => \A d \in DOMAIN sessions : batch[d] \in {Failed, Advance(sessions[d])}
    /\ wire \in [Devices -> Seq(Hellos \cup Messages)]
    /\ held \in [Devices -> SessionStates]
    /\ hellos \in Nat

\* Each message on its way is under the key at which its device will stand, and
\* the sender stands where the device will stand in the end.
InStepAll ==
    /\ \A d \in Devices : \A i \in 1 .. Len(wire[d]) :
          wire[d][i].kind = "message" => wire[d][i].key = StandsAt(d, i - 1)
    /\ \A d \in DOMAIN sessions : KeyOf(Current(d)) = StandsAt(d, Len(wire[d]))

DInv == Agreed /\ InStepAll /\ EnvelopesAreRead

\* Both ends of an agreement compute one secret (x3dh_initiate, x3dh_respond).
LEMMA BothSecrets ==
    ASSUME NEW h, NEW d, NEW opk
    PROVE  ResponderSecret(d, h, opk) = InitiatorSecret(h, d, opk)
BY DEF ResponderSecret, InitiatorSecret, DH

\* It holds at the start, when no device is registered and nobody has a session.
LEMMA InitDInv == DevicesInit => DInv
<1> SUFFICES ASSUME DevicesInit PROVE DInv
  OBVIOUS
<1>1. Agreed
  BY DEF DevicesInit, Agreed, DeviceRows, SessionStates, Secrets, NoSession, NoBatch
<1>2. InStepAll
  BY DEF DevicesInit, InStepAll
<1>3. QED
  BY <1>1, <1>2 DEF DInv, DevicesInit, EnvelopesAreRead

\* Devices that come to the table change no session and nothing on its way.
LEMMA RowsKeep ==
    ASSUME DInv, UNCHANGED senderVars,
           deviceRows' \in DeviceRows,
           DOMAIN registry' \subseteq Devices, registry' \in [DOMAIN registry' -> BOOLEAN]
    PROVE  DInv'
BY DEF DInv, Agreed, InStepAll, EnvelopesAreRead, senderVars, Current, StandsAt

\* Registering a device, or taking it off, leaves the sessions as they are.
LEMMA RegistersKeep ==
    ASSUME DInv, NEW d \in Devices,
           \/ RemoveDevice(d)
           \/ \E a \in Accounts : RevokeDevice(a, d)
           \/ \E a \in Accounts, opk \in BOOLEAN : RegisterDevice(a, d, opk)
    PROVE  DInv'
<1>1. UNCHANGED senderVars
  BY DEF RemoveDevice, RevokeDevice, RegisterDevice
<1>2. deviceRows' \in DeviceRows
  <2>1. CASE \E a \in Accounts : RevokeDevice(a, d)
    <3>1. deviceRows[d] \in [owner : Accounts, opk : BOOLEAN, status : {"active", "revoked"}]
      BY <2>1 DEF RevokeDevice, DInv, Agreed, DeviceRows, NoRow
    <3>2. [deviceRows[d] EXCEPT !.status = "revoked"]
            \in [owner : Accounts, opk : BOOLEAN, status : {"active", "revoked"}]
      BY <3>1, Zenon
    <3>3. QED
      BY <2>1, <3>2 DEF RevokeDevice, DInv, Agreed, DeviceRows
  <2>2. QED
    BY <2>1 DEF RemoveDevice, RegisterDevice, DInv, Agreed, DeviceRows
<1>3. DOMAIN registry' \subseteq Devices /\ registry' \in [DOMAIN registry' -> BOOLEAN]
  BY DEF RemoveDevice, RevokeDevice, RegisterDevice, DInv, Agreed
<1>4. QED
  BY <1>1, <1>2, <1>3, RowsKeep

\* An agreement starts the session of the sender where its hello puts the device.
LEMMA ConnectKeeps ==
    ASSUME DInv, NEW d \in Devices, Connect(d)
    PROVE  DInv'
<1> DEFINE m == [kind |-> "hello", h |-> hellos + 1, opk |-> registry[d]]
           s == [secret |-> InitiatorSecret(hellos + 1, d, registry[d]), n |-> 0]
<1>1. /\ d \in DOMAIN registry /\ batch = NoBatch /\ hellos' = hellos + 1
      /\ sessions' = [e \in DOMAIN sessions \cup {d} |-> IF e = d THEN s ELSE sessions[e]]
      /\ wire' = [wire EXCEPT ![d] = Append(@, m)]
      /\ UNCHANGED <<deviceRows, registry, batch, held, unread, batches>>
  BY DEF Connect
<1>2. registry[d] \in BOOLEAN /\ hellos \in Nat
  BY <1>1 DEF DInv, Agreed
<1>3. m \in Hellos /\ s \in SessionStates
  BY <1>2 DEF Hellos, SessionStates, Secrets
<1>4. After(d, m) = KeyOf(s) /\ m.kind = "hello"
  BY DEF After, KeyOf
<1> HIDE DEF m, s
<1>5. Agreed'
  BY <1>1, <1>2, <1>3 DEF DInv, Agreed
<1>6. /\ Len(wire[d]) \in Nat /\ Len(wire'[d]) = Len(wire[d]) + 1
      /\ wire'[d][Len(wire[d]) + 1] = m
      /\ \A i \in 1 .. Len(wire[d]) : wire'[d][i] = wire[d][i]
      /\ \A e \in Devices \ {d} : wire'[e] = wire[e]
  BY <1>1, <1>3 DEF DInv, Agreed
<1>7. InStepAll'
  <2>1. ASSUME NEW e \in Devices, NEW i \in 1 .. Len(wire'[e]), wire'[e][i].kind = "message"
        PROVE  wire'[e][i].key = StandsAt(e, i - 1)'
    <3>1. held' = held
      BY <1>1
    <3>2. i \in 1 .. Len(wire[e]) /\ wire'[e][i] = wire[e][i]
      <4>1. CASE e = d
        BY <1>4, <1>6, <2>1, <4>1
      <4>2. CASE e # d
        BY <1>6, <4>2
      <4>3. QED
        BY <4>1, <4>2
    <3>3. wire[e][i].key = StandsAt(e, i - 1)
      BY <2>1, <3>2 DEF DInv, InStepAll
    <3>4. i - 1 = 0 \/ wire'[e][i - 1] = wire[e][i - 1]
      <4>1. CASE e = d
        BY <1>6, <3>2, <4>1
      <4>2. CASE e # d
        BY <1>6, <4>2
      <4>3. QED
        BY <4>1, <4>2
    <3>5. QED
      BY <3>1, <3>2, <3>3, <3>4 DEF StandsAt
  <2>2. ASSUME NEW e \in DOMAIN sessions'
        PROVE  KeyOf(Current(e)') = StandsAt(e, Len(wire[e]))'
    <3>1. CASE e = d
      BY <1>1, <1>4, <1>6, <3>1 DEF StandsAt, Current
    <3>2. CASE e # d
      <4>1. e \in DOMAIN sessions /\ e \in Devices /\ sessions'[e] = sessions[e]
        BY <1>1, <3>2 DEF DInv, Agreed
      <4>2. QED
        BY <1>1, <1>6, <3>2, <4>1 DEF StandsAt, Current, DInv, InStepAll
    <3>3. QED
      BY <3>1, <3>2
  <2>3. QED
    BY <2>1, <2>2 DEF InStepAll
<1>8. QED
  BY <1>1, <1>5, <1>7 DEF DInv, EnvelopesAreRead

\* A fan-out writes each envelope under the key of its session, which moves past it
\* whether or not the fan-out comes to its end.
LEMMA FanOutKeeps ==
    ASSUME DInv, NEW bad \in SUBSET DOMAIN sessions, EncryptFanOut(bad)
    PROVE  DInv'
<1>1. /\ batch = NoBatch /\ DOMAIN sessions # {}
      /\ batch' = [d \in DOMAIN sessions |-> IF d \in bad THEN Failed ELSE Advance(sessions[d])]
      /\ wire' = [d \in Devices |->
                    IF d \in DOMAIN sessions \ bad
                    THEN Append(wire[d], [kind |-> "message", key |-> KeyOf(sessions[d])])
                    ELSE wire[d]]
      /\ UNCHANGED <<deviceRows, registry, sessions, held, unread, hellos>>
  BY DEF EncryptFanOut
<1>2. batch' # NoBatch
  BY <1>1 DEF NoBatch
<1>3. \A d \in DOMAIN sessions : sessions[d] \in SessionStates
  BY DEF DInv, Agreed
<1>4. \A d \in DOMAIN sessions :
         /\ [kind |-> "message", key |-> KeyOf(sessions[d])] \in Messages
         /\ Advance(sessions[d]) # Failed
  BY <1>3 DEF Messages, KeyOf, SessionStates, Advance, Failed
<1>5. Agreed'
  <2>1. wire' \in [Devices -> Seq(Hellos \cup Messages)]
    BY <1>1, <1>4 DEF DInv, Agreed
  <2>2. \A d \in DOMAIN sessions : batch'[d] \in {Failed, Advance(sessions[d])}
    BY <1>1
  <2>3. \A d \in DOMAIN sessions : Advance(sessions'[d]) = Advance(sessions[d])
    BY <1>1
  <2>4. QED
    BY <1>1, <2>1, <2>2, <2>3 DEF DInv, Agreed, Advance
<1>6. ASSUME NEW d \in DOMAIN sessions \ bad
      PROVE  /\ wire'[d] = Append(wire[d], [kind |-> "message", key |-> KeyOf(sessions[d])])
             /\ Len(wire[d]) \in Nat /\ Len(wire'[d]) = Len(wire[d]) + 1
             /\ wire'[d][Len(wire[d]) + 1].kind = "message"
             /\ wire'[d][Len(wire[d]) + 1].key = KeyOf(sessions[d])
             /\ \A i \in 1 .. Len(wire[d]) : wire'[d][i] = wire[d][i]
             /\ KeyOf(sessions[d]) = StandsAt(d, Len(wire[d]))
  <2>1. d \in Devices
    BY DEF DInv, Agreed
  <2>2. KeyOf(sessions[d]) = StandsAt(d, Len(wire[d]))
    BY <1>1 DEF DInv, InStepAll, Current
  <2>3. wire'[d] = Append(wire[d], [kind |-> "message", key |-> KeyOf(sessions[d])])
    BY <1>1, <2>1
  <2>4. wire[d] \in Seq(Hellos \cup Messages)
    BY <2>1 DEF DInv, Agreed
  <2>5. QED
    BY <1>4, <2>2, <2>3, <2>4
<1>7. \A d \in Devices : d \notin DOMAIN sessions \ bad => wire'[d] = wire[d]
  BY <1>1
<1>8. InStepAll'
  <2>1. ASSUME NEW d \in Devices, NEW i \in 1 .. Len(wire'[d]), wire'[d][i].kind = "message"
        PROVE  wire'[d][i].key = StandsAt(d, i - 1)'
    <3>1. \A k : StandsAt(d, k)' = IF k = 0 THEN KeyOf(held[d]) ELSE After(d, wire'[d][k])
      BY <1>1 DEF StandsAt
    <3>2. CASE d \in DOMAIN sessions \ bad
      <4> PICK len \in Nat : len = Len(wire[d])
        BY <1>6, <3>2
      <4>1. /\ len \in Nat /\ Len(wire'[d]) = len + 1
            /\ wire'[d][len + 1].key = KeyOf(sessions[d])
            /\ \A k \in 1 .. len : wire'[d][k] = wire[d][k]
            /\ KeyOf(sessions[d]) = StandsAt(d, len)
        BY <1>6, <3>2
      <4>2. CASE i = len + 1
        <5>1. StandsAt(d, len)' = StandsAt(d, len)
          BY <3>1, <4>1 DEF StandsAt
        <5>2. i - 1 = len
          BY <4>1, <4>2
        <5>3. QED
          BY <4>1, <4>2, <5>1, <5>2
      <4>3. CASE i # len + 1
        <5>1. i \in 1 .. len /\ (i - 1 = 0 \/ i - 1 \in 1 .. len)
          BY <4>1, <4>3
        <5>2. wire[d][i].key = StandsAt(d, i - 1)
          BY <2>1, <4>1, <5>1 DEF DInv, InStepAll
        <5>3. StandsAt(d, i - 1)' = StandsAt(d, i - 1)
          BY <3>1, <4>1, <5>1 DEF StandsAt
        <5>4. QED
          BY <4>1, <5>1, <5>2, <5>3
      <4>4. QED
        BY <4>2, <4>3
    <3>3. CASE d \notin DOMAIN sessions \ bad
      <4>1. wire'[d] = wire[d]
        BY <1>7, <3>3
      <4>2. wire[d][i].key = StandsAt(d, i - 1)
        BY <2>1, <4>1 DEF DInv, InStepAll
      <4>3. StandsAt(d, i - 1)' = StandsAt(d, i - 1)
        BY <3>1, <4>1 DEF StandsAt
      <4>4. QED
        BY <4>1, <4>2, <4>3
    <3>4. QED
      BY <3>2, <3>3
  <2>2. ASSUME NEW d \in DOMAIN sessions'
        PROVE  KeyOf(Current(d)') = StandsAt(d, Len(wire[d]))'
    <3>1. d \in DOMAIN sessions /\ d \in Devices /\ sessions'[d] = sessions[d]
      BY <1>1 DEF DInv, Agreed
    <3>2. CASE d \in bad
      <4>1. Current(d)' = Current(d) /\ wire'[d] = wire[d]
        BY <1>1, <1>7, <3>1, <3>2 DEF Current
      <4>2. QED
        BY <1>1, <3>1, <4>1 DEF StandsAt, DInv, InStepAll
    <3>3. CASE d \notin bad
      <4>1. Current(d)' = Advance(sessions[d])
        BY <1>1, <1>2, <1>4, <3>1, <3>3 DEF Current
      <4> DEFINE len == Len(wire[d])
                 last == wire'[d][len + 1]
      <4>5. /\ len \in Nat /\ Len(wire'[d]) = len + 1
            /\ last.kind = "message" /\ last.key = KeyOf(sessions[d])
        BY <1>6, <3>1, <3>3
      <4> HIDE DEF len
      <4>2. StandsAt(d, Len(wire[d]))' = After(d, last)
        BY <4>5 DEF StandsAt
      <4>3. After(d, last) = KeyOf(Advance(sessions[d]))
        BY <4>5 DEF After, KeyOf, Advance
      <4>4. QED
        BY <4>1, <4>2, <4>3
    <3>4. QED
      BY <3>2, <3>3
  <2>3. QED
    BY <2>1, <2>2 DEF InStepAll
<1>9. QED
  BY <1>1, <1>5, <1>8 DEF DInv, EnvelopesAreRead

\* A rotation of the keys keeps it.
LEMMA RotateKeeps ==
    ASSUME DInv, RotateSession
    PROVE  DInv'
<1>1. /\ batch # NoBatch /\ batch' = NoBatch
      /\ sessions' = [d \in DOMAIN sessions |-> Current(d)]
      /\ UNCHANGED <<deviceRows, registry, wire, held, unread, hellos>>
  BY DEF RotateSession, Current, Ok
<1>2. \A d \in DOMAIN sessions : Current(d) \in SessionStates
  BY DEF DInv, Agreed, Current, Advance, SessionStates
<1>3. Agreed'
  BY <1>1, <1>2 DEF DInv, Agreed
<1>4. \A d \in DOMAIN sessions : Current(d)' = Current(d)
  BY <1>1 DEF Current
<1>5. InStepAll'
  BY <1>1, <1>4 DEF DInv, InStepAll, StandsAt
<1>6. QED
  BY <1>1, <1>3, <1>5 DEF DInv, EnvelopesAreRead

\* What a device takes from the wire puts it where the next message expects it.
LEMMA ReceiveKeeps ==
    ASSUME DInv, NEW d \in Devices, Receive(d)
    PROVE  DInv'
<1> DEFINE m == Head(wire[d])
<1>1. /\ wire[d] # <<>> /\ wire' = [wire EXCEPT ![d] = Tail(@)]
      /\ UNCHANGED <<deviceRows, registry, sessions, batch, hellos>>
  BY DEF Receive
<1>2. /\ Len(wire[d]) \in Nat \ {0} /\ m = wire[d][1] /\ m \in Hellos \cup Messages
      /\ Len(wire'[d]) = Len(wire[d]) - 1
      /\ \A i \in 1 .. Len(wire'[d]) : i + 1 \in 1 .. Len(wire[d]) /\ wire'[d][i] = wire[d][i + 1]
      /\ \A e \in Devices \ {d} : wire'[e] = wire[e]
  BY <1>1 DEF DInv, Agreed
<1>3. m.kind = "message" => m.key = KeyOf(held[d])
  BY <1>2 DEF DInv, InStepAll, StandsAt
<1>4. /\ unread' = unread
      /\ \E s \in SessionStates : held' = [held EXCEPT ![d] = s] /\ KeyOf(s) = After(d, m)
  <2>1. CASE m.kind = "hello"
    <3> DEFINE s == [secret |-> InitiatorSecret(m.h, d, m.opk), n |-> 0]
    <3>1. m \in Hellos
      BY <1>2, <2>1 DEF Messages
    <3>2. s \in SessionStates
      BY <3>1 DEF SessionStates, Secrets, Hellos
    <3>3. KeyOf(s) = After(d, m)
      BY <2>1 DEF KeyOf, After
    <3>4. held' = [held EXCEPT ![d] = s] /\ unread' = unread
      BY <2>1, BothSecrets DEF Receive
    <3>5. QED
      BY <3>2, <3>3, <3>4
  <2>2. CASE m.kind # "hello"
    <3>1. m.kind = "message" /\ m.key = KeyOf(held[d])
      BY <1>2, <1>3, <2>2 DEF Hellos, Messages
    <3>2. held[d] \in SessionStates
      BY DEF DInv, Agreed
    <3>3. Advance(held[d]) \in SessionStates /\ KeyOf(Advance(held[d])) = After(d, m)
      BY <3>1, <3>2 DEF SessionStates, Advance, KeyOf, After
    <3>4. held' = [held EXCEPT ![d] = Advance(held[d])] /\ unread' = unread
      BY <3>1 DEF Receive
    <3>5. QED
      BY <3>3, <3>4
  <2>3. QED
    BY <2>1, <2>2
<1> HIDE DEF m
<1>5. /\ held' \in [Devices -> SessionStates] /\ KeyOf(held'[d]) = After(d, m)
      /\ \A e \in Devices \ {d} : held'[e] = held[e]
  BY <1>4 DEF DInv, Agreed
<1>6. Agreed'
  <2>1. wire' \in [Devices -> Seq(Hellos \cup Messages)]
    BY <1>1 DEF DInv, Agreed
  <2>2. QED
    BY <1>1, <1>5, <2>1 DEF DInv, Agreed, Advance
<1>7. \A i \in 0 .. Len(wire'[d]) : StandsAt(d, i)' = StandsAt(d, i + 1)
  BY <1>2, <1>5 DEF StandsAt
<1>8. InStepAll'
  <2>1. ASSUME NEW e \in Devices, NEW i \in 1 .. Len(wire'[e]), wire'[e][i].kind = "message"
        PROVE  wire'[e][i].key = StandsAt(e, i - 1)'
    <3>1. CASE e = d
      <4>1. /\ i + 1 \in 1 .. Len(wire[d]) /\ wire'[d][i] = wire[d][i + 1] /\ (i + 1) - 1 = i
            /\ i - 1 \in 0 .. Len(wire'[d]) /\ (i - 1) + 1 = i
        <5>1. i \in 1 .. Len(wire'[d]) /\ Len(wire'[d]) \in Nat
          BY <1>2, <3>1
        <5>2. i \in Nat /\ i >= 1 /\ i <= Len(wire'[d])
          BY <5>1
        <5>3. (i + 1) - 1 = i /\ (i - 1) + 1 = i /\ i - 1 \in 0 .. Len(wire'[d])
          BY <5>1, <5>2
        <5>4. i + 1 \in 1 .. Len(wire[d]) /\ wire'[d][i] = wire[d][i + 1]
          BY <1>2, <5>1
        <5>5. QED
          BY <5>3, <5>4
      <4>2. wire[d][i + 1].key = StandsAt(d, i)
        BY <2>1, <3>1, <4>1 DEF DInv, InStepAll
      <4>3. StandsAt(d, i - 1)' = StandsAt(d, i)
        BY <1>7, <4>1
      <4>4. QED
        BY <3>1, <4>1, <4>2, <4>3
    <3>2. CASE e # d
      <4>1. StandsAt(e, i - 1)' = StandsAt(e, i - 1)
        BY <1>2, <1>5, <3>2 DEF StandsAt
      <4>2. QED
        BY <1>2, <2>1, <3>2, <4>1 DEF DInv, InStepAll
    <3>3. QED
      BY <3>1, <3>2
  <2>2. ASSUME NEW e \in DOMAIN sessions'
        PROVE  KeyOf(Current(e)') = StandsAt(e, Len(wire[e]))'
    <3>1. e \in DOMAIN sessions /\ e \in Devices /\ Current(e)' = Current(e)
      BY <1>1 DEF Current, DInv, Agreed
    <3>2. KeyOf(Current(e)) = StandsAt(e, Len(wire[e]))
      BY <3>1 DEF DInv, InStepAll
    <3>3. StandsAt(e, Len(wire[e]))' = StandsAt(e, Len(wire[e]))
      BY <1>2, <1>5, <3>1 DEF StandsAt
    <3>4. QED
      BY <3>1, <3>2, <3>3
  <2>3. QED
    BY <2>1, <2>2 DEF InStepAll
<1>9. QED
  BY <1>4, <1>6, <1>8 DEF DInv, EnvelopesAreRead

\* Every step of the devices keeps it.
LEMMA NextDInv == DInv /\ [DevicesNext]_deviceVars => DInv'
<1> SUFFICES ASSUME DInv, [DevicesNext]_deviceVars PROVE DInv'
  OBVIOUS
<1>1. CASE UNCHANGED deviceVars
  BY <1>1, RowsKeep DEF deviceVars, senderVars, DInv, Agreed
<1>2. CASE RotateSession
  BY <1>2, RotateKeeps
<1>3. ASSUME NEW bad \in SUBSET DOMAIN sessions, EncryptFanOut(bad)
      PROVE  DInv'
  BY <1>3, FanOutKeeps
<1>4. ASSUME NEW d \in Devices, Connect(d) \/ Receive(d)
      PROVE  DInv'
  BY <1>4, ConnectKeeps, ReceiveKeeps
<1>5. ASSUME NEW d \in Devices,
             \/ RemoveDevice(d)
             \/ \E a \in Accounts : RevokeDevice(a, d)
             \/ \E a \in Accounts, opk \in BOOLEAN : RegisterDevice(a, d, opk)
      PROVE  DInv'
  BY <1>5, RegistersKeep
<1>6. CASE Sync
  <2>1. UNCHANGED senderVars /\ deviceRows' = deviceRows
    BY <1>6 DEF Sync
  <2>2. \A e \in DevicesOf(Sender) : e \in Devices /\ deviceRows[e].opk \in BOOLEAN
    BY DEF DevicesOf, DInv, Agreed, DeviceRows, NoRow
  <2>3. DOMAIN registry' \subseteq Devices /\ registry' \in [DOMAIN registry' -> BOOLEAN]
    BY <1>6, <2>2 DEF Sync, DeviceRegistry
  <2>4. QED
    BY <2>1, <2>3, RowsKeep DEF DInv, Agreed
<1>7. QED
  BY <1>1, <1>2, <1>3, <1>4, <1>5, <1>6 DEF DevicesNext

\* An envelope that encrypt_fan_out reports ok is read by its device, for any
\* number of agreements with a device, of fan-outs and of failures in them.
THEOREM BothEndsAgree == DevicesSpec => []EnvelopesAreRead
<1>1. DInv => EnvelopesAreRead
  BY DEF DInv
<1>2. QED
  BY <1>1, InitDInv, NextDInv, PTL DEF DevicesSpec

-----------------------------------------------------------------------------
(* SenderKeys: a member reads from its entering on. *)

ChainStates == [chain : Nat, counter : Nat]
Handed == [state : ChainStates, after : Nat]

\* A chain that stood at counter when so many messages had been sent: the messages
\* of the chain since then are numbered on from there.
StoodIn(o, said, chain, counter, after) ==
    /\ chain <= o.chain /\ after <= Len(said)
    /\ \A n \in 1 .. Len(said) : said[n].chain = chain =>
          IF n > after THEN said[n].counter = counter + (n - after - 1)
                       ELSE said[n].counter < counter
    /\ o.chain = chain => o.counter = counter + (Len(said) - after)

Stood(chain, counter, after) == StoodIn(own, sent, chain, counter, after)

Keyed ==
    /\ own \in ChainStates /\ sent \in Seq(ChainStates)
    /\ given \in [Members -> Seq(Handed)]
    /\ inbox \in [Members -> Seq(Nat)]
    /\ states \in [Members -> ChainStates] /\ entered \in [Members -> Nat]
    /\ got \in [Members -> SUBSET Nat]
    /\ own.chain = 0 => own.counter = 0 /\ sent = <<>>
    /\ \A n \in 1 .. Len(sent) : sent[n].chain \in 1 .. own.chain

\* What was distributed, and what a member made of it and of k messages since.
Entered ==
    /\ Stood(own.chain, own.counter, Len(sent))
    /\ \A m \in Members :
          /\ \A i \in 1 .. Len(inbox[m]) : inbox[m][i] \in 1 .. Len(sent)
          /\ \A i \in 1 .. Len(given[m]) :
                Stood(given[m][i].state.chain, given[m][i].state.counter, given[m][i].after)
          /\ \E k \in Nat :
                /\ got[m] = entered[m] + 1 .. entered[m] + k /\ k <= states[m].counter
                /\ Stood(states[m].chain, states[m].counter - k, entered[m])

KInv == Keyed /\ Entered

\* It holds before the first chain.
LEMMA InitKInv == SenderKeysInit => KInv
<1> SUFFICES ASSUME SenderKeysInit PROVE KInv
  OBVIOUS
<1>1. Keyed
  BY DEF SenderKeysInit, Keyed, ChainStates, NoState
<1>2. Entered
  <2>1. \A c \in {0} : Stood(0, c, 0)
    BY DEF SenderKeysInit, Stood, StoodIn, NoState
  <2>2. ASSUME NEW m \in Members
        PROVE  /\ got[m] = entered[m] + 1 .. entered[m] + 0 /\ 0 <= states[m].counter
               /\ states[m].chain = 0 /\ states[m].counter - 0 = 0 /\ entered[m] = 0
    BY DEF SenderKeysInit, NoState
  <2>3. QED
    BY <2>1, <2>2 DEF SenderKeysInit, Entered, NoState
<1>3. QED
  BY <1>1, <1>2 DEF KInv

\* Later messages and chains do not change where a chain stood.
LEMMA StoodStays ==
    ASSUME KInv, CreateSenderKey \/ Say, NEW chain \in Nat, NEW counter \in Nat,
           NEW after \in Nat, Stood(chain, counter, after)
    PROVE  Stood(chain, counter, after)'
<1>1. CASE CreateSenderKey
  <2>1. own'.chain = own.chain + 1 /\ sent' = sent /\ own.chain \in Nat
    BY <1>1 DEF CreateSenderKey, KInv, Keyed, ChainStates
  <2>2. QED
    BY <2>1 DEF Stood, StoodIn
<1>2. CASE Say
  <2>1. /\ own \in ChainStates /\ own' = [chain |-> own.chain, counter |-> own.counter + 1]
        /\ sent' = Append(sent, own) /\ sent \in Seq(ChainStates)
    BY <1>2 DEF Say, Derived, KInv, Keyed, ChainStates
  <2>2. /\ Len(sent) \in Nat /\ Len(sent') = Len(sent) + 1 /\ sent'[Len(sent) + 1] = own
        /\ \A n \in 1 .. Len(sent) : sent'[n] = sent[n]
    BY <2>1
  <2>3. /\ own'.chain = own.chain /\ own'.counter = own.counter + 1
        /\ own.counter \in Nat /\ own.chain \in Nat
    BY <2>1 DEF ChainStates
  <2>4. ASSUME NEW n \in 1 .. Len(sent'), sent'[n].chain = chain
        PROVE  IF n > after THEN sent'[n].counter = counter + (n - after - 1)
                            ELSE sent'[n].counter < counter
    <3>1. CASE n = Len(sent) + 1
      BY <2>2, <2>3, <2>4, <3>1 DEF Stood, StoodIn
    <3>2. CASE n # Len(sent) + 1
      <4>1. n \in 1 .. Len(sent) /\ sent'[n] = sent[n]
        BY <2>2, <3>2
      <4>2. QED
        BY <2>4, <4>1 DEF Stood, StoodIn
    <3>3. QED
      BY <3>1, <3>2
  <2>5. chain <= own'.chain /\ after <= Len(sent')
    BY <2>2, <2>3 DEF Stood, StoodIn
  <2>6. own'.chain = chain => own'.counter = counter + (Len(sent') - after)
    BY <2>2, <2>3 DEF Stood, StoodIn
  <2>7. QED
    BY <2>4, <2>5, <2>6 DEF Stood, StoodIn
<1>3. QED
  BY <1>1, <1>2

\* The sender begins another chain or says something, and the members stay.
LEMMA CreateSayKeep ==
    ASSUME KInv, CreateSenderKey \/ Say
    PROVE  KInv'
<1>1. /\ UNCHANGED <<given, states, entered, got>>
      /\ own'.chain >= own.chain /\ own' \in ChainStates /\ sent' \in Seq(ChainStates)
      /\ Len(sent) \in Nat /\ Len(sent') \in Nat /\ Len(sent') >= Len(sent)
      /\ own.chain \in Nat /\ own.counter \in Nat
  <2>1. own \in ChainStates /\ sent \in Seq(ChainStates) /\ own.chain \in Nat /\ own.counter \in Nat
    BY DEF KInv, Keyed, ChainStates
  <2>2. CASE CreateSenderKey
    BY <2>1, <2>2 DEF CreateSenderKey, ChainStates
  <2>3. CASE Say
    <3>1. own' = [chain |-> own.chain, counter |-> own.counter + 1]
      BY <2>1, <2>3 DEF Say, Derived, ChainStates
    <3>2. own' \in ChainStates /\ own'.chain = own.chain
      BY <2>1, <3>1 DEF ChainStates
    <3>3. sent' = Append(sent, own) /\ UNCHANGED <<given, states, entered, got>>
      BY <2>3 DEF Say
    <3>4. QED
      BY <2>1, <3>2, <3>3
  <2>4. QED
    BY <2>2, <2>3
<1>2. Keyed' /\ Stood(own.chain, own.counter, Len(sent))'
      /\ \A m \in Members : \A i \in 1 .. Len(inbox'[m]) : inbox'[m][i] \in 1 .. Len(sent')
  <2>1. CASE CreateSenderKey
    <3>1. own' = [chain |-> own.chain + 1, counter |-> 0] /\ sent' = sent /\ inbox' = inbox
      BY <2>1 DEF CreateSenderKey
    <3>2. own'.chain = own.chain + 1 /\ own'.counter = 0
      BY <3>1
    <3>3. Keyed'
      <4>1. own'.chain # 0 /\ \A n \in 1 .. Len(sent) : sent[n].chain \in 1 .. own'.chain
        BY <1>1, <3>2 DEF KInv, Keyed
      <4>2. QED
        BY <1>1, <3>1, <4>1 DEF KInv, Keyed
    <3>4. Stood(own.chain, own.counter, Len(sent))'
      BY <1>1, <3>1, <3>2 DEF KInv, Keyed, Stood, StoodIn
    <3>5. QED
      BY <3>1, <3>3, <3>4 DEF KInv, Entered
  <2>2. CASE Say
    <3>1. /\ own # NoState /\ own \in ChainStates
          /\ own' = [chain |-> own.chain, counter |-> own.counter + 1]
          /\ sent' = Append(sent, own) /\ sent \in Seq(ChainStates)
          /\ inbox' = [m \in Members |-> Append(inbox[m], Len(sent'))]
      BY <2>2 DEF Say, Derived, KInv, Keyed, ChainStates
    <3>2. /\ Len(sent') = Len(sent) + 1 /\ sent'[Len(sent) + 1] = own
          /\ \A n \in 1 .. Len(sent) : sent'[n] = sent[n]
          /\ own'.chain = own.chain /\ own'.counter = own.counter + 1
      BY <3>1
    <3>3. own.chain # 0
      BY <3>1 DEF KInv, Keyed, NoState, ChainStates
    <3>4. inbox' \in [Members -> Seq(Nat)]
      BY <1>1, <3>1 DEF KInv, Keyed
    <3>5. \A n \in 1 .. Len(sent') : sent'[n].chain \in 1 .. own'.chain
      <4>1. SUFFICES ASSUME NEW n \in 1 .. Len(sent') PROVE sent'[n].chain \in 1 .. own.chain
        BY <3>2
      <4>2. n = Len(sent) + 1 \/ n \in 1 .. Len(sent)
        BY <1>1, <3>2
      <4>3. CASE n = Len(sent) + 1
        BY <1>1, <3>2, <3>3, <4>3
      <4>4. CASE n \in 1 .. Len(sent)
        BY <3>2, <4>4 DEF KInv, Keyed
      <4>5. QED
        BY <4>2, <4>3, <4>4
    <3>6. Keyed'
      BY <1>1, <3>2, <3>3, <3>4, <3>5 DEF KInv, Keyed
    <3>7. Stood(own.chain, own.counter, Len(sent))'
      <4>1. ASSUME NEW n \in 1 .. Len(sent'), sent'[n].chain = own'.chain
            PROVE  n <= Len(sent') /\ sent'[n].counter < own'.counter
        <5>1. CASE n = Len(sent) + 1
          BY <1>1, <3>2, <5>1
        <5>2. CASE n # Len(sent) + 1
          <6>0. n \in 1 .. Len(sent)
            BY <1>1, <3>2, <5>2
          <6>5. sent[n] \in ChainStates
            BY <3>1, <6>0
          <6>1. n \in 1 .. Len(sent) /\ sent'[n] = sent[n] /\ sent[n].counter \in Nat
            BY <3>2, <6>0, <6>5 DEF ChainStates
          <6>2. ~(n > Len(sent))
            BY <1>1, <6>1
          <6>3. sent[n].counter < own.counter
            BY <3>2, <4>1, <6>1, <6>2 DEF KInv, Entered, Stood, StoodIn
          <6>4. QED
            BY <1>1, <3>2, <6>1, <6>3
        <5>3. QED
          BY <5>1, <5>2
      <4>2. own'.chain <= own'.chain /\ own'.counter = own'.counter + (Len(sent') - Len(sent'))
        BY <1>1, <3>2
      <4>3. QED
        BY <1>1, <4>1, <4>2 DEF Stood, StoodIn
    <3>8. ASSUME NEW m \in Members, NEW i \in 1 .. Len(inbox'[m])
          PROVE  inbox'[m][i] \in 1 .. Len(sent')
      <4>1. inbox'[m] = Append(inbox[m], Len(sent')) /\ inbox[m] \in Seq(Nat)
        BY <3>1 DEF KInv, Keyed
      <4>2. \A j \in 1 .. Len(inbox[m]) : inbox[m][j] \in 1 .. Len(sent)
        BY DEF KInv, Entered
      <4>3. i = Len(inbox[m]) + 1 \/ i \in 1 .. Len(inbox[m])
        BY <4>1
      <4>4. QED
        BY <1>1, <3>2, <4>1, <4>2, <4>3
    <3>9. QED
      BY <3>6, <3>7, <3>8
  <2>3. QED
    BY <2>1, <2>2
<1>3. ASSUME NEW m \in Members, NEW i \in 1 .. Len(given[m])
      PROVE  Stood(given[m][i].state.chain, given[m][i].state.counter, given[m][i].after)'
  <2>1. PICK g \in Handed : g = given[m][i]
    <3>1. given[m] \in Seq(Handed)
      BY DEF KInv, Keyed
    <3>2. given[m][i] \in Handed
      BY <3>1
    <3>3. QED
      BY <3>2
  <2>2. g.state.chain \in Nat /\ g.state.counter \in Nat /\ g.after \in Nat
    BY DEF ChainStates, Handed
  <2>3. Stood(g.state.chain, g.state.counter, g.after)
    BY <2>1 DEF KInv, Entered
  <2>4. Stood(g.state.chain, g.state.counter, g.after)'
    BY <2>2, <2>3, StoodStays
  <2>5. given'[m][i] = g
    BY <1>1, <2>1
  <2>6. QED
    BY <2>4, <2>5
<1>4. ASSUME NEW m \in Members
      PROVE  \E k \in Nat :
                /\ got[m] = entered[m] + 1 .. entered[m] + k /\ k <= states[m].counter
                /\ Stood(states[m].chain, states[m].counter - k, entered[m])'
  <2>1. PICK k \in Nat : /\ got[m] = entered[m] + 1 .. entered[m] + k /\ k <= states[m].counter
                         /\ Stood(states[m].chain, states[m].counter - k, entered[m])
    BY DEF KInv, Entered
  <2>2. PICK c \in Nat, n \in Nat, e \in Nat :
           c = states[m].chain /\ n = states[m].counter - k /\ e = entered[m]
    BY <2>1 DEF KInv, Keyed, ChainStates
  <2>3. Stood(c, n, e)'
    BY <2>1, <2>2, StoodStays
  <2>4. c = states'[m].chain /\ n = states'[m].counter - k /\ e = entered'[m]
    BY <1>1, <2>2
  <2>5. QED
    BY <2>1, <2>3, <2>4
<1>5. QED
  BY <1>1, <1>2, <1>3, <1>4 DEF KInv, Entered

\* A distribution carries the place the chain has at the moment.
LEMMA DistributeKeeps ==
    ASSUME KInv, NEW m \in Members, Distribute(m)
    PROVE  KInv'
<1> DEFINE g == [state |-> own, after |-> Len(sent)]
<1>1. /\ given' = [given EXCEPT ![m] = Append(@, g)]
      /\ UNCHANGED <<own, sent, inbox, states, entered, got>>
  BY DEF Distribute, BuildDistribution
<1>2. g \in Handed /\ g.state = own /\ g.after = Len(sent)
  BY DEF KInv, Keyed, Handed
<1> HIDE DEF g
<1>3. Keyed'
  BY <1>1, <1>2 DEF KInv, Keyed
<1>4. ASSUME NEW q \in Members, NEW i \in 1 .. Len(given'[q])
      PROVE  Stood(given'[q][i].state.chain, given'[q][i].state.counter, given'[q][i].after)
  <2>1. given[q] \in Seq(Handed)
    BY DEF KInv, Keyed
  <2>2. CASE given'[q][i] = g
    BY <1>2, <2>2 DEF KInv, Entered
  <2>3. CASE i \in 1 .. Len(given[q]) /\ given'[q][i] = given[q][i]
    BY <2>3 DEF KInv, Entered
  <2>4. QED
    <3>1. CASE q = m
      <4>1. given'[m] = Append(given[m], g)
        BY <1>1 DEF KInv, Keyed
      <4>2. QED
        BY <1>2, <2>1, <2>2, <2>3, <3>1, <4>1
    <3>2. CASE q # m
      BY <1>1, <2>3, <3>2 DEF KInv, Keyed
    <3>3. QED
      BY <3>1, <3>2
<1>5. Entered'
  BY <1>1, <1>4 DEF KInv, Entered, Stood, StoodIn
<1>6. QED
  BY <1>3, <1>5 DEF KInv

\* What is left of a queue is what stood one place further.
LEMMA RestOf ==
    ASSUME NEW S, NEW w \in Seq(S), w # <<>>, NEW i \in 1 .. Len(Tail(w))
    PROVE  i + 1 \in 1 .. Len(w) /\ Tail(w)[i] = w[i + 1]
OBVIOUS

\* One member takes something, and what it has then fits the chain.
LEMMA MemberSteps ==
    ASSUME KInv, NEW m \in Members, UNCHANGED <<own, sent>>,
           given' \in [Members -> Seq(Handed)],
           inbox' \in [Members -> Seq(Nat)], states' \in [Members -> ChainStates],
           entered' \in [Members -> Nat], got' \in [Members -> SUBSET Nat],
           \A q \in Members \ {m} :
              /\ given'[q] = given[q] /\ inbox'[q] = inbox[q] /\ states'[q] = states[q]
              /\ entered'[q] = entered[q] /\ got'[q] = got[q],
           given'[m] \in {given[m], Tail(given[m])}, given'[m] # given[m] => given[m] # <<>>,
           inbox'[m] \in {inbox[m], Tail(inbox[m])}, inbox'[m] # inbox[m] => inbox[m] # <<>>,
           \E k \in Nat : /\ got'[m] = entered'[m] + 1 .. entered'[m] + k
                          /\ k <= states'[m].counter
                          /\ Stood(states'[m].chain, states'[m].counter - k, entered'[m])
    PROVE  KInv'
<1>1. Keyed'
  BY DEF KInv, Keyed
<1>2. /\ given[m] \in Seq(Handed) /\ inbox[m] \in Seq(Nat)
  BY DEF KInv, Keyed
<1>3. \A i \in 1 .. Len(inbox'[m]) : \E j \in 1 .. Len(inbox[m]) : inbox'[m][i] = inbox[m][j]
  <2>1. CASE inbox'[m] = inbox[m]
    BY <2>1
  <2>2. CASE inbox[m] # <<>> /\ inbox'[m] = Tail(inbox[m])
    <3>1. SUFFICES ASSUME NEW i \in 1 .. Len(inbox'[m])
                   PROVE  \E j \in 1 .. Len(inbox[m]) : inbox'[m][i] = inbox[m][j]
      OBVIOUS
    <3>2. i + 1 \in 1 .. Len(inbox[m]) /\ inbox'[m][i] = inbox[m][i + 1]
      <4>1. inbox[m] \in Seq(Nat) /\ inbox[m] # <<>> /\ i \in 1 .. Len(Tail(inbox[m]))
        BY <1>2, <2>2
      <4>2. i + 1 \in 1 .. Len(inbox[m]) /\ Tail(inbox[m])[i] = inbox[m][i + 1]
        BY ONLY <4>1, RestOf
      <4>3. QED
        BY <2>2, <4>2
    <3>3. QED
      BY <3>2
  <2>3. QED
    BY <2>1, <2>2
<1>4. \A i \in 1 .. Len(given'[m]) : \E j \in 1 .. Len(given[m]) : given'[m][i] = given[m][j]
  <2>1. CASE given'[m] = given[m]
    BY <2>1
  <2>2. CASE given[m] # <<>> /\ given'[m] = Tail(given[m])
    <3>1. SUFFICES ASSUME NEW i \in 1 .. Len(given'[m])
                   PROVE  \E j \in 1 .. Len(given[m]) : given'[m][i] = given[m][j]
      OBVIOUS
    <3>2. i + 1 \in 1 .. Len(given[m]) /\ given'[m][i] = given[m][i + 1]
      <4>1. given[m] \in Seq(Handed) /\ given[m] # <<>> /\ i \in 1 .. Len(Tail(given[m]))
        BY <1>2, <2>2
      <4>2. i + 1 \in 1 .. Len(given[m]) /\ Tail(given[m])[i] = given[m][i + 1]
        BY ONLY <4>1, RestOf
      <4>3. QED
        BY <2>2, <4>2
    <3>3. QED
      BY <3>2
  <2>3. QED
    BY <2>1, <2>2
<1>5. Entered'
  <2>1. ASSUME NEW q \in Members
        PROVE  /\ \A i \in 1 .. Len(inbox'[q]) : inbox'[q][i] \in 1 .. Len(sent')
               /\ \A i \in 1 .. Len(given'[q]) :
                     StoodIn(own', sent', given'[q][i].state.chain,
                             given'[q][i].state.counter, given'[q][i].after)
               /\ \E k \in Nat :
                     /\ got'[q] = entered'[q] + 1 .. entered'[q] + k /\ k <= states'[q].counter
                     /\ StoodIn(own', sent', states'[q].chain, states'[q].counter - k, entered'[q])
    <3>1. CASE q = m
      <4>1. \A i \in 1 .. Len(inbox[m]) : inbox[m][i] \in 1 .. Len(sent)
        BY DEF KInv, Entered
      <4>2. \A i \in 1 .. Len(given[m]) :
               StoodIn(own, sent, given[m][i].state.chain, given[m][i].state.counter,
                       given[m][i].after)
        BY DEF KInv, Entered, Stood
      <4>3. \A i \in 1 .. Len(inbox'[m]) : inbox'[m][i] \in 1 .. Len(sent')
        BY <1>3, <4>1
      <4>4. \A i \in 1 .. Len(given'[m]) :
               StoodIn(own', sent', given'[m][i].state.chain, given'[m][i].state.counter,
                       given'[m][i].after)
        BY <1>4, <4>2
      <4>5. \E k \in Nat :
               /\ got'[m] = entered'[m] + 1 .. entered'[m] + k /\ k <= states'[m].counter
               /\ StoodIn(own', sent', states'[m].chain, states'[m].counter - k, entered'[m])
        BY DEF Stood
      <4>6. QED
        BY <3>1, <4>3, <4>4, <4>5
    <3>2. CASE q # m
      BY <3>2 DEF KInv, Entered, Stood
    <3>3. QED
      BY <3>1, <3>2
  <2>2. StoodIn(own', sent', own'.chain, own'.counter, Len(sent'))
    BY DEF KInv, Entered, Stood
  <2>3. QED
    BY <2>1, <2>2 DEF Entered, Stood
<1>6. QED
  BY <1>1, <1>5 DEF KInv

\* A member that is given a chain has read nothing with it yet.
LEMMA ApplyKeeps ==
    ASSUME KInv, NEW m \in Members, ApplyDistribution(m)
    PROVE  KInv'
<1> DEFINE g == Head(given[m])
<1>1. /\ given[m] # <<>>
      /\ states' = [states EXCEPT ![m] = g.state]
      /\ entered' = [entered EXCEPT ![m] = g.after]
      /\ got' = [got EXCEPT ![m] = {}]
      /\ given' = [given EXCEPT ![m] = Tail(@)]
      /\ UNCHANGED <<own, sent, inbox>>
  BY DEF ApplyDistribution
<1>2. given[m] \in Seq(Handed)
  BY DEF KInv, Keyed
<1>3. 1 \in 1 .. Len(given[m]) /\ g = given[m][1] /\ g \in Handed
  BY <1>1, <1>2
<1>4. Stood(g.state.chain, g.state.counter, g.after)
  BY <1>3 DEF KInv, Entered
<1>5. g.state \in ChainStates /\ g.after \in Nat /\ g.state.counter \in Nat
  BY <1>3 DEF ChainStates, Handed
<1> HIDE DEF g
<1>6. states'[m] = g.state /\ entered'[m] = g.after
  BY <1>1 DEF KInv, Keyed
<1>7. got'[m] = entered'[m] + 1 .. entered'[m] + 0
  BY <1>1, <1>5, <1>6 DEF KInv, Keyed
<1>8. states'[m].counter - 0 = g.state.counter /\ 0 <= states'[m].counter
  BY <1>5, <1>6
<1>9. \E k \in Nat : /\ got'[m] = entered'[m] + 1 .. entered'[m] + k
                     /\ k <= states'[m].counter
                     /\ Stood(states'[m].chain, states'[m].counter - k, entered'[m])
  BY <1>4, <1>6, <1>7, <1>8
<1>10. given'[m] = Tail(given[m]) /\ inbox'[m] = inbox[m]
  BY <1>1 DEF KInv, Keyed
<1>11. /\ given' \in [Members -> Seq(Handed)] /\ inbox' \in [Members -> Seq(Nat)]
       /\ states' \in [Members -> ChainStates] /\ entered' \in [Members -> Nat]
       /\ got' \in [Members -> SUBSET Nat]
  BY <1>1, <1>2, <1>5 DEF KInv, Keyed
<1>12. \A q \in Members \ {m} :
          /\ given'[q] = given[q] /\ inbox'[q] = inbox[q] /\ states'[q] = states[q]
          /\ entered'[q] = entered[q] /\ got'[q] = got[q]
  BY <1>1 DEF KInv, Keyed
<1>13. QED
  BY <1>1, <1>9, <1>10, <1>11, <1>12, MemberSteps

\* Which messages a member reads.
LEMMA ReadsNext ==
    ASSUME KInv, NEW m \in Members, NEW n \in 1 .. Len(sent), NEW k \in Nat,
           got[m] = entered[m] + 1 .. entered[m] + k, k <= states[m].counter,
           Stood(states[m].chain, states[m].counter - k, entered[m])
    PROVE  Readable(m, n) <=> sent[n].chain = states[m].chain /\ n = entered[m] + k + 1
<1>1. sent[n] \in ChainStates /\ states[m] \in ChainStates /\ entered[m] \in Nat /\ n \in Nat
  <2>1. sent \in Seq(ChainStates) /\ states \in [Members -> ChainStates] /\ entered \in [Members -> Nat]
    BY DEF KInv, Keyed
  <2>2. QED
    BY <2>1
<1>2. Readable(m, n) <=> /\ sent[n].chain = states[m].chain
                         /\ sent[n].counter = states[m].counter
  BY <1>1 DEF Readable, ChainStates
<1>3. sent[n].counter \in Nat /\ states[m].counter \in Nat
  BY <1>1 DEF ChainStates
<1>4. sent[n].chain = states[m].chain =>
         IF n > entered[m]
         THEN sent[n].counter = (states[m].counter - k) + (n - entered[m] - 1)
         ELSE sent[n].counter < states[m].counter - k
  BY DEF Stood, StoodIn
<1>5. CASE sent[n].chain = states[m].chain /\ n > entered[m]
  <2>1. sent[n].counter = (states[m].counter - k) + (n - entered[m] - 1)
    BY <1>4, <1>5
  <2>2. PICK c \in Nat, s \in Nat, e \in Nat, i \in Nat :
           c = sent[n].counter /\ s = states[m].counter /\ e = entered[m] /\ i = n
    BY <1>1, <1>3
  <2>3. sent[n].counter = states[m].counter <=> n = entered[m] + k + 1
    <3>1. c = (s - k) + (i - e - 1)
      BY <2>1, <2>2
    <3>2. c = s <=> i = e + k + 1
      BY ONLY <3>1, c \in Nat, s \in Nat, e \in Nat, i \in Nat, k \in Nat
    <3>3. QED
      BY <2>2, <3>2
  <2>4. QED
    BY <1>2, <1>5, <2>3
<1>6. CASE sent[n].chain = states[m].chain /\ ~(n > entered[m])
  <2>1. sent[n].counter < states[m].counter - k
    BY <1>4, <1>6
  <2>2. sent[n].counter # states[m].counter /\ n # entered[m] + k + 1
    BY <1>1, <1>3, <1>6, <2>1
  <2>3. QED
    BY <1>2, <2>2
<1>7. QED
  BY <1>2, <1>5, <1>6

\* A member reads the message that is due, or loses one, or cannot read it.
LEMMA DecryptKeeps ==
    ASSUME KInv, NEW m \in Members, Decrypt(m) \/ Lose(m)
    PROVE  KInv'
<1> DEFINE n == Head(inbox[m])
<1>1. /\ inbox[m] # <<>> /\ inbox' = [inbox EXCEPT ![m] = Tail(@)]
      /\ UNCHANGED <<own, sent, given, entered>>
  BY DEF Decrypt, Lose
<1>2. inbox[m] \in Seq(Nat) /\ states[m] \in ChainStates /\ entered[m] \in Nat
  BY DEF KInv, Keyed
<1>3. n \in 1 .. Len(sent)
  <2>1. 1 \in 1 .. Len(inbox[m]) /\ n = inbox[m][1]
    BY <1>1, <1>2
  <2>2. QED
    BY <2>1 DEF KInv, Entered
<1> HIDE DEF n
<1>4. PICK k \in Nat : /\ got[m] = entered[m] + 1 .. entered[m] + k /\ k <= states[m].counter
                       /\ Stood(states[m].chain, states[m].counter - k, entered[m])
  BY DEF KInv, Entered
<1>5. \/ states' = states /\ got' = got
      \/ /\ Readable(m, n)
         /\ states' = [states EXCEPT ![m] = [chain |-> @.chain, counter |-> @.counter + 1]]
         /\ got' = [got EXCEPT ![m] = @ \cup {n}]
  <2>1. CASE Lose(m) \/ ~Readable(m, n)
    BY <2>1 DEF Lose, Decrypt, n
  <2>2. CASE Decrypt(m) /\ Readable(m, n)
    BY <2>2 DEF Decrypt, Derived, n
  <2>3. QED
    BY <2>1, <2>2
<1>6. /\ states' \in [Members -> ChainStates] /\ got' \in [Members -> SUBSET Nat]
      /\ \A q \in Members \ {m} : states'[q] = states[q] /\ got'[q] = got[q]
  <2>1. CASE states' = states /\ got' = got
    BY <2>1 DEF KInv, Keyed
  <2>2. CASE states' # states \/ got' # got
    <3>1. [chain |-> states[m].chain, counter |-> states[m].counter + 1] \in ChainStates
      BY <1>2 DEF ChainStates
    <3>2. /\ states' = [states EXCEPT ![m] = [chain |-> @.chain, counter |-> @.counter + 1]]
          /\ got' = [got EXCEPT ![m] = @ \cup {n}]
      BY <1>5, <2>2
    <3>3. states' \in [Members -> ChainStates] /\ \A q \in Members \ {m} : states'[q] = states[q]
      BY <3>1, <3>2 DEF KInv, Keyed
    <3>4. got' \in [Members -> SUBSET Nat] /\ \A q \in Members \ {m} : got'[q] = got[q]
      BY <1>3, <3>2 DEF KInv, Keyed
    <3>5. QED
      BY <3>3, <3>4
  <2>3. QED
    BY <2>1, <2>2
<1>7. \E j \in Nat : /\ got'[m] = entered'[m] + 1 .. entered'[m] + j
                     /\ j <= states'[m].counter
                     /\ Stood(states'[m].chain, states'[m].counter - j, entered'[m])
  <2>1. CASE states' = states /\ got' = got
    BY <1>1, <1>4, <2>1
  <2>2. CASE states' # states \/ got' # got
    <3>1. /\ Readable(m, n) /\ got'[m] = got[m] \cup {n}
          /\ states'[m] = [chain |-> states[m].chain, counter |-> states[m].counter + 1]
      BY <1>5, <2>2 DEF KInv, Keyed
    <3>2. n = entered[m] + k + 1
      BY <1>3, <1>4, <3>1, ReadsNext
    <3>3. got'[m] = entered[m] + 1 .. entered[m] + (k + 1)
      BY <1>2, <1>4, <3>1, <3>2
    <3>4. /\ states'[m].chain = states[m].chain /\ states[m].counter \in Nat
          /\ states'[m].counter = states[m].counter + 1
      BY <1>2, <3>1 DEF ChainStates
    <3>5. states'[m].counter - (k + 1) = states[m].counter - k /\ k + 1 <= states'[m].counter
      BY <1>4, <3>4
    <3>6. QED
      BY <1>1, <1>4, <3>3, <3>4, <3>5
  <2>3. QED
    BY <2>1, <2>2
<1>8. /\ inbox' \in [Members -> Seq(Nat)] /\ inbox'[m] = Tail(inbox[m])
      /\ \A q \in Members \ {m} : inbox'[q] = inbox[q]
  BY <1>1, <1>2 DEF KInv, Keyed
<1>9. given' \in [Members -> Seq(Handed)] /\ entered' \in [Members -> Nat]
  BY <1>1 DEF KInv, Keyed
<1>10. QED
  BY <1>1, <1>6, <1>7, <1>8, <1>9, MemberSteps

\* Every step of the group keeps it.
LEMMA NextKInv == KInv /\ [SenderKeysNext]_senderKeyVars => KInv'
<1> SUFFICES ASSUME KInv, [SenderKeysNext]_senderKeyVars PROVE KInv'
  OBVIOUS
<1>1. CASE UNCHANGED senderKeyVars
  BY <1>1 DEF senderKeyVars, KInv, Keyed, Entered, Stood, StoodIn
<1>2. CASE CreateSenderKey \/ Say
  BY <1>2, CreateSayKeep
<1>3. ASSUME NEW m \in Members, Distribute(m) \/ ApplyDistribution(m) \/ Decrypt(m) \/ Lose(m)
      PROVE  KInv'
  BY <1>3, DistributeKeeps, ApplyKeeps, DecryptKeeps
<1>4. QED
  BY <1>1, <1>2, <1>3 DEF SenderKeysNext

\* A member reads what is said from its entering on, and nothing from before,
\* until it misses a message, for any number of members, chains, messages and
\* distributions (build_distribution, apply_distribution, decrypt_group_message).
THEOREM MembersRead == SenderKeysSpec => []ReadsFromEntering
<1>1. ASSUME KInv PROVE ReadsFromEntering
  <2>1. SUFFICES ASSUME NEW m \in Members, NEW n \in ToSet(inbox[m])
                 PROVE  Readable(m, n) <=>
                           /\ n > entered[m] /\ sent[n].chain = states[m].chain
                           /\ entered[m] + 1 .. n - 1 = got[m]
    BY DEF ReadsFromEntering
  <2>2. inbox[m] \in Seq(Nat) /\ entered[m] \in Nat /\ sent \in Seq(ChainStates)
    <3>1. inbox \in [Members -> Seq(Nat)] /\ entered \in [Members -> Nat]
      BY <1>1 DEF KInv, Keyed
    <3>2. sent \in Seq(ChainStates)
      BY <1>1 DEF KInv, Keyed
    <3>3. QED
      BY <3>1, <3>2
  <2>3. PICK i \in 1 .. Len(inbox[m]) : n = inbox[m][i]
    <3>1. DOMAIN inbox[m] = 1 .. Len(inbox[m])
      BY <2>2
    <3>2. \E i \in DOMAIN inbox[m] : n = inbox[m][i]
      BY DEF ToSet
    <3>3. QED
      BY <3>1, <3>2
  <2>4. n \in 1 .. Len(sent) /\ n \in Nat
    <3>1. \A j \in 1 .. Len(inbox[m]) : inbox[m][j] \in 1 .. Len(sent)
      BY <1>1 DEF KInv, Entered
    <3>2. Len(sent) \in Nat
      BY <2>2
    <3>3. QED
      BY <2>3, <3>1, <3>2
  <2>5. PICK k \in Nat : /\ got[m] = entered[m] + 1 .. entered[m] + k /\ k <= states[m].counter
                         /\ Stood(states[m].chain, states[m].counter - k, entered[m])
    BY <1>1 DEF KInv, Entered
  <2>6. Readable(m, n) <=> sent[n].chain = states[m].chain /\ n = entered[m] + k + 1
    BY <1>1, <2>4, <2>5, ReadsNext
  <2>7. ASSUME n > entered[m]
        PROVE  entered[m] + 1 .. n - 1 = entered[m] + 1 .. entered[m] + k
                  <=> n = entered[m] + k + 1
    <3>1. ASSUME NEW e \in Nat, NEW a \in Nat, NEW b \in Nat, a >= e, b >= e,
                 e + 1 .. a = e + 1 .. b
          PROVE  a = b
      <4>1. a > e => a \in e + 1 .. b
        BY <3>1
      <4>2. b > e => b \in e + 1 .. a
        BY <3>1
      <4>3. QED
        BY <3>1, <4>1, <4>2
    <3>2. n - 1 \in Nat /\ n - 1 >= entered[m] /\ entered[m] + k \in Nat /\ entered[m] + k >= entered[m]
      BY <2>2, <2>4, <2>5, <2>7
    <3>3. entered[m] + 1 .. n - 1 = entered[m] + 1 .. entered[m] + k => n - 1 = entered[m] + k
      BY <2>2, <3>1, <3>2
    <3>4. QED
      BY <2>2, <2>4, <2>5, <3>3
  <2>8. QED
    BY <2>2, <2>4, <2>5, <2>6, <2>7
<1>2. QED
  BY <1>1, InitKInv, NextKInv, PTL DEF SenderKeysSpec

-----------------------------------------------------------------------------
(* BotService: the room of the bot is a conversation. *)

ServedRequests ==
    [at : {"none", "body", "reporting", "asking", "pause", "lookup", "create", "question", "reply"},
     user : BotUsers \cup {0}, n : Nat, tries : Nat, asks : BOOLEAN]
Stored == [by : {"user", "bot"}, n : Nat]
Told == [n : Nat, question : BOOLEAN, reply : BOOLEAN]

Busy(s) == serving[s].at # "none"
Question(n) == [by |-> "user", n |-> n]

Chatting ==
    /\ serving \in [Slots -> ServedRequests] /\ exchanges \in Nat
    /\ history \in [BotUsers -> Seq(Stored)] /\ told \subseteq Told

\* An exchange is served in one place and answered once.
Numbered ==
    /\ \A s \in Slots : Busy(s) =>
          /\ serving[s].user \in BotUsers /\ serving[s].n <= exchanges
          /\ \A q \in Slots : Busy(q) /\ serving[q].n = serving[s].n => q = s
    /\ \A t \in told : t.n <= exchanges /\ \A s \in Slots : Busy(s) => serving[s].n # t.n

\* What is stored is of exchanges that were let through; of one that is still
\* being served it is the question, and it is there before the reply is due.
StoredSoFar ==
    /\ \A u \in BotUsers : \A i \in DOMAIN history[u] :
          /\ history[u][i].n <= exchanges
          /\ \A s \in Slots : Busy(s) /\ serving[s].n = history[u][i].n =>
                serving[s].at = "reply" /\ history[u][i].by = "user"
    /\ \A s \in Slots : serving[s].at = "reply" /\ serving[s].asks =>
          \E j \in DOMAIN history[serving[s].user] :
             history[serving[s].user][j] = Question(serving[s].n)

BInv == Chatting /\ Numbered /\ StoredSoFar /\ ExchangesInOrder

\* It holds while nobody has asked anything.
LEMMA InitBInv == BotInit => BInv
<1> SUFFICES ASSUME BotInit PROVE BInv
  OBVIOUS
<1>1. Chatting
  BY DEF BotInit, Chatting, NoRequest, ServedRequests
<1>2. Numbered /\ StoredSoFar
  BY DEF BotInit, Numbered, StoredSoFar, Busy, NoRequest
<1>3. ExchangesInOrder
  BY DEF BotInit, ExchangesInOrder
<1>4. QED
  BY <1>1, <1>2, <1>3 DEF BInv

\* A request ends, or goes on before anything of it is stored.
LEMMA RequestGoesOn ==
    ASSUME BInv, NEW s \in Slots, NEW r \in ServedRequests, serving' = [serving EXCEPT ![s] = r],
           UNCHANGED <<exchanges, history, told>>,
           \/ r.at = "none"
           \/ /\ Busy(s) /\ serving[s].at # "reply" /\ r.user = serving[s].user /\ r.n = serving[s].n
              /\ r.at = "reply" => ~r.asks
    PROVE  BInv'
<1>1. Chatting'
  BY DEF BInv, Chatting
<1>2. Numbered'
  BY DEF BInv, Chatting, Numbered, Busy
<1>3. StoredSoFar'
  <2>1. \A q \in Slots : serving'[q] = IF q = s THEN r ELSE serving[q]
    BY DEF BInv, Chatting
  <2>2. \A u \in BotUsers : \A i \in DOMAIN history[u] :
           /\ history[u][i].n <= exchanges
           /\ \A q \in Slots : Busy(q)' /\ serving'[q].n = history[u][i].n =>
                 serving'[q].at = "reply" /\ history[u][i].by = "user"
    BY <2>1 DEF BInv, StoredSoFar, Busy
  <2>3. \A q \in Slots : serving'[q].at = "reply" /\ serving'[q].asks =>
           \E j \in DOMAIN history[serving'[q].user] :
              history[serving'[q].user][j] = Question(serving'[q].n)
    BY <2>1 DEF BInv, StoredSoFar
  <2>4. QED
    BY <2>2, <2>3 DEF StoredSoFar, Busy, Question
<1>4. ExchangesInOrder'
  BY DEF BInv, ExchangesInOrder
<1>5. QED
  BY <1>1, <1>2, <1>3, <1>4 DEF BInv

\* What a slot holds is a request, or none.
LEMMA ServedFacts ==
    ASSUME BInv, NEW s \in Slots
    PROVE  /\ serving[s] \in ServedRequests /\ serving[s].n \in Nat /\ serving[s].asks \in BOOLEAN
           /\ NoRequest \in ServedRequests /\ NoRequest.at = "none"
BY DEF BInv, Chatting, ServedRequests, NoRequest

\* The steps of handle_bot_chat before the exchange is stored keep it.
LEMMA StepsKeep ==
    ASSUME BInv, BotAssumption, NEW s \in Slots,
           \/ BodyArrives(s) \/ Reported(s) \/ Retry(s) \/ AskAgain(s) \/ ModelFails(s)
           \/ ModelAnswers(s) \/ LookUpRoom(s) \/ CreateRoom(s)
    PROVE  BInv'
<1> DEFINE At(at) == [serving[s] EXCEPT !.at = at]
<1>1. UNCHANGED <<exchanges, history, told>>
  BY DEF BodyArrives, Reported, Retry, AskAgain, ModelFails, ModelAnswers, LookUpRoom, CreateRoom,
         gateVars, storeVars
<1>2. ASSUME serving' = [serving EXCEPT ![s] = NoRequest] PROVE BInv'
  BY <1>1, <1>2, ServedFacts, RequestGoesOn
<1>3. ASSUME NEW at \in {"reporting", "pause", "lookup", "create", "question", "reply"},
             serving' = AtStep(s, at), Busy(s), serving[s].at # "reply",
             at = "reply" => ~serving[s].asks
      PROVE  BInv'
  <2>1. serving' = [serving EXCEPT ![s] = At(at)]
    BY <1>3 DEF AtStep
  <2>2. /\ At(at) \in ServedRequests /\ At(at).at = at /\ At(at).user = serving[s].user
        /\ At(at).n = serving[s].n /\ At(at).asks = serving[s].asks
    BY ServedFacts DEF ServedRequests
  <2> HIDE DEF At
  <2>3. QED
    BY <1>1, <1>3, <2>1, <2>2, RequestGoesOn
<1>4. CASE BodyArrives(s)
  <2>1. CASE \E spoke \in BOOLEAN : serving' = [serving EXCEPT ![s].at = "asking", ![s].asks = spoke]
    <3>1. PICK spoke \in BOOLEAN : serving' = [serving EXCEPT ![s].at = "asking", ![s].asks = spoke]
      BY <2>1
    <3> DEFINE r == [serving[s] EXCEPT !.at = "asking", !.asks = spoke]
    <3>2. serving' = [serving EXCEPT ![s] = r] /\ serving[s].at = "body"
      BY <1>4, <3>1 DEF BodyArrives
    <3>3. /\ r \in ServedRequests /\ r.at = "asking" /\ r.user = serving[s].user
          /\ r.n = serving[s].n
      BY ServedFacts DEF ServedRequests
    <3> HIDE DEF r
    <3>4. QED
      BY <1>1, <3>2, <3>3, RequestGoesOn DEF Busy
  <2>2. QED
    BY <1>2, <1>3, <1>4, <2>1 DEF BodyArrives, Busy
<1>5. CASE AskAgain(s)
  <2> DEFINE r == [serving[s] EXCEPT !.at = "asking", !.tries = serving[s].tries + 1]
  <2>1. serving' = [serving EXCEPT ![s] = r] /\ serving[s].at = "pause"
    BY <1>5 DEF AskAgain
  <2>2. r \in ServedRequests /\ r.at = "asking" /\ r.user = serving[s].user /\ r.n = serving[s].n
    <3>1. serving[s].tries + 1 \in Nat
      BY ServedFacts DEF ServedRequests
    <3>2. QED
      BY <3>1, ServedFacts DEF ServedRequests
  <2> HIDE DEF r
  <2>3. QED
    BY <1>1, <2>1, <2>2, RequestGoesOn DEF Busy
<1>6. CASE Reported(s) \/ ModelFails(s)
  BY <1>2, <1>6 DEF Reported, ModelFails
<1>7. CASE Retry(s) \/ ModelAnswers(s)
  BY <1>3, <1>7 DEF Retry, ModelAnswers, Busy
<1>8. CASE LookUpRoom(s) \/ CreateRoom(s)
  BY <1>3, <1>8 DEF LookUpRoom, CreateRoom, FirstWrite, Busy
<1>9. QED
  BY <1>4, <1>5, <1>6, <1>7, <1>8

\* A request that the gate lets through has a number of its own, one that it stops
\* changes nothing.
LEMMA ArriveKeeps ==
    ASSUME BInv, NEW s \in Slots, NEW u \in BotUsers, Arrive(s, u)
    PROVE  BInv'
<1>1. CASE ~Allowed(u)
  BY <1>1 DEF Arrive, storeVars, BInv, Chatting, Numbered, StoredSoFar, ExchangesInOrder, Busy, Question
<1>2. CASE Allowed(u)
  <2> DEFINE r == [at |-> "body", user |-> u, n |-> exchanges + 1, tries |-> 0, asks |-> FALSE]
  <2>1. serving' = [serving EXCEPT ![s] = r] /\ exchanges' = exchanges + 1 /\ UNCHANGED <<history, told>>
    BY <1>2 DEF Arrive, storeVars
  <2>2. exchanges \in Nat
    BY DEF BInv, Chatting
  <2>3. r \in ServedRequests /\ r.at = "body" /\ r.user = u /\ r.n = exchanges + 1
    BY <2>2 DEF ServedRequests
  <2> HIDE DEF r
  <2>4. /\ \A q \in Slots : serving[q].n \in Nat
        /\ \A t \in told : t.n \in Nat
        /\ \A v \in BotUsers : \A i \in DOMAIN history[v] : history[v][i].n \in Nat
    <3>1. \A v \in BotUsers : history[v] \in Seq(Stored)
      BY DEF BInv, Chatting
    <3>2. \A v \in BotUsers : \A i \in DOMAIN history[v] : history[v][i] \in Stored
      BY <3>1
    <3>3. QED
      BY <3>2 DEF BInv, Chatting, ServedRequests, Told, Stored
  <2>5. Chatting'
    BY <2>1, <2>2, <2>3 DEF BInv, Chatting
  <2>6. \A q \in Slots : serving'[q] = IF q = s THEN r ELSE serving[q]
    BY <2>1 DEF BInv, Chatting
  <2>7. Numbered'
    <3>1. \A q \in Slots : Busy(q)' =>
             /\ serving'[q].user \in BotUsers /\ serving'[q].n <= exchanges'
             /\ \A p \in Slots : Busy(p)' /\ serving'[p].n = serving'[q].n => p = q
      BY <2>1, <2>2, <2>3, <2>4, <2>6 DEF BInv, Numbered, Busy
    <3>2. \A t \in told' : t.n <= exchanges' /\ \A q \in Slots : Busy(q)' => serving'[q].n # t.n
      BY <2>1, <2>2, <2>3, <2>4, <2>6 DEF BInv, Numbered, Busy
    <3>3. QED
      BY <3>1, <3>2 DEF Numbered, Busy
  <2>8. StoredSoFar'
    <3>1. \A v \in BotUsers : \A i \in DOMAIN history'[v] :
             /\ history'[v][i].n <= exchanges'
             /\ \A q \in Slots : Busy(q)' /\ serving'[q].n = history'[v][i].n =>
                   serving'[q].at = "reply" /\ history'[v][i].by = "user"
      BY <2>1, <2>2, <2>3, <2>4, <2>6 DEF BInv, StoredSoFar, Busy
    <3>2. \A q \in Slots : serving'[q].at = "reply" /\ serving'[q].asks =>
             \E j \in DOMAIN history'[serving'[q].user] :
                history'[serving'[q].user][j] = Question(serving'[q].n)
      BY <2>1, <2>3, <2>6 DEF BInv, StoredSoFar
    <3>3. QED
      BY <3>1, <3>2 DEF StoredSoFar, Busy, Question
  <2>9. ExchangesInOrder'
    BY <2>1 DEF BInv, ExchangesInOrder
  <2>10. QED
    BY <2>5, <2>7, <2>8, <2>9 DEF BInv
<1>3. QED
  BY <1>1, <1>2

\* An entry at the end of a room.
LEMMA WrittenLast ==
    ASSUME BInv, NEW u \in BotUsers, NEW e \in Stored,
           history' = [history EXCEPT ![u] = Append(@, e)]
    PROVE  /\ history' \in [BotUsers -> Seq(Stored)]
           /\ DOMAIN history'[u] = DOMAIN history[u] \cup {Len(history[u]) + 1}
           /\ history'[u][Len(history[u]) + 1] = e
           /\ \A i \in DOMAIN history[u] : history'[u][i] = history[u][i] /\ i < Len(history[u]) + 1
           /\ \A v \in BotUsers \ {u} : history'[v] = history[v]
<1>1. history[u] \in Seq(Stored) /\ Len(history[u]) \in Nat /\ DOMAIN history[u] = 1 .. Len(history[u])
  BY DEF BInv, Chatting
<1>2. history'[u] = Append(history[u], e) /\ \A v \in BotUsers \ {u} : history'[v] = history[v]
  BY DEF BInv, Chatting
<1>3. history' \in [BotUsers -> Seq(Stored)]
  BY <1>1 DEF BInv, Chatting
<1>4. QED
  BY <1>1, <1>2, <1>3

\* Storing a question: nothing of its exchange was in the room before.
LEMMA QuestionKeeps ==
    ASSUME BInv, NEW s \in Slots, SaveQuestion(s)
    PROVE  BInv'
<1> DEFINE u == serving[s].user
           k == serving[s].n
           e == [by |-> "user", n |-> serving[s].n]
           r == [serving[s] EXCEPT !.at = "reply"]
           len == Len(history[serving[s].user])
<1>1. /\ serving[s].at = "question" /\ history' = [history EXCEPT ![u] = Append(@, e)]
      /\ serving' = [serving EXCEPT ![s] = r] /\ UNCHANGED <<exchanges, told>>
  BY DEF SaveQuestion, Write, AtStep, gateVars
<1>2. u \in BotUsers /\ k \in Nat /\ k <= exchanges
  BY <1>1, ServedFacts DEF BInv, Numbered, Busy
<1>3. e \in Stored /\ e = Question(k) /\ e.by = "user" /\ e.n = k
  BY <1>2 DEF Stored, Question
<1>4. /\ r \in ServedRequests /\ r.at = "reply" /\ r.user = u /\ r.n = k
  BY ServedFacts DEF ServedRequests
<1> HIDE DEF u, k, e, r
<1>5. PICK l : /\ history' \in [BotUsers -> Seq(Stored)]
               /\ DOMAIN history'[u] = DOMAIN history[u] \cup {l} /\ history'[u][l] = e
               /\ \A i \in DOMAIN history[u] : history'[u][i] = history[u][i] /\ i < l
               /\ \A v \in BotUsers \ {u} : history'[v] = history[v]
  BY <1>1, <1>2, <1>3, WrittenLast
<1>6. \A v \in BotUsers : \A i \in DOMAIN history[v] : history[v][i].n # k
  BY <1>1 DEF BInv, StoredSoFar, Busy, k
<1>7. \A q \in Slots : serving'[q] = IF q = s THEN r ELSE serving[q]
  BY <1>1 DEF BInv, Chatting
<1>8. Busy(s) /\ \A q \in Slots : Busy(q)' <=> Busy(q)
  BY <1>1, <1>4, <1>7 DEF Busy
<1>9. \A q \in Slots : serving'[q].n = serving[q].n /\ serving'[q].user = serving[q].user
  BY <1>4, <1>7 DEF u, k
<1>10. Chatting'
  BY <1>1, <1>4, <1>5 DEF BInv, Chatting
<1>11. Numbered'
  BY <1>1, <1>8, <1>9 DEF BInv, Numbered
<1>12. \A v \in BotUsers : \A i \in DOMAIN history'[v] :
          \/ v = u /\ i = l /\ history'[v][i] = e
          \/ i \in DOMAIN history[v] /\ history'[v][i] = history[v][i]
  <2>1. ASSUME NEW v \in BotUsers, NEW i \in DOMAIN history'[v]
        PROVE  \/ v = u /\ i = l /\ history'[v][i] = e
               \/ i \in DOMAIN history[v] /\ history'[v][i] = history[v][i]
    <3>1. CASE v = u
      BY <1>5, <2>1, <3>1
    <3>2. CASE v # u
      BY <1>5, <2>1, <3>2
    <3>3. QED
      BY <3>1, <3>2
  <2>2. QED
    BY <2>1
<1>13. StoredSoFar'
  <2>1. \A v \in BotUsers : \A i \in DOMAIN history'[v] :
           /\ history'[v][i].n <= exchanges'
           /\ \A q \in Slots : Busy(q)' /\ serving'[q].n = history'[v][i].n =>
                 serving'[q].at = "reply" /\ history'[v][i].by = "user"
    <3>1. ASSUME NEW v \in BotUsers, NEW i \in DOMAIN history[v]
          PROVE  /\ history[v][i].n <= exchanges'
                 /\ \A q \in Slots : Busy(q)' /\ serving'[q].n = history[v][i].n =>
                       serving'[q].at = "reply" /\ history[v][i].by = "user"
      BY <1>1, <1>6, <1>7, <1>8, <1>9 DEF BInv, StoredSoFar, k
    <3>2. \A q \in Slots : Busy(q)' /\ serving'[q].n = k => serving'[q].at = "reply"
      <4>1. \A q \in Slots : Busy(q)' /\ serving'[q].n = k => q = s
        BY <1>8, <1>9 DEF BInv, Numbered, k
      <4>2. QED
        BY <1>4, <1>7, <4>1
    <3>3. QED
      BY <1>1, <1>2, <1>3, <1>12, <3>1, <3>2
  <2>2. \A q \in Slots : serving'[q].at = "reply" /\ serving'[q].asks =>
           \E j \in DOMAIN history'[serving'[q].user] :
              history'[serving'[q].user][j] = Question(serving'[q].n)
    <3>1. ASSUME NEW q \in Slots, q # s, serving[q].at = "reply", serving[q].asks
          PROVE  \E j \in DOMAIN history'[serving[q].user] :
                    history'[serving[q].user][j] = Question(serving[q].n)
      <4>1. serving[q].user \in BotUsers
        BY <3>1 DEF BInv, Numbered, Busy
      <4>2. PICK j \in DOMAIN history[serving[q].user] :
               history[serving[q].user][j] = Question(serving[q].n)
        BY <3>1 DEF BInv, StoredSoFar
      <4>3. QED
        BY <1>5, <4>1, <4>2
    <3>2. l \in DOMAIN history'[u] /\ history'[u][l] = Question(k)
      BY <1>3, <1>5
    <3>3. QED
      BY <1>4, <1>7, <3>1, <3>2
  <2>3. QED
    BY <2>1, <2>2 DEF StoredSoFar, Busy, Question
<1>14. ExchangesInOrder'
  <2>1. ASSUME NEW v \in BotUsers, NEW i \in DOMAIN history'[v], history'[v][i].by = "bot"
        PROVE  /\ \A j \in DOMAIN history'[v] : history'[v][j] = Question(history'[v][i].n) => j < i
               /\ \A t \in told : t.n = history'[v][i].n /\ t.question =>
                     \E j \in DOMAIN history'[v] : history'[v][j] = Question(t.n)
    <3>1. i \in DOMAIN history[v] /\ history'[v][i] = history[v][i]
      BY <1>3, <1>12, <2>1
    <3>2. history[v][i].n # k
      BY <1>6, <3>1
    <3>3. \A j \in DOMAIN history'[v] : history'[v][j] = Question(history[v][i].n) =>
             j \in DOMAIN history[v] /\ history[v][j] = Question(history[v][i].n)
      BY <1>3, <1>12, <3>2 DEF Question
    <3>4. \A j \in DOMAIN history[v] : j \in DOMAIN history'[v] /\ history'[v][j] = history[v][j]
      BY <1>5
    <3>5. QED
      BY <2>1, <3>1, <3>3, <3>4 DEF BInv, ExchangesInOrder, Question
  <2>2. QED
    BY <1>1, <2>1 DEF ExchangesInOrder, Question
<1>15. QED
  BY <1>10, <1>11, <1>13, <1>14 DEF BInv

\* An exchange is answered: its number is served no longer.
LEMMA AnswerEnds ==
    ASSUME BInv, NEW s \in Slots, Busy(s), serving' = [serving EXCEPT ![s] = NoRequest],
           UNCHANGED exchanges, NEW t \in Told, t.n = serving[s].n, told' = told \cup {t}
    PROVE  /\ Numbered' /\ told' \subseteq Told /\ serving' \in [Slots -> ServedRequests]
           /\ \A q \in Slots : Busy(q)' => q # s /\ Busy(q) /\ serving'[q] = serving[q]
           /\ \A q \in Slots : Busy(q)' => serving[q].n # serving[s].n
<1>1. serving' \in [Slots -> ServedRequests] /\ told' \subseteq Told
  BY ServedFacts DEF BInv, Chatting
<1>2. \A q \in Slots : Busy(q)' => q # s /\ Busy(q) /\ serving'[q] = serving[q]
  BY ServedFacts DEF BInv, Chatting, Busy
<1>3. \A q \in Slots : Busy(q)' => serving[q].n # serving[s].n
  BY <1>2 DEF BInv, Numbered
<1>4. Numbered'
  <2>1. \A q \in Slots : Busy(q)' =>
           /\ serving'[q].user \in BotUsers /\ serving'[q].n <= exchanges'
           /\ \A p \in Slots : Busy(p)' /\ serving'[p].n = serving'[q].n => p = q
    BY <1>2 DEF BInv, Numbered
  <2>2. \A x \in told' : x.n <= exchanges' /\ \A q \in Slots : Busy(q)' => serving'[q].n # x.n
    BY <1>2, <1>3 DEF BInv, Numbered
  <2>3. QED
    BY <2>1, <2>2 DEF Numbered, Busy
<1>5. QED
  BY <1>1, <1>2, <1>3, <1>4

\* Storing a reply: its question, if there is one, is in the room already, and the
\* exchange is served no longer.
LEMMA ReplyKeeps ==
    ASSUME BInv, NEW s \in Slots, SaveReply(s)
    PROVE  BInv'
<1> DEFINE u == serving[s].user
           k == serving[s].n
           e == [by |-> "bot", n |-> serving[s].n]
           t == [n |-> serving[s].n, question |-> serving[s].asks, reply |-> TRUE]
<1>1. /\ serving[s].at = "reply" /\ history' = [history EXCEPT ![u] = Append(@, e)]
      /\ serving' = [serving EXCEPT ![s] = NoRequest] /\ exchanges' = exchanges
      /\ told' = told \cup {t}
  BY DEF SaveReply, Write, Respond, gateVars
<1>2. u \in BotUsers /\ k \in Nat /\ k <= exchanges /\ Busy(s)
  BY <1>1, ServedFacts DEF BInv, Numbered, Busy
<1>3. e \in Stored /\ e.by = "bot" /\ e.n = k
  BY <1>2 DEF Stored
<1>4. t \in Told /\ t.n = k /\ (t.question <=> serving[s].asks)
  BY <1>2, ServedFacts DEF Told
<1> HIDE DEF u, k, e, t
<1>5. PICK l : /\ history' \in [BotUsers -> Seq(Stored)]
               /\ DOMAIN history'[u] = DOMAIN history[u] \cup {l} /\ history'[u][l] = e
               /\ \A i \in DOMAIN history[u] : history'[u][i] = history[u][i] /\ i < l
               /\ \A v \in BotUsers \ {u} : history'[v] = history[v]
  BY <1>1, <1>2, <1>3, WrittenLast
<1>6. \A v \in BotUsers : \A i \in DOMAIN history[v] : history[v][i].n = k => history[v][i].by = "user"
  BY <1>2 DEF BInv, StoredSoFar, k
<1>7. /\ Numbered' /\ told' \subseteq Told /\ serving' \in [Slots -> ServedRequests]
      /\ \A q \in Slots : Busy(q)' => q # s /\ Busy(q) /\ serving'[q] = serving[q]
      /\ \A q \in Slots : Busy(q)' => serving[q].n # k
  BY <1>1, <1>2, <1>4, AnswerEnds DEF k
<1>8. Chatting'
  BY <1>1, <1>5, <1>7 DEF BInv, Chatting
<1>9. \A v \in BotUsers : \A i \in DOMAIN history'[v] :
         \/ v = u /\ i = l /\ history'[v][i] = e
         \/ i \in DOMAIN history[v] /\ history'[v][i] = history[v][i]
  <2>1. ASSUME NEW v \in BotUsers, NEW i \in DOMAIN history'[v]
        PROVE  \/ v = u /\ i = l /\ history'[v][i] = e
               \/ i \in DOMAIN history[v] /\ history'[v][i] = history[v][i]
    <3>1. CASE v = u
      BY <1>5, <2>1, <3>1
    <3>2. CASE v # u
      BY <1>5, <2>1, <3>2
    <3>3. QED
      BY <3>1, <3>2
  <2>2. QED
    BY <2>1
<1>10. \A v \in BotUsers : \A i \in DOMAIN history[v] : i \in DOMAIN history'[v] /\ history'[v][i] = history[v][i]
  <2>1. ASSUME NEW v \in BotUsers, NEW i \in DOMAIN history[v]
        PROVE  i \in DOMAIN history'[v] /\ history'[v][i] = history[v][i]
    <3>1. CASE v = u
      BY <1>5, <2>1, <3>1
    <3>2. CASE v # u
      BY <1>5, <2>1, <3>2
    <3>3. QED
      BY <3>1, <3>2
  <2>2. QED
    BY <2>1
<1>11. StoredSoFar'
  <2>1. \A v \in BotUsers : \A i \in DOMAIN history'[v] :
           /\ history'[v][i].n <= exchanges'
           /\ \A q \in Slots : Busy(q)' /\ serving'[q].n = history'[v][i].n =>
                 serving'[q].at = "reply" /\ history'[v][i].by = "user"
    <3>1. ASSUME NEW v \in BotUsers, NEW i \in DOMAIN history[v]
          PROVE  /\ history[v][i].n <= exchanges'
                 /\ \A q \in Slots : Busy(q)' /\ serving'[q].n = history[v][i].n =>
                       serving'[q].at = "reply" /\ history[v][i].by = "user"
      BY <1>1, <1>7 DEF BInv, StoredSoFar
    <3>2. QED
      BY <1>1, <1>2, <1>3, <1>7, <1>9, <3>1
  <2>2. \A q \in Slots : serving'[q].at = "reply" /\ serving'[q].asks =>
           \E j \in DOMAIN history'[serving'[q].user] :
              history'[serving'[q].user][j] = Question(serving'[q].n)
    <3>1. ASSUME NEW q \in Slots, serving'[q].at = "reply", serving'[q].asks
          PROVE  \E j \in DOMAIN history'[serving'[q].user] :
                    history'[serving'[q].user][j] = Question(serving'[q].n)
      <4>1. serving'[q] = serving[q] /\ serving[q].user \in BotUsers
        BY <1>7, <3>1 DEF BInv, Numbered, Busy
      <4>2. PICK j \in DOMAIN history[serving[q].user] :
               history[serving[q].user][j] = Question(serving[q].n)
        BY <3>1, <4>1 DEF BInv, StoredSoFar
      <4>3. QED
        BY <1>10, <4>1, <4>2
    <3>2. QED
      BY <3>1
  <2>3. QED
    BY <2>1, <2>2 DEF StoredSoFar, Busy, Question
<1>12. ExchangesInOrder'
  <2>1. ASSUME NEW v \in BotUsers, NEW i \in DOMAIN history'[v], history'[v][i].by = "bot"
        PROVE  /\ \A j \in DOMAIN history'[v] : history'[v][j] = Question(history'[v][i].n) => j < i
               /\ \A x \in told' : x.n = history'[v][i].n /\ x.question =>
                     \E j \in DOMAIN history'[v] : history'[v][j] = Question(x.n)
    <3>1. \A j \in DOMAIN history'[v] : history'[v][j].by = "user" =>
             j \in DOMAIN history[v] /\ history'[v][j] = history[v][j]
      BY <1>3, <1>9
    <3>2. CASE v = u /\ i = l /\ history'[v][i] = e
      <4>1. \A j \in DOMAIN history'[v] : history'[v][j] = Question(k) => j < i
        BY <1>5, <3>1, <3>2 DEF Question
      <4>2. \A x \in told : x.n # k
        BY <1>2 DEF BInv, Numbered, k
      <4>3. ASSUME t.question PROVE \E j \in DOMAIN history'[v] : history'[v][j] = Question(k)
        <5>1. PICK j \in DOMAIN history[u] : history[u][j] = Question(k)
          BY <1>1, <1>4, <4>3 DEF BInv, StoredSoFar, u, k
        <5>2. QED
          BY <1>2, <1>10, <3>2, <5>1
      <4>4. QED
        BY <1>1, <1>3, <1>4, <3>2, <4>1, <4>2, <4>3
    <3>3. CASE i \in DOMAIN history[v] /\ history'[v][i] = history[v][i]
      <4>1. history[v][i].by = "bot" /\ history[v][i].n # k
        BY <1>6, <2>1, <3>3
      <4>2. \A j \in DOMAIN history'[v] : history'[v][j] = Question(history[v][i].n) => j < i
        BY <3>1, <3>3, <4>1 DEF BInv, ExchangesInOrder, Question
      <4>3. \A x \in told : x.n = history[v][i].n /\ x.question =>
               \E j \in DOMAIN history[v] : history[v][j] = Question(x.n)
        BY <3>3, <4>1 DEF BInv, ExchangesInOrder, Question
      <4>4. QED
        BY <1>1, <1>4, <1>10, <3>3, <4>1, <4>2, <4>3
    <3>4. QED
      BY <1>9, <3>2, <3>3
  <2>2. QED
    BY <2>1 DEF ExchangesInOrder, Question
<1>13. QED
  BY <1>7, <1>8, <1>11, <1>12 DEF BInv

\* A store that fails answers with what was stored until then.
LEMMA FailKeeps ==
    ASSUME BInv, NEW s \in Slots, SaveFails(s)
    PROVE  BInv'
<1> DEFINE k == serving[s].n
           t == [n |-> serving[s].n, question |-> serving[s].at = "reply" /\ serving[s].asks,
                 reply |-> FALSE]
<1>1. /\ Busy(s) /\ serving' = [serving EXCEPT ![s] = NoRequest] /\ UNCHANGED <<exchanges, history>>
      /\ told' = told \cup {t}
  BY DEF SaveFails, Respond, gateVars, Busy
<1>2. t \in Told /\ t.n = k
  BY ServedFacts DEF Told
<1> HIDE DEF k, t
<1>3. /\ Numbered' /\ told' \subseteq Told /\ serving' \in [Slots -> ServedRequests]
      /\ \A q \in Slots : Busy(q)' => q # s /\ Busy(q) /\ serving'[q] = serving[q]
  BY <1>1, <1>2, AnswerEnds DEF k
<1>4. Chatting'
  BY <1>1, <1>3 DEF BInv, Chatting
<1>5. StoredSoFar'
  <2>1. \A v \in BotUsers : \A i \in DOMAIN history[v] :
           /\ history[v][i].n <= exchanges
           /\ \A q \in Slots : Busy(q)' /\ serving'[q].n = history[v][i].n =>
                 serving'[q].at = "reply" /\ history[v][i].by = "user"
    BY <1>3 DEF BInv, StoredSoFar
  <2>2. \A q \in Slots : serving'[q].at = "reply" /\ serving'[q].asks =>
           \E j \in DOMAIN history[serving'[q].user] :
              history[serving'[q].user][j] = Question(serving'[q].n)
    BY <1>3 DEF BInv, StoredSoFar, Busy
  <2>3. QED
    BY <1>1, <2>1, <2>2 DEF StoredSoFar, Busy, Question
<1>6. ExchangesInOrder'
  <2>1. \A v \in BotUsers : \A i \in DOMAIN history[v] : history[v][i].n = k => history[v][i].by = "user"
    BY <1>1 DEF BInv, StoredSoFar, k
  <2>2. QED
    BY <1>1, <1>2, <2>1 DEF BInv, ExchangesInOrder
<1>7. QED
  BY <1>3, <1>4, <1>5, <1>6 DEF BInv

\* Every step of the bot service keeps it.
LEMMA NextBInv == BInv /\ [BotNext]_botVars => BInv'
<1> SUFFICES ASSUME BInv, [BotNext]_botVars PROVE BInv'
  OBVIOUS
<1>1. CASE Tick \/ UNCHANGED botVars
  BY <1>1 DEF Tick, botVars, storeVars, BInv, Chatting, Numbered, StoredSoFar, ExchangesInOrder, Busy, Question
<1>2. ASSUME NEW s \in Slots, Serve(s) PROVE BInv'
  BY <1>2, StepsKeep, QuestionKeeps, ReplyKeeps, FailKeeps, BotAssumption DEF Serve
<1>3. ASSUME NEW s \in Slots, NEW u \in BotUsers, Arrive(s, u) PROVE BInv'
  BY <1>3, ArriveKeeps
<1>4. QED
  BY <1>1, <1>2, <1>3 DEF BotNext

\* The room of the bot reads as a conversation, for any number of users, of requests
\* at once and of exchanges, whichever statement fails (handle_bot_chat).
THEOREM RoomIsAConversation == BotSpec => []ExchangesInOrder
<1>1. BInv => ExchangesInOrder
  BY DEF BInv
<1>2. QED
  BY <1>1, InitBInv, NextBInv, PTL DEF BotSpec

-----------------------------------------------------------------------------
(* Escalations: a ticket only moves on, and the queue is the table. *)

TicketRows ==
    [status : {"pending", "assigned", "resolved", "closed", "evicted"},
     agent : Agents \cup {NoAgent}, at : Nat]

\* What a row says of itself: nobody has a pending one, and one that has ended
\* bears the time at which it did.
Dated(row, at) ==
    /\ row.status = "pending" => row.agent = NoAgent
    /\ row.status \in Terminal => row.at = at

TInv ==
    /\ now \in Nat
    /\ rows \in Seq(TicketRows) /\ queue = rows
    /\ DOMAIN changed = DOMAIN rows
    /\ \A i \in DOMAIN rows : Dated(rows[i], changed[i])

\* What one step does to a row.
MovesOn(was, is, at) ==
    /\ Rank(was.status) <= Rank(is.status)
    /\ was.agent # NoAgent => is.agent = was.agent \/ is = Evicted
    /\ is = Evicted => was = Evicted \/ at + Retention < now

\* It holds of the empty table.
LEMMA InitTInv == TicketInit => TInv
BY DEF TicketInit, TInv

\* A step that leaves each row as it is or gives it another status, in the
\* table and in the queue alike.
LEMMA RowsRewritten ==
    ASSUME TInv, Stamp, UNCHANGED now, queue' = rows',
           NEW F, F \in [1 .. Len(rows) -> TicketRows], rows' = F,
           \A i \in DOMAIN rows : \/ F[i] = rows[i]
                                  \/ F[i].status # rows[i].status /\ Dated(F[i], now)
    PROVE  TInv'
<1>1. rows \in Seq(TicketRows) /\ Len(rows) \in Nat /\ DOMAIN rows = 1 .. Len(rows)
  BY DEF TInv
<1>2. rows' \in Seq(TicketRows) /\ DOMAIN rows' = DOMAIN rows
  BY <1>1, SeqDef
<1>3. ASSUME NEW i \in DOMAIN rows PROVE Dated(rows'[i], changed'[i])
  <2>1. CASE F[i] = rows[i]
    BY <1>2, <2>1 DEF TInv, Stamp
  <2>2. CASE F[i].status # rows[i].status /\ Dated(F[i], now)
    BY <1>2, <2>2 DEF Stamp
  <2>3. QED
    BY <2>1, <2>2
<1>4. DOMAIN changed' = DOMAIN rows'
  BY DEF Stamp
<1>5. QED
  BY <1>2, <1>3, <1>4 DEF TInv, Dated

\* What a row holds.
LEMMA RowTypes ==
    ASSUME TInv
    PROVE  /\ DOMAIN rows = 1 .. Len(rows) /\ Len(rows) \in Nat /\ now \in Nat
           /\ \A i \in DOMAIN rows : rows[i] \in TicketRows
BY DEF TInv

\* The fields of a ticket that got another status.
LEMMA BecameTypes ==
    ASSUME NEW status, NEW agent, NEW at
    PROVE  /\ Became(status, agent, at).status = status
           /\ Became(status, agent, at).agent = agent
           /\ Became(status, agent, at).at = at
BY DEF Became

\* assign_ticket, in the queue and in the table, moves a pending ticket only.
LEMMA AssignKeeps ==
    ASSUME TInv, NEW id \in DOMAIN rows, NEW agent \in Agents, Assign(id, agent)
    PROVE  TInv' /\ \A i \in DOMAIN rows : MovesOn(rows[i], rows'[i], changed[i])
<1> DEFINE F == AssignRow(id, agent)
<1>1. rows' = F /\ Stamp /\ UNCHANGED now
  BY DEF Assign
<1>2. /\ F \in [1 .. Len(rows) -> TicketRows]
      /\ \A i \in DOMAIN rows :
            F[i] = IF i = id /\ rows[i].status = "pending"
                   THEN Became("assigned", agent, rows[i].at) ELSE rows[i]
  BY RowTypes DEF AssignRow, Became, TicketRows
<1>3. \A i \in DOMAIN rows : (F[i].status # rows[i].status /\ Dated(F[i], now)) \/ F[i] = rows[i]
  BY <1>2, BecameTypes DEF Dated, Terminal
<1>4. queue' = rows'
  BY <1>1, RowTypes DEF Assign, TInv, AssignTicket, AssignRow
<1>5. \A i \in DOMAIN rows : MovesOn(rows[i], F[i], changed[i])
  BY <1>2, BecameTypes, RowTypes DEF TInv, Dated, MovesOn, Rank, TicketRows, Evicted
<1> HIDE DEF F
<1>6. QED
  BY <1>1, <1>2, <1>3, <1>4, <1>5, RowsRewritten

\* resolve_ticket moves an assigned ticket only, and dates it.
LEMMA ResolveKeeps ==
    ASSUME TInv, NEW id \in DOMAIN rows, Resolve(id)
    PROVE  TInv' /\ \A i \in DOMAIN rows : MovesOn(rows[i], rows'[i], changed[i])
<1> DEFINE F == ResolveRow(id, now)
<1>1. rows' = F /\ Stamp /\ UNCHANGED now
  BY DEF Resolve
<1>2. /\ F \in [1 .. Len(rows) -> TicketRows]
      /\ \A i \in DOMAIN rows :
            F[i] = IF i = id /\ rows[i].status = "assigned"
                   THEN Became("resolved", rows[i].agent, now) ELSE rows[i]
  BY RowTypes DEF ResolveRow, Became, TicketRows
<1>3. \A i \in DOMAIN rows : (F[i].status # rows[i].status /\ Dated(F[i], now)) \/ F[i] = rows[i]
  BY <1>2, BecameTypes DEF Dated, Terminal
<1>4. queue' = rows'
  BY <1>1, RowTypes DEF Resolve, TInv, ResolveTicket, ResolveRow
<1>5. \A i \in DOMAIN rows : MovesOn(rows[i], F[i], changed[i])
  BY <1>2, BecameTypes, RowTypes DEF TInv, Dated, MovesOn, Rank, TicketRows, Evicted
<1> HIDE DEF F
<1>6. QED
  BY <1>1, <1>2, <1>3, <1>4, <1>5, RowsRewritten

\* close_ticket moves what is not closed or deleted, and dates it again.
LEMMA CloseKeeps ==
    ASSUME TInv, NEW id \in DOMAIN rows, Close(id)
    PROVE  TInv' /\ \A i \in DOMAIN rows : MovesOn(rows[i], rows'[i], changed[i])
<1> DEFINE F == CloseRow(id, now)
<1>1. rows' = F /\ Stamp /\ UNCHANGED now
  BY DEF Close
<1>2. /\ F \in [1 .. Len(rows) -> TicketRows]
      /\ \A i \in DOMAIN rows :
            F[i] = IF i = id /\ rows[i].status \notin {"closed", "evicted"}
                   THEN Became("closed", rows[i].agent, now) ELSE rows[i]
  BY RowTypes DEF CloseRow, Became, TicketRows
<1>3. \A i \in DOMAIN rows : (F[i].status # rows[i].status /\ Dated(F[i], now)) \/ F[i] = rows[i]
  BY <1>2, BecameTypes DEF Dated, Terminal
<1>4. queue' = rows'
  BY <1>1, RowTypes DEF Close, TInv, CloseTicket, CloseRow
<1>5. \A i \in DOMAIN rows : MovesOn(rows[i], F[i], changed[i])
  BY <1>2, BecameTypes, RowTypes DEF TInv, Dated, MovesOn, Rank, TicketRows, Evicted
<1> HIDE DEF F
<1>6. QED
  BY <1>1, <1>2, <1>3, <1>4, <1>5, RowsRewritten

\* evict_old and delete_old delete only what ended longer ago than the retention.
LEMMA EvictKeeps ==
    ASSUME TInv, EvictOld
    PROVE  TInv' /\ \A i \in DOMAIN rows : MovesOn(rows[i], rows'[i], changed[i])
<1> DEFINE F == DeleteOld(now - Retention)
<1>1. rows' = F /\ Stamp /\ UNCHANGED now
  BY DEF EvictOld
<1>2. /\ F \in [1 .. Len(rows) -> TicketRows]
      /\ \A i \in DOMAIN rows :
            F[i] = IF rows[i].status \in Terminal /\ rows[i].at # 0 /\ rows[i].at < now - Retention
                   THEN Evicted ELSE rows[i]
  BY RowTypes DEF DeleteOld, Evicted, TicketRows
<1>3. \A i \in DOMAIN rows : (F[i].status # rows[i].status /\ Dated(F[i], now)) \/ F[i] = rows[i]
  BY <1>2 DEF Dated, Terminal, Evicted
<1>4. queue' = rows'
  BY <1>1, RowTypes DEF EvictOld, TInv, EvictTickets, IsOld, DeleteOld
<1>5. \A i \in DOMAIN rows : MovesOn(rows[i], F[i], changed[i])
  <2>1. SUFFICES ASSUME NEW i \in DOMAIN rows PROVE MovesOn(rows[i], F[i], changed[i])
    OBVIOUS
  <2>2. CASE F[i] = rows[i]
    BY <1>2, <2>2, RowTypes DEF MovesOn, Rank, TicketRows, Evicted, Terminal
  <2>3. CASE rows[i].status \in Terminal /\ rows[i].at < now - Retention /\ F[i] = Evicted
    <3>1. changed[i] = rows[i].at /\ rows[i].at \in Nat
      BY <2>3, RowTypes DEF TInv, Dated, TicketRows
    <3>2. changed[i] + Retention < now
      BY <2>3, <3>1, RowTypes, EscalationAssumption
    <3>3. QED
      BY <2>3, <3>2 DEF MovesOn, Rank, Terminal, Evicted
  <2>4. QED
    BY <1>2, <2>2, <2>3
<1> HIDE DEF F
<1>6. QED
  BY <1>1, <1>2, <1>3, <1>4, <1>5, RowsRewritten

\* A new ticket, or time that passes, leaves the others as they are.
LEMMA EnqueueWaitKeep ==
    ASSUME TInv, Enqueue \/ Wait
    PROVE  TInv' /\ \A i \in DOMAIN rows : rows'[i] = rows[i]
<1>1. CASE Wait
  BY <1>1 DEF Wait, TInv
<1>2. CASE Enqueue
  <2>1. /\ rows' = Append(rows, New) /\ queue' = rows' /\ Stamp /\ now' = now
        /\ rows \in Seq(TicketRows) /\ New \in TicketRows
    BY <1>2 DEF Enqueue, TInv, New, TicketRows
  <2>2. /\ rows' \in Seq(TicketRows) /\ DOMAIN rows' = 1 .. Len(rows) + 1 /\ DOMAIN rows = 1 .. Len(rows)
        /\ Len(rows) \in Nat /\ rows'[Len(rows) + 1] = New
        /\ \A i \in DOMAIN rows : rows'[i] = rows[i]
    BY <2>1
  <2>3. ASSUME NEW i \in DOMAIN rows' PROVE Dated(rows'[i], changed'[i])
    <3>1. CASE i \in DOMAIN rows
      BY <2>1, <2>2, <3>1 DEF TInv, Stamp
    <3>2. CASE i = Len(rows) + 1
      BY <2>2, <3>2 DEF Dated, New, Terminal
    <3>3. QED
      BY <2>2, <3>1, <3>2
  <2>4. DOMAIN changed' = DOMAIN rows'
    BY <2>1 DEF Stamp
  <2>5. QED
    BY <2>1, <2>2, <2>3, <2>4 DEF TInv, Dated
<1>3. QED
  BY <1>1, <1>2

\* Every step keeps the invariant and moves each ticket on or leaves it.
LEMMA RankGrows ==
    ASSUME TInv, [TicketNext]_ticketVars
    PROVE  TInv' /\ \A i \in DOMAIN rows : MovesOn(rows[i], rows'[i], changed[i])
<1>1. CASE Enqueue \/ Wait \/ UNCHANGED ticketVars
  <2>1. TInv' /\ \A i \in DOMAIN rows : rows'[i] = rows[i]
    BY <1>1, EnqueueWaitKeep DEF ticketVars, TInv
  <2>2. \A i \in DOMAIN rows : MovesOn(rows[i], rows[i], changed[i])
    BY RowTypes DEF MovesOn, Rank, TicketRows
  <2>3. QED
    BY <2>1, <2>2
<1>2. CASE EvictOld
  BY <1>2, EvictKeeps
<1>3. ASSUME NEW id \in DOMAIN rows, Resolve(id) \/ Close(id) \/ \E agent \in Agents : Assign(id, agent)
      PROVE  TInv' /\ \A i \in DOMAIN rows : MovesOn(rows[i], rows'[i], changed[i])
  BY <1>3, ResolveKeeps, CloseKeeps, AssignKeeps
<1>4. QED
  BY <1>1, <1>2, <1>3 DEF TicketNext

\* The invariant of the tickets.
LEMMA TicketsInv == TicketSpec => []TInv
<1>1. TInv /\ [TicketNext]_ticketVars => TInv'
  BY RankGrows
<1>2. QED
  BY InitTInv, <1>1, PTL DEF TicketSpec

\* A ticket only moves on, stays with its agent and is deleted only after the
\* retention, for any number of tickets and agents and any retention (EscalationQueue,
\* EscalationRepository).
THEOREM OnlyMovesOn == TicketSpec => TicketsMoveOn
<1>1. TInv /\ [TicketNext]_ticketVars =>
        [\A i \in DOMAIN rows :
           LET was == rows[i]  is == rows'[i]
           IN  /\ Rank(was.status) <= Rank(is.status)
               /\ was.agent # NoAgent => is.agent = was.agent \/ is = Evicted
               /\ is = Evicted => was = Evicted \/ changed[i] + Retention < now]_ticketVars
  BY RankGrows DEF MovesOn
<1>2. QED
  BY <1>1, TicketsInv, PTL DEF TicketSpec, TicketsMoveOn

\* The methods of the queue in memory and the WHERE clauses of the statements keep the
\* same rules: after the same calls both hold the same tickets.
THEOREM QueueIsTable == TicketSpec => [](queue = rows)
<1>1. TInv => queue = rows
  BY DEF TInv
<1>2. QED
  BY <1>1, TicketsInv, PTL

-----------------------------------------------------------------------------
(* BotDirectory: a name is one owner's, a token is in its owner's hands. *)

TokenRows == [bot : Nat, to : Owners, revoked : BOOLEAN]

\* The rows, and what a call that is past its look-up knows of them.
Registered ==
    /\ bots \in Seq(BotRows) /\ tokens \in Seq(TokenRows)
    /\ handling \in [Calls -> [at : {"none", "insert", "token", "revoke"}, by : Owners \cup {0},
                               name : Names \cup {0}, id : Nat]]

Compared ==
    \A c \in Calls :
        /\ handling[c].at \in {"insert", "token"} => handling[c].by \in Owners
        /\ handling[c].at = "insert" => handling[c].name \in Names
        /\ handling[c].at = "token" =>
              handling[c].id \in DOMAIN bots /\ bots[handling[c].id].owner = handling[c].by
        /\ handling[c].at = "revoke" => handling[c].id \in DOMAIN tokens

TokensHeld ==
    \A i \in DOMAIN tokens :
        tokens[i].bot \in DOMAIN bots /\ SpeaksFor(i).owner = tokens[i].to

OneName == \A i, j \in DOMAIN bots : bots[i].name = bots[j].name => i = j

GInv == Registered /\ Compared /\ TokensHeld /\ OneName

\* It holds of the empty directory.
LEMMA InitGInv == DirectoryInit => GInv
BY DEF DirectoryInit, GInv, Registered, Compared, TokensHeld, OneName, Nothing

\* get_bot_by_username finds the bot of a name if there is one.
LEMMA FoundByName ==
    ASSUME GInv, NEW name
    PROVE  /\ BotNamed(name) = 0 => \A i \in DOMAIN bots : bots[i].name # name
           /\ BotNamed(name) # 0 => BotNamed(name) \in DOMAIN bots /\ BotNamed(name) \in Nat
<1> DEFINE I == {i \in 1 .. Len(bots) : bots[i].name = name}
<1>1. bots \in Seq(BotRows) /\ DOMAIN bots = 1 .. Len(bots) /\ Len(bots) \in Nat
  BY DEF GInv, Registered
<1>2. BotNamed(name) = IF I # {} THEN Min(I) ELSE 0
  BY DEF BotNamed, SelectInSeq
<1>3. \A i, j \in I : i = j
  BY <1>1 DEF GInv, OneName
<1>4. CASE I = {}
  BY <1>1, <1>2, <1>4
<1>5. CASE I # {}
  <2>1. PICK i \in I : \A j \in I : j = i
    BY <1>3, <1>5
  <2>2. i \in 1 .. Len(bots) /\ i \in Nat
    BY <1>1, <2>1
  <2>3. Min(I) = i
    BY <2>1, <2>2 DEF Min
  <2>4. QED
    BY <1>1, <1>2, <1>5, <2>2, <2>3
<1>6. QED
  BY <1>4, <1>5

\* A call begins or ends and the rows stay.
LEMMA CallMoves ==
    ASSUME GInv, NEW c \in Calls, UNCHANGED <<bots, tokens>>, NEW h,
           handling' = [handling EXCEPT ![c] = h],
           h \in [at : {"none", "insert", "token", "revoke"}, by : Owners \cup {0},
                  name : Names \cup {0}, id : Nat],
           h.at \in {"insert", "token"} => h.by \in Owners,
           h.at = "insert" => h.name \in Names,
           h.at = "token" => h.id \in DOMAIN bots /\ bots[h.id].owner = h.by,
           h.at = "revoke" => h.id \in DOMAIN tokens
    PROVE  GInv'
<1>1. Registered'
  BY DEF GInv, Registered
<1>2. Compared'
  BY DEF GInv, Registered, Compared
<1>3. TokensHeld' /\ OneName'
  BY DEF GInv, TokensHeld, OneName, SpeaksFor
<1>4. QED
  BY <1>1, <1>2, <1>3 DEF GInv

\* A handler that has looked a name or a token up has compared the owner.
LEMMA LookUpsKeep ==
    ASSUME GInv, NEW c \in Calls, NEW by \in Owners,
           \/ \E name \in Names : LookUpName(c, by, name) \/ LookUpBot(c, by, name)
           \/ \E i \in DOMAIN tokens : LookUpToken(c, by, i)
    PROVE  GInv'
<1>1. ASSUME NEW name \in Names, LookUpName(c, by, name) PROVE GInv'
  BY <1>1, CallMoves DEF LookUpName, Begin
<1>2. ASSUME NEW name \in Names, LookUpBot(c, by, name) PROVE GInv'
  BY <1>2, FoundByName, CallMoves DEF LookUpBot, Begin
<1>3. ASSUME NEW i \in DOMAIN tokens, LookUpToken(c, by, i) PROVE GInv'
  <2>1. i \in Nat
    BY DEF GInv, Registered
  <2>2. QED
    BY <1>3, <2>1, CallMoves DEF LookUpToken, Begin
<1>4. QED
  BY <1>1, <1>2, <1>3

\* insert_bot refuses a name that is taken, also when it was free at the look-up.
LEMMA CreateKeeps ==
    ASSUME GInv, NEW c \in Calls, CreateBot(c)
    PROVE  GInv'
<1>1. CASE Done(c) /\ UNCHANGED <<bots, tokens>>
  BY <1>1, CallMoves DEF Done, Nothing
<1>2. CASE ~(Done(c) /\ UNCHANGED <<bots, tokens>>)
  <2> DEFINE h == handling[c]
             b == [name |-> h.name, owner |-> h.by]
             g == [at |-> "token", by |-> h.by, name |-> h.name, id |-> Len(bots) + 1]
  <2>1. /\ h.at = "insert" /\ BotNamed(h.name) = 0 /\ bots' = Append(bots, b)
        /\ handling' = [handling EXCEPT ![c] = g] /\ tokens' = tokens
    BY <1>2 DEF CreateBot, InsertBot, Begin
  <2>2. h.by \in Owners /\ h.name \in Names /\ b \in BotRows /\ b.name = h.name /\ b.owner = h.by
    BY <2>1 DEF GInv, Compared, BotRows
  <2>3. g.at = "token" /\ g.by = h.by /\ g.id = Len(bots) + 1
    OBVIOUS
  <2>4. bots \in Seq(BotRows) /\ Len(bots) \in Nat /\ DOMAIN bots = 1 .. Len(bots)
    BY DEF GInv, Registered
  <2>5. g \in [at : {"none", "insert", "token", "revoke"}, by : Owners \cup {0},
               name : Names \cup {0}, id : Nat]
    BY <2>2, <2>4
  <2>6. \A i \in DOMAIN bots : bots[i].name # h.name
    BY <2>1, FoundByName
  <2> HIDE DEF h, b, g
  <2>7. /\ bots' \in Seq(BotRows) /\ DOMAIN bots' = 1 .. Len(bots) + 1 /\ bots'[Len(bots) + 1] = b
        /\ \A i \in DOMAIN bots : i \in DOMAIN bots' /\ bots'[i] = bots[i]
    BY <2>1, <2>2, <2>4
  <2>8. Registered'
    BY <2>1, <2>5, <2>7 DEF GInv, Registered
  <2>9. Compared'
    BY <2>1, <2>2, <2>3, <2>4, <2>7 DEF GInv, Registered, Compared
  <2>10. TokensHeld'
    BY <2>1, <2>7 DEF GInv, TokensHeld, SpeaksFor
  <2>11. OneName'
    BY <2>2, <2>4, <2>6, <2>7 DEF GInv, OneName
  <2>12. QED
    BY <2>8, <2>9, <2>10, <2>11 DEF GInv
<1>3. QED
  BY <1>1, <1>2

\* A token is stored for the owner of its bot, and revoking it changes no hands.
LEMMA TokensKeep ==
    ASSUME GInv, NEW c \in Calls, StoreToken(c) \/ RevokeToken(c)
    PROVE  GInv'
<1>1. tokens \in Seq(TokenRows) /\ Len(tokens) \in Nat /\ DOMAIN tokens = 1 .. Len(tokens)
  BY DEF GInv, Registered
<1>2. handling' = [handling EXCEPT ![c] = Nothing] /\ bots' = bots
  BY DEF StoreToken, RevokeToken, Done
<1>3. CASE tokens' = tokens
  BY <1>2, <1>3, CallMoves DEF Nothing
<1>4. CASE StoreToken(c) /\ tokens' # tokens
  <2> DEFINE t == [bot |-> handling[c].id, to |-> handling[c].by, revoked |-> FALSE]
  <2>1. handling[c].at = "token" /\ tokens' = Append(tokens, t)
    BY <1>4 DEF StoreToken, InsertToken
  <2>2. t \in TokenRows /\ t.bot \in DOMAIN bots /\ bots[t.bot].owner = t.to
    BY <2>1 DEF GInv, Compared, Registered, TokenRows
  <2> HIDE DEF t
  <2>3. /\ tokens' \in Seq(TokenRows) /\ DOMAIN tokens' = 1 .. Len(tokens) + 1
        /\ tokens'[Len(tokens) + 1] = t
        /\ \A i \in DOMAIN tokens : i \in DOMAIN tokens' /\ tokens'[i] = tokens[i]
    BY <1>1, <2>1, <2>2
  <2>4. Registered'
    BY <1>2, <2>3 DEF GInv, Registered, Nothing
  <2>5. Compared'
    BY <1>2, <2>3 DEF GInv, Registered, Compared, Nothing
  <2>6. TokensHeld'
    BY <1>1, <1>2, <2>2, <2>3 DEF GInv, TokensHeld, SpeaksFor
  <2>7. QED
    BY <1>2, <2>4, <2>5, <2>6 DEF GInv, OneName
<1>5. CASE RevokeToken(c)
  <2> DEFINE i == handling[c].id
             t == [bot |-> tokens[i].bot, to |-> tokens[i].to, revoked |-> TRUE]
  <2>1. i \in DOMAIN tokens /\ tokens' = [tokens EXCEPT ![i] = t]
    BY <1>5 DEF RevokeToken, GInv, Compared
  <2>2. t \in TokenRows /\ t.bot = tokens[i].bot /\ t.to = tokens[i].to
    <3>1. tokens[i] \in TokenRows
      BY <1>1, <2>1
    <3>2. QED
      BY <3>1 DEF TokenRows
  <2> HIDE DEF i, t
  <2>3. /\ tokens' \in Seq(TokenRows) /\ DOMAIN tokens' = DOMAIN tokens
        /\ tokens'[i] = t /\ \A j \in DOMAIN tokens : j # i => tokens'[j] = tokens[j]
    BY <1>1, <2>1, <2>2
  <2>4. Registered'
    BY <1>2, <2>3 DEF GInv, Registered, Nothing
  <2>5. Compared'
    BY <1>2, <2>3 DEF GInv, Registered, Compared, Nothing
  <2>6. TokensHeld'
    BY <1>2, <2>1, <2>2, <2>3 DEF GInv, TokensHeld, SpeaksFor
  <2>7. QED
    BY <1>2, <2>4, <2>5, <2>6 DEF GInv, OneName
<1>6. QED
  BY <1>3, <1>4, <1>5

\* Every step of the directory keeps it.
LEMMA NextGInv == GInv /\ [DirectoryNext]_directoryVars => GInv'
<1> SUFFICES ASSUME GInv, [DirectoryNext]_directoryVars PROVE GInv'
  OBVIOUS
<1>1. CASE UNCHANGED directoryVars
  BY <1>1 DEF directoryVars, GInv, Registered, Compared, TokensHeld, OneName, SpeaksFor
<1>2. ASSUME NEW c \in Calls, CreateBot(c) \/ StoreToken(c) \/ RevokeToken(c) PROVE GInv'
  BY <1>2, CreateKeeps, TokensKeep
<1>3. ASSUME NEW c \in Calls, NEW by \in Owners,
             \/ \E name \in Names : LookUpName(c, by, name) \/ LookUpBot(c, by, name)
             \/ \E i \in DOMAIN tokens : LookUpToken(c, by, i)
      PROVE  GInv'
  BY <1>3, LookUpsKeep
<1>4. QED
  BY <1>1, <1>2, <1>3 DEF DirectoryNext

\* A name belongs to one owner, and a token that is not revoked is in the hands of the
\* owner of its bot, for any number of owners, names and requests at once
\* (handle_create_bot, handle_create_token, handle_revoke_token).
THEOREM TokensStay == DirectorySpec => []TokensAreTheOwners
<1>1. GInv => TokensAreTheOwners
  BY DEF GInv, OneName, TokensHeld, TokensAreTheOwners
<1>2. QED
  BY <1>1, InitGInv, NextGInv, PTL DEF DirectorySpec

-----------------------------------------------------------------------------
(* EmojiPacks: a slug is its maker's. *)

AskedCalls == [at : {"none", "insert pack", "insert item", "moderate"}, by : Makers \cup {0},
               slug : Slugs \cup {0}, pack : Nat, what : BOOLEAN \cup Shortcodes \cup Statuses \cup {0}]

Kept ==
    /\ packs \in Seq(PackRows)
    /\ asked \in [Requests -> AskedCalls]

\* What a request that is past its look-up knows of the packs.
LookedUp(call) ==
    /\ call.at \in {"insert pack", "insert item"} => call.by \in Makers /\ call.slug \in Slugs
    /\ call.at = "insert pack" => call.what \in BOOLEAN
    /\ call.at \in {"insert item", "moderate"} => call.pack \in DOMAIN packs
    /\ call.at = "insert item" => packs[call.pack].owner = call.by
    /\ call.at = "moderate" => call.what \in Statuses

SlugsHeld ==
    /\ \A i, j \in DOMAIN packs : packs[i].slug = packs[j].slug => i = j
    /\ \A c \in created : \E i \in DOMAIN packs : packs[i].slug = c.slug /\ packs[i].owner = c.by
    /\ \A i \in items : i.pack \in DOMAIN packs /\ packs[i.pack].owner = i.by

MInv == Kept /\ SlugsHeld /\ \A r \in Requests : LookedUp(asked[r])

\* A slot without a request knows nothing.
LEMMA NoCallIsOne == NoCall \in AskedCalls /\ LookedUp(NoCall)
BY DEF NoCall, AskedCalls, LookedUp

\* It holds while there are no packs.
LEMMA InitMInv == EmojiInit => MInv
<1> SUFFICES ASSUME EmojiInit PROVE MInv
  OBVIOUS
<1>1. Kept
  BY NoCallIsOne DEF EmojiInit, Kept
<1>2. SlugsHeld
  BY DEF EmojiInit, SlugsHeld
<1>3. \A r \in Requests : LookedUp(asked[r])
  BY NoCallIsOne DEF EmojiInit
<1>4. QED
  BY <1>1, <1>2, <1>3 DEF MInv

\* get_pack_by_slug finds the pack of a slug if there is one.
LEMMA FoundBySlug ==
    ASSUME MInv, NEW slug
    PROVE  /\ PackBySlug(slug) = 0 => \A i \in DOMAIN packs : packs[i].slug # slug
           /\ \A i \in DOMAIN packs : packs[i].slug = slug => PackBySlug(slug) = i
           /\ PackBySlug(slug) # 0 => PackBySlug(slug) \in DOMAIN packs /\ PackBySlug(slug) \in Nat
<1> DEFINE I == {i \in 1 .. Len(packs) : packs[i].slug = slug}
<1>1. packs \in Seq(PackRows) /\ DOMAIN packs = 1 .. Len(packs) /\ Len(packs) \in Nat
  BY DEF MInv, Kept
<1>2. PackBySlug(slug) = IF I # {} THEN Min(I) ELSE 0
  BY DEF PackBySlug, SelectInSeq
<1>3. \A i, j \in I : i = j
  BY <1>1 DEF MInv, SlugsHeld
<1>4. CASE I = {}
  BY <1>1, <1>2, <1>4
<1>5. CASE I # {}
  <2>1. PICK i \in I : \A j \in I : j = i
    BY <1>3, <1>5
  <2>2. i \in 1 .. Len(packs) /\ i \in Nat
    BY <1>1, <2>1
  <2>3. Min(I) = i
    BY <2>1, <2>2 DEF Min
  <2>4. PackBySlug(slug) = i /\ i # 0 /\ packs[i].slug = slug
    BY <1>2, <1>5, <2>1, <2>2, <2>3
  <2>5. \A j \in DOMAIN packs : packs[j].slug = slug => j = i
    BY <1>1, <2>1
  <2>6. QED
    BY <1>1, <2>2, <2>4, <2>5
<1>6. QED
  BY <1>4, <1>5

\* A request is taken up or ends, and the packs stay.
LEMMA RequestMoves ==
    ASSUME MInv, NEW r \in Requests, UNCHANGED <<packs, items, created>>, NEW call \in AskedCalls,
           asked' = [asked EXCEPT ![r] = call], LookedUp(call)
    PROVE  MInv'
<1>1. Kept' /\ SlugsHeld'
  BY DEF MInv, Kept, SlugsHeld
<1>2. \A q \in Requests : LookedUp(asked'[q])
  BY DEF MInv, Kept, LookedUp
<1>3. QED
  BY <1>1, <1>2 DEF MInv, LookedUp

\* A request that is taken up has looked its slug up and compared the owner.
LEMMA TakeUpsKeep ==
    ASSUME MInv, NEW r \in Requests,
           \/ \E by \in Makers, slug \in Slugs :
                 AskForSlug(r, by, slug) \/ \E code \in Shortcodes : AskForItem(r, by, slug, code)
           \/ \E slug \in Slugs, status \in Statuses : AskForStatus(r, slug, status)
           \/ StatementFails(r)
    PROVE  MInv'
<1>1. ASSUME NEW by \in Makers, NEW slug \in Slugs, AskForSlug(r, by, slug) PROVE MInv'
  BY <1>1, RequestMoves DEF AskForSlug, TakeUp, AskedCalls, LookedUp
<1>2. ASSUME NEW by \in Makers, NEW slug \in Slugs, NEW code \in Shortcodes, AskForItem(r, by, slug, code)
      PROVE  MInv'
  BY <1>2, FoundBySlug, RequestMoves DEF AskForItem, TakeUp, AskedCalls, LookedUp
<1>3. ASSUME NEW slug \in Slugs, NEW status \in Statuses, AskForStatus(r, slug, status) PROVE MInv'
  BY <1>3, FoundBySlug, RequestMoves DEF AskForStatus, TakeUp, AskedCalls, LookedUp
<1>4. CASE StatementFails(r)
  BY <1>4, RequestMoves, NoCallIsOne DEF StatementFails, Served
<1>5. QED
  BY <1>1, <1>2, <1>3, <1>4

\* insert_pack refuses a slug that is taken, also when it was free at the look-up.
LEMMA CreatePackKeeps ==
    ASSUME MInv, NEW r \in Requests, CreatePack(r)
    PROVE  MInv'
<1> DEFINE call == asked[r]
           p == [slug |-> call.slug, owner |-> call.by, public |-> call.what, status |-> "pending"]
           c == [slug |-> call.slug, by |-> call.by]
<1>1. /\ call.at = "insert pack" /\ PackBySlug(call.slug) = 0
      /\ packs' = Append(packs, p) /\ created' = created \cup {c}
      /\ asked' = [asked EXCEPT ![r] = NoCall] /\ items' = items
  BY DEF CreatePack, InsertPack, Served
<1>2. call.by \in Makers /\ call.slug \in Slugs /\ call.what \in BOOLEAN
  BY <1>1 DEF MInv, LookedUp
<1>3. /\ p \in PackRows /\ p.slug = call.slug /\ p.owner = call.by
      /\ c.slug = call.slug /\ c.by = call.by
  BY <1>2 DEF PackRows, Statuses
<1>4. \A i \in DOMAIN packs : packs[i].slug # call.slug
  BY <1>1, FoundBySlug
<1>5. packs \in Seq(PackRows) /\ Len(packs) \in Nat /\ DOMAIN packs = 1 .. Len(packs)
  BY DEF MInv, Kept
<1> HIDE DEF call, p, c
<1>6. /\ packs' \in Seq(PackRows) /\ DOMAIN packs' = 1 .. Len(packs) + 1 /\ packs'[Len(packs) + 1] = p
      /\ \A i \in DOMAIN packs : i \in DOMAIN packs' /\ packs'[i] = packs[i]
  <2>1. packs' = Append(packs, p) /\ p \in PackRows
    BY <1>1, <1>3
  <2>2. QED
    BY <1>5, <2>1
<1>7. Kept'
  BY <1>1, <1>6, NoCallIsOne DEF MInv, Kept
<1>8. SlugsHeld'
  <2>1. \A i, j \in DOMAIN packs' : packs'[i].slug = packs'[j].slug => i = j
    BY <1>3, <1>4, <1>5, <1>6 DEF MInv, SlugsHeld
  <2>2. \A d \in created' : \E i \in DOMAIN packs' : packs'[i].slug = d.slug /\ packs'[i].owner = d.by
    <3>1. Len(packs) + 1 \in DOMAIN packs'
      BY <1>5, <1>6
    <3>2. packs'[Len(packs) + 1].slug = c.slug /\ packs'[Len(packs) + 1].owner = c.by
      BY <1>3, <1>6
    <3>3. \A d \in created : \E i \in DOMAIN packs' : packs'[i].slug = d.slug /\ packs'[i].owner = d.by
      BY <1>6 DEF MInv, SlugsHeld
    <3>4. QED
      BY <1>1, <3>1, <3>2, <3>3
  <2>3. \A i \in items' : i.pack \in DOMAIN packs' /\ packs'[i.pack].owner = i.by
    BY <1>1, <1>6 DEF MInv, SlugsHeld
  <2>4. QED
    BY <2>1, <2>2, <2>3 DEF SlugsHeld
<1>9. \A q \in Requests : LookedUp(asked[q])'
  BY <1>1, <1>6 DEF MInv, Kept, LookedUp, NoCall
<1>10. QED
  BY <1>7, <1>8, <1>9 DEF MInv

\* An item goes to a pack of the one who sent it.
LEMMA AddItemKeeps ==
    ASSUME MInv, NEW r \in Requests, AddItem(r)
    PROVE  MInv'
<1> DEFINE call == asked[r]
           n == [pack |-> call.pack, code |-> call.what, by |-> call.by]
<1>1. /\ call.at = "insert item" /\ items' = items \cup {n}
      /\ asked' = [asked EXCEPT ![r] = NoCall] /\ UNCHANGED <<packs, created>>
  BY DEF AddItem, Served
<1>2. call.pack \in DOMAIN packs /\ packs[call.pack].owner = call.by
  BY <1>1 DEF MInv, LookedUp
<1>3. n.pack = call.pack /\ n.by = call.by
  OBVIOUS
<1> HIDE DEF call, n
<1>4. Kept'
  BY <1>1, NoCallIsOne DEF MInv, Kept
<1>5. SlugsHeld'
  BY <1>1, <1>2, <1>3 DEF MInv, SlugsHeld
<1>6. \A q \in Requests : LookedUp(asked[q])'
  BY <1>1 DEF MInv, Kept, LookedUp, NoCall
<1>7. QED
  BY <1>4, <1>5, <1>6 DEF MInv

\* A pack gets another status, and its slug and its owner stay.
LEMMA StatusKeeps ==
    ASSUME MInv, NEW id \in DOMAIN packs, NEW status \in Statuses, UpdateModerationStatus(id, status),
           UNCHANGED <<items, created>>, asked' \in [Requests -> AskedCalls],
           \A r \in Requests : asked'[r] \in {asked[r], NoCall}
    PROVE  MInv'
<1> DEFINE p == [slug |-> packs[id].slug, owner |-> packs[id].owner, public |-> packs[id].public,
                 status |-> status]
<1>1. packs \in Seq(PackRows) /\ packs[id] \in PackRows
  BY DEF MInv, Kept
<1>2. p \in PackRows /\ p.slug = packs[id].slug /\ p.owner = packs[id].owner
  BY <1>1 DEF PackRows
<1>3. packs' = [packs EXCEPT ![id] = p]
  BY DEF UpdateModerationStatus
<1> HIDE DEF p
<1>4. packs' \in Seq(PackRows) /\ DOMAIN packs' = DOMAIN packs
  BY <1>1, <1>2, <1>3
<1>5. \A i \in DOMAIN packs : packs'[i].slug = packs[i].slug /\ packs'[i].owner = packs[i].owner
  BY <1>2, <1>3
<1>6. Kept' /\ SlugsHeld'
  BY <1>4, <1>5 DEF MInv, Kept, SlugsHeld
<1>7. ASSUME NEW r \in Requests PROVE LookedUp(asked[r])'
  <2>1. LookedUp(asked[r]) /\ LookedUp(NoCall)
    BY NoCallIsOne DEF MInv
  <2>2. CASE asked'[r] = asked[r]
    BY <1>4, <1>5, <2>1, <2>2 DEF LookedUp
  <2>3. CASE asked'[r] = NoCall
    BY <2>3 DEF LookedUp, NoCall
  <2>4. QED
    BY <2>2, <2>3
<1>8. QED
  BY <1>6, <1>7 DEF MInv

\* Every step of the packs keeps it.
LEMMA NextMInv == MInv /\ [EmojiNext]_emojiVars => MInv'
<1> SUFFICES ASSUME MInv, [EmojiNext]_emojiVars PROVE MInv'
  OBVIOUS
<1>1. CASE UNCHANGED <<packs, items, asked, created>>
  BY <1>1 DEF MInv, Kept, SlugsHeld, LookedUp
<1>2. CASE Repopulate \/ PickRow \/ UNCHANGED emojiVars
  BY <1>1, <1>2 DEF Repopulate, PickRow, emojiVars
<1>3. ASSUME NEW r \in Requests, CreatePack(r) \/ AddItem(r) PROVE MInv'
  BY <1>3, CreatePackKeeps, AddItemKeeps
<1>4. ASSUME NEW r \in Requests, SetStatus(r) PROVE MInv'
  <2>1. asked[r].pack \in DOMAIN packs /\ asked[r].what \in Statuses
    BY <1>4 DEF SetStatus, MInv, LookedUp
  <2>2. asked' = [asked EXCEPT ![r] = NoCall] /\ UNCHANGED <<items, created>>
    BY <1>4 DEF SetStatus, Served
  <2>3. asked' \in [Requests -> AskedCalls] /\ \A q \in Requests : asked'[q] \in {asked[q], NoCall}
    BY <2>2, NoCallIsOne DEF MInv, Kept
  <2>4. UpdateModerationStatus(asked[r].pack, asked[r].what)
    BY <1>4 DEF SetStatus
  <2>5. QED
    BY <2>1, <2>2, <2>3, <2>4, StatusKeeps
<1>5. ASSUME NEW id \in DOMAIN packs, NEW status \in Statuses, Decide(id, status) PROVE MInv'
  BY <1>5, StatusKeeps DEF Decide, MInv, Kept
<1>6. ASSUME NEW r \in Requests,
             \/ \E by \in Makers, slug \in Slugs :
                   AskForSlug(r, by, slug) \/ \E code \in Shortcodes : AskForItem(r, by, slug, code)
             \/ \E slug \in Slugs, status \in Statuses : AskForStatus(r, slug, status)
             \/ StatementFails(r)
      PROVE  MInv'
  BY <1>6, TakeUpsKeep
<1>7. QED
  BY <1>2, <1>3, <1>4, <1>5, <1>6 DEF EmojiNext

\* Whoever was told that a slug is theirs has it for good, and its pack holds only what
\* they sent, for any number of makers, slugs and requests at once (handle_create_pack,
\* handle_add_item, handle_moderation).
THEOREM SlugsStay == EmojiSpec => []SlugKeepsItsMaker
<1>1. MInv => SlugKeepsItsMaker
  <2>1. ASSUME MInv, NEW c \in created PROVE packs[PackBySlug(c.slug)].owner = c.by
    BY <2>1, FoundBySlug DEF MInv, SlugsHeld
  <2>2. ASSUME MInv, NEW i \in items, NEW c \in created, c.slug = packs[i.pack].slug PROVE c.by = i.by
    BY <2>2 DEF MInv, SlugsHeld
  <2>3. QED
    BY <2>1, <2>2 DEF SlugKeepsItsMaker
<1>2. QED
  BY <1>1, InitMInv, NextMInv, PTL DEF EmojiSpec

-----------------------------------------------------------------------------
(* Webmail: a browser that was signed out stays so. *)

Cookies == [key : Nat, user : MailUsers] \cup {NoCookie}
ListRows == [uid : Nat, blank : BOOLEAN]
TabRows ==
    [op : {"login", "logout", "list", "read"}, user : MailUsers \cup {Blank}, cookie : Cookies,
     at : {"sent", "connecting", "selecting", "fetching", "leaving", "kept", "cleared", "accepted",
           "shown", "broken"},
     sets : Cookies, found : Seq(Nat), rows : Seq(ListRows)]

\* What the place a request has got to says of it.
Placed(t) ==
    /\ t.at \in {"connecting", "selecting", "fetching", "leaving"} => t.user \in MailUsers
    /\ t.at \in {"leaving", "accepted"} => t.op = "login"
    /\ t.at = "cleared" => t.sets = NoCookie
    /\ t.at = "accepted" => t.sets.user = t.user

Browsed ==
    /\ cookie \in Cookies /\ key \in Nat /\ arrived \in Nat
    /\ tabs \in Seq(TabRows)
    /\ mailbox \in [MailUsers -> Seq(Nat)]

WInv == Browsed /\ \A r \in Tabs : Placed(tabs[r])

\* It holds of a browser that has sent nothing.
LEMMA InitWInv == WebmailInit => WInv
BY DEF WebmailInit, WInv, Browsed, Cookies, Tabs, NoCookie

\* What there is to know of a request.
LEMMA TabFacts ==
    ASSUME WInv, NEW r \in Tabs
    PROVE  /\ tabs[r] \in TabRows /\ Placed(tabs[r]) /\ r \in 1 .. Len(tabs)
           /\ tabs \in Seq(TabRows) /\ Len(tabs) \in Nat
           /\ tabs[r].op \in {"login", "logout", "list", "read"}
           /\ tabs[r].user \in MailUsers \cup {Blank}
           /\ tabs[r].cookie \in Cookies /\ tabs[r].sets \in Cookies
           /\ tabs[r].found \in Seq(Nat) /\ tabs[r].rows \in Seq(ListRows)
<1>1. tabs \in Seq(TabRows) /\ DOMAIN tabs = 1 .. Len(tabs) /\ Len(tabs) \in Nat
  BY DEF WInv, Browsed
<1>2. tabs[r] \in TabRows /\ r \in 1 .. Len(tabs)
  BY <1>1 DEF Tabs
<1>3. QED
  BY <1>1, <1>2 DEF WInv, TabRows

\* One request moves on.
LEMMA TabMoves ==
    ASSUME WInv, NEW r \in Tabs, NEW t \in TabRows, Placed(t), tabs' = [tabs EXCEPT ![r] = t],
           cookie' \in Cookies, UNCHANGED <<key, mailbox, arrived>>
    PROVE  WInv'
<1>1. tabs' \in Seq(TabRows) /\ Tabs' = Tabs
  BY TabFacts DEF Tabs
<1>2. \A q \in Tabs : tabs'[q] = IF q = r THEN t ELSE tabs[q]
  BY DEF Tabs
<1>3. \A q \in Tabs' : Placed(tabs'[q])
  BY <1>1, <1>2 DEF WInv
<1>4. QED
  BY <1>1, <1>3 DEF WInv, Browsed, Placed, Tabs

\* A request gets to another place, with nothing else changed but, perhaps, the
\* cookie its answer sets.
LEMMA EndsAs ==
    ASSUME WInv, NEW r \in Tabs, UNCHANGED <<cookie, key, mailbox, arrived>>,
           NEW how \in {"kept", "shown", "broken", "connecting", "selecting", "leaving"}, Ends(r, how),
           how \in {"connecting", "selecting", "leaving"} => tabs[r].user \in MailUsers,
           how = "leaving" => tabs[r].op = "login"
    PROVE  WInv'
<1> DEFINE t == [tabs[r] EXCEPT !.at = how]
<1>1. tabs' = [tabs EXCEPT ![r] = t]
  BY DEF Ends
<1>2. t \in TabRows /\ t.at = how /\ t.op = tabs[r].op /\ t.user = tabs[r].user
  BY TabFacts DEF TabRows
<1> HIDE DEF t
<1>3. Placed(t)
  BY <1>2 DEF Placed
<1>4. cookie' \in Cookies
  BY DEF WInv, Browsed
<1>5. QED
  BY <1>1, <1>2, <1>3, <1>4, TabMoves

\* A request gets to an answer that sets the cookie.
LEMMA AnswersAs ==
    ASSUME WInv, NEW r \in Tabs, UNCHANGED <<cookie, key, mailbox, arrived>>,
           NEW how \in {"cleared", "accepted"}, NEW sets \in Cookies, Answers(r, how, sets),
           how = "cleared" => sets = NoCookie,
           how = "accepted" => sets.user = tabs[r].user /\ tabs[r].op = "login"
    PROVE  WInv'
<1> DEFINE t == [tabs[r] EXCEPT !.at = how, !.sets = sets]
<1>1. tabs' = [tabs EXCEPT ![r] = t]
  BY DEF Answers
<1>2. t \in TabRows /\ t.at = how /\ t.op = tabs[r].op /\ t.user = tabs[r].user /\ t.sets = sets
  BY TabFacts DEF TabRows
<1> HIDE DEF t
<1>3. Placed(t)
  BY <1>2 DEF Placed
<1>4. cookie' \in Cookies
  BY DEF WInv, Browsed
<1>5. QED
  BY <1>1, <1>2, <1>3, <1>4, TabMoves

\* A click sends the cookie of the moment, an answer that arrives sets its own.
LEMMA BrowserKeeps ==
    ASSUME WInv, WebmailAssumption, Browser
    PROVE  WInv'
<1>1. ASSUME NEW op \in {"login", "logout", "list", "read"}, NEW user \in MailUsers \cup {Blank},
             Click(op, user)
      PROVE  WInv'
  <2> DEFINE t == NewRequest(op, user)
  <2>1. tabs' = Append(tabs, t) /\ UNCHANGED <<cookie, key, mailbox, arrived>>
    BY <1>1 DEF Click
  <2>2. t \in TabRows /\ Placed(t)
    BY DEF WInv, Browsed, NewRequest, TabRows, Placed, Cookies, NoCookie
  <2> HIDE DEF t
  <2>3. tabs \in Seq(TabRows)
    BY DEF WInv, Browsed
  <2>4. tabs' \in Seq(TabRows) /\ \A r \in Tabs' : (r \in Tabs /\ tabs'[r] = tabs[r]) \/ tabs'[r] = t
    BY <2>1, <2>2, <2>3 DEF Tabs
  <2>5. \A r \in Tabs' : Placed(tabs'[r])
    BY <2>2, <2>4 DEF WInv
  <2>6. QED
    BY <2>1, <2>4, <2>5 DEF WInv, Browsed, Placed, Tabs
<1>2. ASSUME NEW r \in Tabs, Arrives(r) PROVE WInv'
  <2> DEFINE t == [tabs[r] EXCEPT !.at = "shown"]
  <2>1. tabs' = [tabs EXCEPT ![r] = t] /\ UNCHANGED <<key, mailbox, arrived>>
    BY <1>2 DEF Arrives, Ends
  <2>2. t \in TabRows /\ t.at = "shown"
    BY TabFacts DEF TabRows
  <2> HIDE DEF t
  <2>3. cookie' \in Cookies
    BY <1>2, TabFacts DEF Arrives, WInv, Browsed
  <2>4. Placed(t)
    BY <2>2 DEF Placed
  <2>5. QED
    BY <2>1, <2>2, <2>3, <2>4, TabMoves
<1>3. QED
  BY <1>1, <1>2 DEF Browser

\* The page of a list holds uids of the mailbox.
LEMMA LatestAreUids ==
    ASSUME NEW s \in Seq(Nat), NEW n \in Nat, n < Len(Latest(s)), WebmailAssumption
    PROVE  Latest(s)[n + 1] \in Nat
<1> DEFINE a == IF Len(s) > Limit THEN Len(s) - Limit + 1 ELSE 1
           page == SubSeq(s, a, Len(s))
<1>1. a \in 1 .. Len(s) + 1 /\ Len(s) \in Nat
  BY DEF WebmailAssumption
<1>2. page \in Seq(Nat)
  BY <1>1, SubSeqProperties
<1>3. Latest(s) = [i \in 1 .. Len(page) |-> page[(Len(page) - i) + 1]]
  BY DEF Latest, Reverse
<1> HIDE DEF page
<1>4. Len(page) \in Nat
  BY <1>2
<1>5. Len(Latest(s)) = Len(page)
  BY <1>3, <1>4
<1>6. n + 1 \in 1 .. Len(page) /\ (Len(page) - (n + 1)) + 1 \in 1 .. Len(page)
  BY <1>4, <1>5
<1>7. page[(Len(page) - (n + 1)) + 1] \in Nat
  BY <1>2, <1>6
<1>8. QED
  BY <1>3, <1>6, <1>7

\* Mail that comes or goes, and a restart of the program, keep it.
LEMMA OutsideKeeps ==
    ASSUME WInv, Restarts \/ \E u \in MailUsers : MailArrives(u) \/ Expunged(u)
    PROVE  WInv'
<1>1. ASSUME NEW u \in MailUsers, MailArrives(u) PROVE WInv'
  BY <1>1 DEF MailArrives, WInv, Browsed, Tabs, Placed
<1>2. ASSUME NEW u \in MailUsers, Expunged(u) PROVE WInv'
  <2>1. PICK i \in DOMAIN mailbox[u] : mailbox' = [mailbox EXCEPT ![u] = RemoveAt(@, i)]
    BY <1>2 DEF Expunged
  <2>2. mailbox[u] \in Seq(Nat)
    BY DEF WInv, Browsed
  <2>3. mailbox' \in [MailUsers -> Seq(Nat)]
    BY <2>1, <2>2, RemovedAt DEF WInv, Browsed
  <2>4. QED
    BY <1>2, <2>3 DEF Expunged, WInv, Browsed, Tabs, Placed
<1>3. CASE Restarts
  <2>1. \A r \in Tabs : [tabs[r] EXCEPT !.at = "broken"] \in TabRows
                        /\ [tabs[r] EXCEPT !.at = "broken"].at = "broken"
    BY TabFacts DEF TabRows
  <2>2. tabs \in Seq(TabRows) /\ Len(tabs) \in Nat /\ Tabs = 1 .. Len(tabs)
    BY DEF WInv, Browsed, Tabs
  <2>3. \A r \in Tabs : tabs[r] \in TabRows /\ Placed(tabs[r])
    BY TabFacts
  <2>4. tabs' \in [1 .. Len(tabs) -> TabRows]
    BY <1>3, <2>1, <2>2, <2>3 DEF Restarts
  <2>5. tabs' \in Seq(TabRows) /\ Tabs' = Tabs
    BY <2>2, <2>4, SeqDef DEF Tabs
  <2>6. \A r \in Tabs : tabs'[r] = tabs[r] \/ tabs'[r].at = "broken"
    BY <1>3, <2>1 DEF Restarts
  <2>7. \A r \in Tabs' : Placed(tabs[r])'
    BY <2>3, <2>5, <2>6 DEF Placed
  <2>8. key' \in Nat /\ UNCHANGED <<cookie, mailbox, arrived>>
    BY <1>3 DEF Restarts, WInv, Browsed
  <2>9. QED
    BY <2>5, <2>7, <2>8 DEF WInv, Browsed
<1>4. QED
  BY <1>1, <1>2, <1>3

\* The handlers up to the thread and the sign-in keep it.
LEMMA HandlersKeep ==
    ASSUME WInv, WebmailAssumption, NEW r \in Tabs,
           \/ LoginBegins(r) \/ LogoutHandled(r) \/ MailBegins(r)
           \/ SignInFails(r) \/ ConnectAndLogin(r) \/ Raises(r) \/ StoreCredentials(r)
    PROVE  WInv'
<1> USE TabFacts
<1>1. CASE LoginBegins(r)
  BY <1>1, EndsAs DEF LoginBegins
<1>2. CASE LogoutHandled(r)
  BY <1>2, AnswersAs DEF LogoutHandled, Cookies
<1>3. CASE MailBegins(r)
  <2>1. CASE ReadCredentials(tabs[r].cookie) = NoCookie
    BY <1>3, <2>1, EndsAs DEF MailBegins
  <2>2. CASE ReadCredentials(tabs[r].cookie) # NoCookie
    <3> DEFINE u == ReadCredentials(tabs[r].cookie).user
               t == [tabs[r] EXCEPT !.at = "connecting", !.user = u]
    <3>1. u \in MailUsers
      <4>1. ReadCredentials(tabs[r].cookie) \in [key : Nat, user : MailUsers]
        BY <2>2 DEF ReadCredentials, Cookies
      <4>2. QED
        BY <4>1
    <3>2. tabs' = [tabs EXCEPT ![r] = t] /\ UNCHANGED <<cookie, key, mailbox, arrived>>
      BY <1>3, <2>2 DEF MailBegins
    <3> HIDE DEF u
    <3>3. t \in TabRows /\ t.at = "connecting" /\ t.user = u
      BY <3>1 DEF TabRows
    <3> HIDE DEF t
    <3>4. Placed(t) /\ cookie' \in Cookies
      BY <3>1, <3>2, <3>3 DEF Placed, WInv, Browsed
    <3>5. QED
      BY <3>2, <3>3, <3>4, TabMoves
  <2>3. QED
    BY <2>1, <2>2
<1>4. CASE SignInFails(r)
  BY <1>4, EndsAs, AnswersAs DEF SignInFails, Cookies
<1>5. CASE ConnectAndLogin(r)
  BY <1>5, EndsAs DEF ConnectAndLogin, Placed
<1>6. CASE Raises(r)
  BY <1>6, EndsAs DEF Raises
<1>7. CASE StoreCredentials(r)
  <2>1. tabs[r].op = "login" /\ tabs[r].user \in MailUsers
    BY <1>7 DEF StoreCredentials, Placed
  <2>2. SessionOf(tabs[r].user) \in Cookies /\ SessionOf(tabs[r].user).user = tabs[r].user
    BY <2>1 DEF SessionOf, Cookies, WInv, Browsed
  <2>3. QED
    BY <1>7, <2>1, <2>2, AnswersAs DEF StoreCredentials
<1>8. QED
  BY <1>1, <1>2, <1>3, <1>4, <1>5, <1>6, <1>7

\* Listing and reading keep it, and set no cookie.
LEMMA PagesKeep ==
    ASSUME WInv, WebmailAssumption, NEW r \in Tabs,
           Search(r) \/ FetchHeader(r) \/ ListAnswered(r) \/ FetchBody(r)
    PROVE  WInv'
<1> USE TabFacts
<1>1. CASE ListAnswered(r) \/ FetchBody(r)
  BY <1>1, EndsAs DEF ListAnswered, FetchBody
<1>2. CASE Search(r) /\ Ends(r, "kept")
  BY <1>2, EndsAs DEF Search
<1>3. CASE Search(r) /\ ~Ends(r, "kept")
  <2> DEFINE t == [tabs[r] EXCEPT !.at = "fetching", !.found = mailbox[tabs[r].user]]
  <2>1. tabs' = [tabs EXCEPT ![r] = t] /\ UNCHANGED <<cookie, key, mailbox, arrived>>
    BY <1>3 DEF Search
  <2>2. tabs[r].user \in MailUsers
    BY <1>3 DEF Search, Placed
  <2>3. mailbox[tabs[r].user] \in Seq(Nat) /\ cookie' \in Cookies
    BY <2>1, <2>2 DEF WInv, Browsed
  <2>4. t \in TabRows /\ t.at = "fetching" /\ t.user = tabs[r].user
    BY <2>3 DEF TabRows
  <2> HIDE DEF t
  <2>5. Placed(t)
    BY <2>2, <2>4 DEF Placed
  <2>6. QED
    BY <2>1, <2>3, <2>4, <2>5, TabMoves
<1>4. CASE FetchHeader(r)
  <2> DEFINE uid == Latest(tabs[r].found)[Len(tabs[r].rows) + 1]
             row == [uid |-> uid, blank |-> ~Contains(mailbox[tabs[r].user], uid)]
             t == [tabs[r] EXCEPT !.rows = Append(tabs[r].rows, row)]
  <2>1. tabs' = [tabs EXCEPT ![r] = t] /\ UNCHANGED <<cookie, key, mailbox, arrived>>
        /\ tabs[r].at = "fetching" /\ Len(tabs[r].rows) < Len(Latest(tabs[r].found))
    BY <1>4 DEF FetchHeader
  <2>2. uid \in Nat
    <3>1. tabs[r].found \in Seq(Nat) /\ Len(tabs[r].rows) \in Nat
      OBVIOUS
    <3>2. QED
      BY <2>1, <3>1, LatestAreUids
  <2> HIDE DEF uid
  <2>3. row \in ListRows
    BY <2>2 DEF ListRows, Contains
  <2> HIDE DEF row
  <2>4. Append(tabs[r].rows, row) \in Seq(ListRows)
    BY <2>3
  <2>5. t \in TabRows /\ t.at = "fetching" /\ t.user = tabs[r].user
    BY <2>1, <2>4 DEF TabRows
  <2> HIDE DEF t
  <2>6. Placed(t) /\ cookie' \in Cookies
    BY <2>1, <2>5 DEF Placed, WInv, Browsed
  <2>7. QED
    BY <2>1, <2>5, <2>6, TabMoves
<1>5. QED
  BY <1>1, <1>2, <1>3, <1>4

\* Every step of the webmail keeps it.
LEMMA NextWInv == WInv /\ [WebmailNext]_webmailVars => WInv'
<1> SUFFICES ASSUME WInv, [WebmailNext]_webmailVars PROVE WInv'
  OBVIOUS
<1>1. CASE UNCHANGED webmailVars
  BY <1>1 DEF webmailVars, WInv, Browsed, Tabs, Placed
<1>2. CASE Browser \/ Restarts \/ \E u \in MailUsers : MailArrives(u) \/ Expunged(u)
  BY <1>2, BrowserKeeps, OutsideKeeps, WebmailAssumption
<1>3. ASSUME NEW r \in Tabs,
             \/ LoginBegins(r) \/ LogoutHandled(r) \/ MailBegins(r)
             \/ SignInFails(r) \/ ConnectAndLogin(r) \/ Raises(r) \/ StoreCredentials(r)
             \/ Search(r) \/ FetchHeader(r) \/ ListAnswered(r) \/ FetchBody(r)
      PROVE  WInv'
  BY <1>3, HandlersKeep, PagesKeep, WebmailAssumption
<1>4. QED
  BY <1>1, <1>2, <1>3 DEF WebmailNext

\* A browser that was signed out stays so until a login that the server accepted is
\* answered, for any number of tabs, requests and restarts (handle_logout,
\* handle_inbox, handle_mail_get, handle_login_post).
THEOREM StaysSignedOut == WebmailSpec => SignedOutStays
<1>1. ASSUME WInv, [WebmailNext]_webmailVars, cookie = NoCookie, cookie' # NoCookie
      PROVE  \E r \in Tabs : /\ tabs[r].op = "login" /\ tabs[r].at = "accepted" /\ tabs'[r].at = "shown"
                             /\ cookie'.user = tabs[r].user
  <2>1. PICK r \in Tabs : Arrives(r)
    BY <1>1 DEF WebmailNext, webmailVars, Browser, Click, MailArrives, Expunged, Restarts,
                LoginBegins, LogoutHandled, MailBegins, SignInFails, ConnectAndLogin, Raises,
                StoreCredentials, Search, FetchHeader, ListAnswered, FetchBody
  <2>2. Placed(tabs[r]) /\ tabs[r] \in TabRows
    BY <1>1, TabFacts
  <2>3. tabs[r].at = "accepted" /\ cookie' = tabs[r].sets
    BY <1>1, <2>1, <2>2 DEF Arrives, Placed
  <2>4. tabs'[r].at = "shown"
    BY <2>1, <2>2 DEF Arrives, Ends, Tabs, TabRows
  <2>5. QED
    BY <2>2, <2>3, <2>4 DEF Placed
<1>2. WInv /\ [WebmailNext]_webmailVars =>
        [cookie = NoCookie /\ cookie' # NoCookie =>
           \E r \in Tabs : /\ tabs[r].op = "login" /\ tabs[r].at = "accepted" /\ tabs'[r].at = "shown"
                           /\ cookie'.user = tabs[r].user]_webmailVars
  BY <1>1
<1>3. QED
  BY <1>2, InitWInv, NextWInv, PTL DEF WebmailSpec, SignedOutStays

-----------------------------------------------------------------------------
(***************************************************************************)
(* EmojiFilter: the match is a nearest one.                                *)
(*                                                                         *)
(* The loop over the known hashes is a recursive function: that there is   *)
(* one, and what it has found after n of them, is shown of the least n for *)
(* which it would not be so.                                               *)
(***************************************************************************)

\* A distance is a number.
LEMMA DistanceIsNumber ==
    ASSUME NEW a, NEW b
    PROVE  HammingDistance(a, b) \in Nat
<1>1. IsFiniteSet(1..Bits)
  BY FS_Interval, FilterAssumption
<1>2. IsFiniteSet({i \in 1..Bits : a[i] # b[i]})
  BY <1>1, FS_Subset
<1>. QED  BY <1>2, FS_CardinalityType DEF HammingDistance

\* No hash is none.
LEMMA HashIsSome == NoMatch \notin Hashes
<1>1. ASSUME NoMatch \in Hashes PROVE FALSE
  <2>1. DOMAIN NoMatch = 1..Bits /\ 1 \in 1..Bits
    BY <1>1, FilterAssumption DEF Hashes
  <2>2. DOMAIN NoMatch = {}
    BY DEF NoMatch
  <2>. QED  BY <2>1, <2>2
<1>. QED  BY <1>1

\* What the loop has found among the first n.
Nearest(h, m, db, n) ==
    /\ m = NoMatch => \A j \in 1..n : HammingDistance(h, db[j]) > Threshold
    /\ m # NoMatch => /\ \E j \in 1..n : m = db[j]
                      /\ HammingDistance(h, m) <= Threshold
                      /\ \A j \in 1..n : HammingDistance(h, m) <= HammingDistance(h, db[j])
                                         \/ HammingDistance(h, db[j]) > Threshold

\* One more.
LEMMA NearestGoesOn ==
    ASSUME NEW h, NEW m, NEW db, NEW n \in Nat, Nearest(h, m, db, n), db[n + 1] # NoMatch
    PROVE  Nearest(h, Nearer(h, m, db[n + 1]), db, n + 1)
<1>. DEFINE c == db[n + 1]
            H(x) == HammingDistance(h, x)
<1>1. Threshold \in Nat /\ \A x : H(x) \in Nat
  BY FilterAssumption, DistanceIsNumber
<1>2. \A j \in 1..(n + 1) : j \in 1..n \/ j = n + 1
  OBVIOUS
<1>3. n + 1 \in 1..(n + 1) /\ \A j \in 1..n : j \in 1..(n + 1)
  OBVIOUS
<1>. HIDE DEF H
<1>4. /\ m = NoMatch => \A j \in 1..n : H(db[j]) > Threshold
      /\ m # NoMatch => /\ \E j \in 1..n : m = db[j]
                        /\ H(m) <= Threshold
                        /\ \A j \in 1..n : H(m) <= H(db[j]) \/ H(db[j]) > Threshold
  BY DEF Nearest, H
<1>5. CASE H(c) <= Threshold /\ (m = NoMatch \/ H(c) < H(m))
  <2>1. Nearer(h, m, c) = c
    BY <1>5 DEF Nearer, H
  <2>2. ASSUME NEW j \in 1..(n + 1) PROVE H(c) <= H(db[j]) \/ H(db[j]) > Threshold
    <3>1. CASE j = n + 1
      BY <1>1, <3>1
    <3>2. CASE j \in 1..n
      <4>1. H(c) \in Nat /\ H(m) \in Nat /\ H(db[j]) \in Nat
        BY <1>1
      <4>2. H(db[j]) > Threshold \/ (m # NoMatch /\ H(m) <= H(db[j]))
        BY <1>4, <3>2
      <4>. QED  BY <1>5, <4>1, <4>2
    <3>. QED  BY <1>2, <3>1, <3>2
  <2>3. \E j \in 1..(n + 1) : c = db[j]
    BY <1>3
  <2>. QED  BY <1>5, <2>1, <2>2, <2>3 DEF Nearest, H
<1>6. CASE ~(H(c) <= Threshold /\ (m = NoMatch \/ H(c) < H(m)))
  <2>1. Nearer(h, m, c) = m
    BY <1>6 DEF Nearer, H
  <2>2. H(c) > Threshold \/ (m # NoMatch /\ H(m) <= H(c))
    <3>1. H(c) \in Nat /\ H(m) \in Nat
      BY <1>1
    <3>. QED  BY <1>1, <1>6, <3>1
  <2>3. CASE m = NoMatch
    <3>1. \A j \in 1..(n + 1) : H(db[j]) > Threshold
      BY <1>2, <1>4, <2>2, <2>3
    <3>. QED  BY <2>1, <2>3, <3>1 DEF Nearest, H
  <2>4. CASE m # NoMatch
    <3>1. \A j \in 1..(n + 1) : H(m) <= H(db[j]) \/ H(db[j]) > Threshold
      BY <1>2, <1>4, <2>2, <2>4
    <3>2. \E j \in 1..(n + 1) : m = db[j]
      BY <1>3, <1>4, <2>4
    <3>. QED  BY <1>4, <2>1, <2>4, <3>1, <3>2 DEF Nearest, H
  <2>. QED  BY <2>3, <2>4
<1>. QED  BY <1>5, <1>6

\* The loop as a function of how many hashes it has gone over.
Loops(g, h, db, n) ==
    g = [i \in 0..n |-> IF i = 0 THEN NoMatch ELSE Nearer(h, g[i - 1], db[i])]

\* There is one.
LEMMA LoopIs ==
    ASSUME NEW h, NEW db, NEW n \in Nat
    PROVE  \E g : Loops(g, h, db, n)
<1>. DEFINE Bad == {k \in Nat : ~ \E g : Loops(g, h, db, k)}
<1>1. ASSUME Bad # {} PROVE FALSE
  <2>1. PICK m \in Bad : \A k \in Bad : m <= k
    BY <1>1, Least
  <2>2. m # 0
    <3>. DEFINE one == [i \in 0..0 |-> NoMatch]
    <3>1. Loops(one, h, db, 0)
      BY DEF Loops
    <3>. QED  BY <2>1, <3>1
  <2>3. m \in Nat /\ m - 1 \in Nat /\ m - 1 \notin Bad
    BY <2>1, <2>2
  <2>4. PICK g : Loops(g, h, db, m - 1)
    BY <2>3
  <2>. DEFINE more == [i \in 0..m |-> IF i = m THEN Nearer(h, g[m - 1], db[m]) ELSE g[i]]
  <2>5. ASSUME NEW i \in 0..m
        PROVE  more[i] = IF i = 0 THEN NoMatch ELSE Nearer(h, more[i - 1], db[i])
    <3>1. CASE i = m
      <4>1. m - 1 \in 0..m /\ m - 1 # m
        BY <2>2, <2>3
      <4>. QED  BY <2>2, <3>1, <4>1
    <3>2. CASE i # m
      <4>1. i \in 0..(m - 1) /\ more[i] = g[i]
        BY <2>3, <3>2
      <4>2. g[i] = IF i = 0 THEN NoMatch ELSE Nearer(h, g[i - 1], db[i])
        BY <2>4, <4>1 DEF Loops
      <4>3. i # 0 => i - 1 \in 0..m /\ i - 1 # m
        BY <2>3, <4>1
      <4>. QED  BY <4>1, <4>2, <4>3
    <3>. QED  BY <3>1, <3>2
  <2>6. Loops(more, h, db, m)
    BY <2>5 DEF Loops
  <2>. QED  BY <2>1, <2>6
<1>. QED  BY <1>1

\* What it has found in the end.
LEMMA FuzzyMatchIsNearest ==
    ASSUME NEW h, NEW db, Len(db) \in Nat, \A i \in 1..Len(db) : db[i] # NoMatch
    PROVE  Nearest(h, FuzzyMatch(h, db), db, Len(db))
<1>. DEFINE f == CHOOSE g : Loops(g, h, db, Len(db))
<1>1. Loops(f, h, db, Len(db))
  BY LoopIs
<1>2. FuzzyMatch(h, db) = f[Len(db)]
  BY DEF FuzzyMatch, Loops
<1>. HIDE DEF f
<1>3. PICK n \in Nat : n = Len(db)
  OBVIOUS
<1>. DEFINE Bad == {k \in 0..n : ~ Nearest(h, f[k], db, k)}
<1>4. ASSUME Bad # {} PROVE FALSE
  <2>1. PICK m \in Bad : \A k \in Bad : m <= k
    <3>1. Bad \subseteq Nat
      BY <1>3
    <3>. QED  BY <1>4, <3>1, Least
  <2>2. m # 0
    <3>1. f[0] = NoMatch
      BY <1>1, <1>3 DEF Loops
    <3>2. Nearest(h, f[0], db, 0)
      BY <3>1 DEF Nearest
    <3>. QED  BY <2>1, <3>2
  <2>3. m \in 1..n /\ m - 1 \in Nat /\ m - 1 \in 0..n /\ (m - 1) + 1 = m /\ m - 1 \notin Bad
    BY <1>3, <2>1, <2>2
  <2>4. PICK k \in Nat : k = m - 1 /\ k + 1 = m
    BY <2>3
  <2>5. Nearest(h, f[k], db, k)
    BY <2>3, <2>4
  <2>6. Nearest(h, Nearer(h, f[k], db[k + 1]), db, k + 1)
    BY <1>3, <2>3, <2>4, <2>5, NearestGoesOn
  <2>7. f[m] = Nearer(h, f[m - 1], db[m])
    BY <1>1, <1>3, <2>2, <2>3 DEF Loops
  <2>. QED  BY <2>1, <2>4, <2>6, <2>7
<1>5. n \in 0..n
  BY <1>3
<1>. QED  BY <1>2, <1>3, <1>4, <1>5

\* What is judged is judged by the hashes that are known.
FilterInv ==
    /\ known \in Seq(Hashes)
    /\ judged.image # NoMatch => /\ judged.match = FuzzyMatch(judged.image, known)
                                 /\ judged.decision = Decision(judged.signal, judged.match)
                                 /\ judged.signal \in Signals

\* Whatever order the set of known hashes is read in, nothing is judged yet.
LEMMA FilterStarts == FilterInit => FilterInv
<1>. SUFFICES ASSUME FilterInit PROVE FilterInv
  OBVIOUS
<1>1. known \in Seq(Hashes)
  <2>1. PICK k \in 0..MaxKnown : \E s \in kSubset(k, Hashes) : known \in SetToSeqs(s)
    BY DEF FilterInit
  <2>2. PICK s \in kSubset(k, Hashes) : known \in SetToSeqs(s)
    BY <2>1
  <2>3. s \subseteq Hashes /\ Cardinality(s) = k /\ k \in Nat
    BY <2>1, <2>2, FilterAssumption DEF kSubset
  <2>4. known \in [1..k -> s]
    BY <2>3, <2>2 DEF SetToSeqs
  <2>. DEFINE H == Hashes
  <2>5. s \subseteq H
    BY <2>3
  <2>. HIDE DEF H
  <2>6. known \in Seq(H)
    BY <2>3, <2>4, <2>5
  <2>. QED  BY <2>6 DEF H
<1>2. judged.image = NoMatch
  BY DEF FilterInit, NotJudged
<1>. QED  BY <1>1, <1>2 DEF FilterInv

\* Each judgement is made of the hashes known at that time, which stay.
LEMMA FilterKeeps == FilterInv /\ [FilterNext]_filterVars => FilterInv'
<1>. SUFFICES ASSUME FilterInv, [FilterNext]_filterVars PROVE FilterInv'
  OBVIOUS
<1>1. CASE UNCHANGED filterVars
  BY <1>1 DEF filterVars, FilterInv
<1>2. CASE EvaluateEmpty
  BY <1>2 DEF EvaluateEmpty, NotJudged, FilterInv
<1>3. CASE \E image \in Hashes, signal \in Signals : Evaluate(image, signal)
  <2>1. PICK image \in Hashes, signal \in Signals : Evaluate(image, signal)
    BY <1>3
  <2>. DEFINE m == FuzzyMatch(image, known)
  <2>2. /\ judged' = [image |-> image, signal |-> signal, match |-> m, decision |-> Decision(signal, m)]
        /\ known' = known
    BY <2>1 DEF Evaluate
  <2>3. FuzzyMatch(image, known)' = m
    BY <2>2
  <2>. HIDE DEF m
  <2>4. /\ judged'.image = image /\ judged'.signal = signal /\ judged'.match = m
        /\ judged'.decision = Decision(signal, m)
    BY <2>2
  <2>. QED  BY <2>2, <2>4 DEF FilterInv, m
<1>. QED  BY <1>1, <1>2, <1>3 DEF FilterNext

\* In whatever order a set yields its hashes, the match is a nearest one
\* within the threshold, and nothing within it is approved, also when the
\* text says nothing (check_known_infringement_fuzzy, evaluate).
THEOREM NothingCloseIsApproved == FilterSpec => []InfringementIsCaught
<1>1. FilterInv => InfringementIsCaught
  <2>. SUFFICES ASSUME FilterInv, judged.image # NoMatch PROVE InfringementIsCaught
    BY DEF InfringementIsCaught
  <2>. DEFINE h == judged.image
              m == judged.match
              close == {k \in ToSet(known) : HammingDistance(h, k) <= Threshold}
  <2>1. /\ m = FuzzyMatch(h, known) /\ judged.decision = Decision(judged.signal, m)
        /\ judged.signal \in Signals
    BY DEF FilterInv
  <2>2. Len(known) \in Nat /\ DOMAIN known = 1..Len(known) /\ \A i \in 1..Len(known) : known[i] # NoMatch
    <3>. DEFINE H == Hashes
    <3>1. known \in Seq(H) /\ NoMatch \notin H
      BY HashIsSome DEF FilterInv
    <3>. HIDE DEF H
    <3>. QED  BY <3>1
  <2>3. Nearest(h, m, known, Len(known))
    BY <2>1, <2>2, FuzzyMatchIsNearest
  <2>4. ToSet(known) = {known[i] : i \in 1..Len(known)}
    BY <2>2 DEF ToSet
  <2>5. Threshold \in Nat /\ \A x : HammingDistance(h, x) \in Nat
    BY FilterAssumption, DistanceIsNumber
  <2>. HIDE DEF m, h
  <2>6. m = NoMatch => close = {}
    BY <2>3, <2>4, <2>5 DEF Nearest
  <2>7. m # NoMatch => m \in close
    BY <2>3, <2>4 DEF Nearest
  <2>8. \A k \in close : m # NoMatch => HammingDistance(h, m) <= HammingDistance(h, k)
    BY <2>3, <2>4, <2>5 DEF Nearest
  <2>9. judged.decision \in {"approved", "pending"} => m = NoMatch
    BY <2>1 DEF Decision, Signals
  <2>10. close = {} <=> m = NoMatch
    BY <2>6, <2>7
  <2>11. \A k \in close : HammingDistance(h, m) <= HammingDistance(h, k)
    BY <2>6, <2>8
  <2>12. judged.decision \in {"approved", "pending"} => close = {}
    BY <2>9, <2>10
  <2>. QED  BY <2>10, <2>11, <2>12 DEF InfringementIsCaught, h, m
<1>. QED  BY <1>1, FilterStarts, FilterKeeps, PTL DEF FilterSpec

-----------------------------------------------------------------------------
(***************************************************************************)
(* FaqBot: what the model is asked is grounded, for any askers, questions, *)
(* entries and fits, and caches of any size.                               *)
(***************************************************************************)

\* The entry at place i goes before the one at place j, by what they are worth.
Beats(w, es, i, j) ==
    w[es[i]] > w[es[j]] \/ (w[es[i]] = w[es[j]] /\ i < j)

\* The places g are the best TopK of the first h that fit, in order.
IsBest(g, h, w, es) ==
    /\ h \in 0 .. Len(es)
    /\ Len(g) = Min({TopK, Cardinality({i \in 1 .. h : w[es[i]] > 0})})
    /\ \A x \in DOMAIN g :
         /\ g[x] \in 1 .. h /\ w[es[g[x]]] > 0
         /\ \A i \in 1 .. h : Beats(w, es, i, g[x]) => \E y \in 1 .. (x - 1) : g[y] = i

IsLast(turns, s) ==
    IsSuffix(turns, s) /\ Len(turns) = Min({2 * MaxTurns, Len(s)})

\* A vector in the cache is that of its text.
CacheRows == {[text |-> x, vector |-> x] : x \in Vectors}

AskerStages == {"idle", "lookup", "computing", "ranking", "donations", "composing", "calling"}
CuratorStages == {"idle", "lookup", "computing", "filing", "filing vector"}
Calling == [at : AskerStages \cup CuratorStages, text : Vectors \cup {0}, vector : Vectors \cup {0},
            given : Seq(Nat), held : Nat, turns : Seq(BotMessages), tries : 0 .. Tries]

\* What is known of a call from its stage on, the fits being f, the entries es and
\* the conversation s.
CuratorOk(t) ==
    /\ t.at \in CuratorStages
    /\ t.at # "idle" => t.text \in Entries
    /\ t.at \in {"filing", "filing vector"} => t.vector \in Vectors
AskerOk(t, f, es, s) ==
    /\ t.at \in AskerStages
    /\ t.at # "idle" => t.text \in Questions
    /\ t.at \in {"ranking", "donations", "composing", "calling"} => t.vector = t.text
    /\ t.at \in {"donations", "composing", "calling"} => IsBest(t.given, t.held, f[t.text], es)
    /\ t.at = "calling" => IsLast(t.turns, s)

FaqInv ==
    /\ fit \in [Vectors -> [Entries -> 0 .. 2]]
    /\ entries \in Seq(Entries) /\ vectors \in Seq(Vectors)
    /\ cache \in Seq(CacheRows) /\ Len(cache) <= MaxCache
    /\ talk \in [Askers -> Seq(BotMessages)]
    /\ thread \in [Threads -> Calling]
    /\ CuratorOk(thread[Curator])
    /\ \A a \in Askers : AskerOk(thread[a], fit, entries, talk[a])

\* The smaller one of two numbers.
LEMMA MinOfTwo ==
    ASSUME NEW m \in Nat, NEW n \in Nat
    PROVE  Min({m, n}) = IF n < m THEN n ELSE m
<1>. DEFINE d == IF n < m THEN n ELSE m
<1>1. d \in {m, n} /\ \A y \in {m, n} : d <= y
  OBVIOUS
<1>2. \A x \in {m, n} : (\A y \in {m, n} : x <= y) => x = d
  OBVIOUS
<1>. HIDE DEF d
<1>3. (CHOOSE x \in {m, n} : \A y \in {m, n} : x <= y) = d
  BY ONLY <1>1, <1>2
<1>. QED  BY <1>3 DEF Min, d

\* The best of what fits, cut after TopK, is what a search has to give.
LEMMA BestOnes ==
    ASSUME NEW es \in Seq(Entries), NEW w \in [Entries -> 0 .. 2], NEW h \in 0 .. Len(es),
           NEW K, K = {i \in 1 .. h : w[es[i]] > 0},
           NEW R, R = {p \in K \X K : Beats(w, es, p[1], p[2])}
    PROVE  /\ FirstOf(InOrder(K, R), TopK) \in Seq(Nat)
           /\ IsBest(FirstOf(InOrder(K, R), TopK), h, w, es)
<1>. DEFINE s == InOrder(K, R)
            c == Cardinality(K)
            n == IF c < TopK THEN c ELSE TopK
            g == FirstOf(s, TopK)
<1>1. h \in Nat /\ TopK \in Nat /\ \A i \in 1 .. h : es[i] \in Entries /\ w[es[i]] \in 0 .. 2
  <2>1. TopK \in Nat
    BY FaqAssumption DEF ValidConfig
  <2>2. h \in Nat /\ \A i \in 1 .. h : es[i] \in Entries
    OBVIOUS
  <2>. QED  BY ONLY <2>1, <2>2, w \in [Entries -> 0 .. 2]
<1>2. IsFiniteSet(K)
  <2>1. IsFiniteSet(1 .. h)
    BY <1>1, FS_Interval
  <2>. QED  BY <2>1, FS_Subset
<1>3. \A i \in 1 .. h : i \in K <=> w[es[i]] > 0
  OBVIOUS
<1>4. K \subseteq 1 .. h
  OBVIOUS
<1>5. \A x, y \in K : <<x, y>> \in R <=> Beats(w, es, x, y)
  OBVIOUS
<1>6. Orders(K, R)
  <2>. DEFINE v == [i \in 1 .. h |-> w[es[i]]]
  <2>1. \A i \in K : i \in Nat /\ v[i] \in Nat
    BY <1>1, <1>4
  <2>2. \A x, y \in K : <<x, y>> \in R <=> v[x] > v[y] \/ (v[x] = v[y] /\ x < y)
    BY <1>4, <1>5 DEF Beats
  <2>. HIDE DEF v
  <2>3. \A x \in K : <<x, x>> \notin R
    BY ONLY <2>1, <2>2
  <2>4. \A x, y, z \in K : <<x, y>> \in R /\ <<y, z>> \in R => <<x, z>> \in R
    <3>. SUFFICES ASSUME NEW x \in K, NEW y \in K, NEW z \in K, <<x, y>> \in R, <<y, z>> \in R
                  PROVE  <<x, z>> \in R
      OBVIOUS
    <3>1. /\ v[x] > v[y] \/ (v[x] = v[y] /\ x < y)
          /\ v[y] > v[z] \/ (v[y] = v[z] /\ y < z)
      BY <2>2
    <3>2. x \in Nat /\ y \in Nat /\ z \in Nat /\ v[x] \in Nat /\ v[y] \in Nat /\ v[z] \in Nat
      BY <2>1
    <3>3. v[x] > v[z] \/ (v[x] = v[z] /\ x < z)
      BY ONLY <3>1, <3>2
    <3>. QED  BY <2>2, <3>3
  <2>5. ASSUME NEW x \in K, NEW y \in K PROVE x = y \/ <<x, y>> \in R \/ <<y, x>> \in R
    <3>1. x \in Nat /\ y \in Nat /\ v[x] \in Nat /\ v[y] \in Nat
      BY <2>1
    <3>2. x = y \/ (v[x] > v[y] \/ (v[x] = v[y] /\ x < y)) \/ (v[y] > v[x] \/ (v[y] = v[x] /\ y < x))
      BY ONLY <3>1
    <3>. QED  BY <2>2, <3>2
  <2>. QED  BY ONLY <2>3, <2>4, <2>5 DEF Orders
<1>. HIDE DEF s
<1>a. s = InOrder(K, R)
  BY DEF s
<1>7. /\ c \in Nat /\ s \in [1 .. c -> K] /\ s \in Seq(K) /\ Len(s) = c
      /\ \A x \in K : \E m \in 1 .. c : s[m] = x
      /\ \A m, k \in 1 .. c : m < k => <<s[m], s[k]>> \in R
  BY ONLY <1>2, <1>6, <1>a, Sorting
<1>. HIDE DEF c
<1>8. /\ n \in 0 .. c /\ n = Min({TopK, c}) /\ g = SubSeq(s, 1, n)
  <2>1. g = SubSeq(s, 1, n)
    BY <1>7 DEF FirstOf
  <2>2. n = Min({TopK, c})
    BY <1>1, <1>7, MinOfTwo
  <2>. HIDE DEF g
  <2>. QED  BY <1>1, <1>7, <2>1, <2>2
<1>. HIDE DEF n, g
<1>9. g \in Seq(K) /\ Len(g) = n /\ DOMAIN g = 1 .. n /\ \A x \in 1 .. n : g[x] = s[x]
  <2>1. n \in Int /\ 1 \in Int /\ c \in Nat /\ n \in 0 .. c
    BY ONLY <1>7, <1>8
  <2>2. \A x \in 1 .. n : s[x] \in K
    BY ONLY <1>7, <2>1
  <2>3. /\ SubSeq(s, 1, n) \in Seq(K) /\ Len(SubSeq(s, 1, n)) = n
        /\ \A x \in 1 .. n : SubSeq(s, 1, n)[x] = s[x]
    BY ONLY <2>1, <2>2, SubSeqProperties
  <2>4. g \in Seq(K) /\ Len(g) = n /\ \A x \in 1 .. n : g[x] = s[x]
    <3>1. g = SubSeq(s, 1, n)
      BY ONLY <1>8
    <3>. QED  BY ONLY <2>3, <3>1, Zenon
  <2>5. DOMAIN g = 1 .. Len(g)
    BY ONLY <2>4
  <2>. QED  BY ONLY <2>4, <2>5
<1>10. ASSUME NEW x \in 1 .. n, NEW i \in 1 .. h, Beats(w, es, i, s[x])
       PROVE  \E y \in 1 .. (x - 1) : s[y] = i
  <2>1. x \in 1 .. c /\ s[x] \in K /\ s[x] \in 1 .. h
    BY <1>4, <1>7, <1>8
  <2>2. PICK p \in 0 .. 2 : p = w[es[i]]
    BY <1>1
  <2>3. PICK q \in 0 .. 2 : q = w[es[s[x]]]
    BY <1>1, <2>1
  <2>4. q > 0 /\ (p > q \/ (p = q /\ i < s[x]))
    BY <1>3, <1>10, <2>1, <2>2, <2>3 DEF Beats
  <2>5. p > 0
    BY ONLY <2>4, p \in 0 .. 2, q \in 0 .. 2
  <2>6. i \in K
    BY <1>3, <2>2, <2>5
  <2>7. PICK m \in 1 .. c : s[m] = i
    BY <1>7, <2>6
  <2>8. ~Beats(w, es, s[x], i)
    <3>1. Beats(w, es, s[x], i) <=> q > p \/ (q = p /\ s[x] < i)
      BY <2>2, <2>3 DEF Beats
    <3>2. i \in Nat /\ s[x] \in Nat
      BY <1>1, <2>1
    <3>. QED  BY ONLY <2>4, <3>1, <3>2, p \in 0 .. 2, q \in 0 .. 2
  <2>9. ~(x < m)
    BY <1>5, <1>7, <2>1, <2>6, <2>7, <2>8
  <2>10. i # s[x]
    <3>1. ASSUME i = s[x] PROVE FALSE
      <4>1. p = q /\ s[x] \in Nat
        BY <1>1, <2>1, <2>2, <2>3, <3>1
      <4>. QED  BY ONLY <2>4, <3>1, <4>1, p \in 0 .. 2, q \in 0 .. 2
    <3>. QED  BY <3>1
  <2>11. m # x
    BY <2>7, <2>10
  <2>12. m \in 1 .. (x - 1)
    BY ONLY <1>7, <2>1, <2>9, <2>11, m \in 1 .. c
  <2>. QED  BY <2>7, <2>12
<1>11. g \in Seq(Nat)
  <2>1. \A x \in 1 .. n : g[x] \in Nat
    BY <1>1, <1>4, <1>9
  <2>. QED  BY <1>9, <2>1
<1>12. IsBest(g, h, w, es)
  <2>1. \A x \in 1 .. n : g[x] \in 1 .. h /\ w[es[g[x]]] > 0
    BY <1>3, <1>4, <1>9
  <2>2. ASSUME NEW x \in 1 .. n, NEW i \in 1 .. h, Beats(w, es, i, g[x])
        PROVE  \E y \in 1 .. (x - 1) : g[y] = i
    <3>1. g[x] = s[x]
      BY <1>9
    <3>2. PICK y \in 1 .. (x - 1) : s[y] = i
      BY <1>10, <2>2, <3>1
    <3>3. y \in 1 .. n
      BY <1>7, <1>8
    <3>. QED  BY <1>9, <3>2, <3>3
  <2>3. Len(g) = Min({TopK, Cardinality({i \in 1 .. h : w[es[i]] > 0})})
    BY <1>8, <1>9 DEF c
  <2>. QED  BY <1>9, <2>1, <2>2, <2>3 DEF IsBest
<1>. QED  BY <1>11, <1>12 DEF g, s

\* An entry that is added changes nothing of what was found before.
LEMMA EntriesGrow ==
    ASSUME NEW es \in Seq(Entries), NEW e \in Entries, NEW w \in [Entries -> 0 .. 2],
           NEW g, NEW h, IsBest(g, h, w, es)
    PROVE  IsBest(g, h, w, Append(es, e))
<1>. DEFINE more == Append(es, e)
<1>1. h \in 0 .. Len(es) /\ Len(es) \in Nat /\ Len(more) = Len(es) + 1
  BY DEF IsBest
<1>2. \A i \in 1 .. Len(es) : more[i] = es[i]
  OBVIOUS
<1>. HIDE DEF more
<1>3. h \in 0 .. Len(more) /\ \A i \in 1 .. h : more[i] = es[i]
  BY <1>1, <1>2
<1>4. {i \in 1 .. h : w[more[i]] > 0} = {i \in 1 .. h : w[es[i]] > 0}
  BY <1>3
<1>5. \A i, j \in 1 .. h : Beats(w, more, i, j) <=> Beats(w, es, i, j)
  BY <1>3 DEF Beats
<1>6. \A x \in DOMAIN g : g[x] \in 1 .. h /\ w[more[g[x]]] > 0
  BY <1>3 DEF IsBest
<1>7. ASSUME NEW x \in DOMAIN g, NEW i \in 1 .. h, Beats(w, more, i, g[x])
      PROVE  \E y \in 1 .. (x - 1) : g[y] = i
  <2>1. Beats(w, es, i, g[x])
    BY <1>5, <1>6, <1>7
  <2>. QED  BY <2>1 DEF IsBest
<1>8. Len(g) = Min({TopK, Cardinality({i \in 1 .. h : w[more[i]] > 0})})
  BY <1>4 DEF IsBest
<1>9. IsBest(g, h, w, more)
  BY <1>3, <1>6, <1>7, <1>8 DEF IsBest
<1>. QED  BY <1>9 DEF more

\* The end of a list is a suffix of it.
LEMMA EndIsSuffix ==
    ASSUME NEW T, NEW s \in Seq(T), NEW k \in 0 .. Len(s)
    PROVE  IsSuffix(SubSeq(s, k + 1, Len(s)), s)
<1>. DEFINE l == Len(s)
            m == l - k
            r == SubSeq(s, k + 1, l)
            front == SubSeq(Reverse(s), 1, m)
<1>1. l \in Nat /\ m \in 0 .. l /\ k \in 0 .. l
  OBVIOUS
<1>2. r \in Seq(T) /\ Len(r) = m /\ \A i \in 1 .. m : r[i] = s[k + i]
  BY CutOff
<1>3. Reverse(s) \in Seq(T) /\ Len(Reverse(s)) = l /\ \A i \in 1 .. l : Reverse(s)[i] = s[l - i + 1]
  BY DEF Reverse
<1>. HIDE DEF r
<1>4. Reverse(r) \in Seq(T) /\ Len(Reverse(r)) = m /\ \A i \in 1 .. m : Reverse(r)[i] = r[m - i + 1]
  BY <1>1, <1>2 DEF Reverse
<1>. HIDE DEF l, m
<1>5. front \in Seq(T) /\ Len(front) = m /\ \A i \in 1 .. m : front[i] = Reverse(s)[i]
  BY <1>1, <1>3
<1>. HIDE DEF front
<1>6. ASSUME NEW i \in 1 .. m PROVE Reverse(r)[i] = front[i]
  <2>1. m - i + 1 \in 1 .. m /\ k + (m - i + 1) = l - i + 1 /\ i \in 1 .. l
    BY <1>1 DEF m
  <2>2. Reverse(r)[i] = s[k + (m - i + 1)]
    BY <1>2, <1>4, <2>1
  <2>3. front[i] = s[l - i + 1]
    BY <1>3, <1>5, <2>1
  <2>. QED  BY <2>1, <2>2, <2>3
<1>7. Reverse(r) = front
  BY <1>4, <1>5, <1>6
<1>8. SubSeq(Reverse(r), 1, m) = Reverse(r)
  BY <1>1, <1>4
<1>9. IsPrefix(Reverse(r), Reverse(s))
  BY <1>1, <1>3, <1>4, <1>7, <1>8 DEF IsPrefix, front
<1>. QED  BY <1>9 DEF IsSuffix, r, l

\* A call that is not there, and a thread that comes or goes on.
LEMMA IdleIsFine ==
    /\ Idle \in Calling /\ CuratorOk(Idle)
    /\ \A f, es, s : AskerOk(Idle, f, es, s)
<1>1. Tries \in Nat
  BY FaqAssumption DEF ValidClient
<1>2. <<>> \in Seq(Nat) /\ <<>> \in Seq(BotMessages)
  OBVIOUS
<1>. QED  BY <1>1, <1>2 DEF Idle, Calling, CuratorOk, CuratorStages, AskerOk, AskerStages

\* It holds at the start, of whatever length the conversations are by then.
LEMMA InitFaq == FaqInit => FaqInv
<1>. SUFFICES ASSUME FaqInit PROVE FaqInv
  OBVIOUS
<1>1. fit \in [Vectors -> [Entries -> 0 .. 2]]
  <2>1. PICK f \in Scores :
          fit = [x \in Vectors |-> IF x \in Questions THEN f[x] ELSE [e \in Entries |-> 0]]
    BY DEF FaqInit
  <2>. QED  BY <2>1 DEF Scores, Vectors
<1>2. talk \in [Askers -> Seq(BotMessages)]
  <2>1. PICK n \in {0, 2 * MaxTurns + 1} :
          talk = [a \in Askers |-> [i \in 1 .. n |-> [by |-> "earlier", text |-> i]]]
    BY DEF FaqInit
  <2>. DEFINE m(i) == [by |-> "earlier", text |-> i]
              s == [i \in 1 .. n |-> m(i)]
              B == BotMessages
  <2>2. n \in Nat
    BY FaqAssumption DEF ValidConfig
  <2>3. \A i \in 1 .. n : m(i) \in B
    BY <2>2 DEF BotMessages
  <2>. HIDE DEF m, B
  <2>4. s \in [1 .. n -> B]
    BY ONLY <2>3
  <2>5. s \in Seq(B)
    <3>. HIDE DEF s
    <3>. QED  BY ONLY <2>2, <2>4
  <2>6. talk = [a \in Askers |-> s]
    BY <2>1 DEF m
  <2>. HIDE DEF s
  <2>. QED  BY ONLY <2>5, <2>6 DEF B
<1>3. cache \in Seq(CacheRows) /\ Len(cache) <= MaxCache
  BY FaqAssumption DEF FaqInit, ValidCache
<1>4. thread = [a \in Threads |-> Idle] /\ Curator \in Threads /\ Askers \subseteq Threads
  BY DEF FaqInit, Threads
<1>. QED  BY <1>1, <1>2, <1>3, <1>4, IdleIsFine DEF FaqInv, FaqInit

\* What one asker's call comes to leaves the other calls as they are.
LEMMA AskerMoves ==
    ASSUME FaqInv, NEW a \in Askers, NEW t \in Calling, AskerOk(t, fit, entries, talk[a]),
           thread' = [thread EXCEPT ![a] = t], UNCHANGED <<fit, entries, vectors, talk>>,
           cache' \in Seq(CacheRows), Len(cache') <= MaxCache
    PROVE  FaqInv'
<1>1. a \in Threads /\ a # Curator /\ Curator \in Threads /\ Askers \subseteq Threads
  BY FaqAssumption DEF Threads
<1>2. thread \in [Threads -> Calling]
  BY DEF FaqInv
<1>3. thread' \in [Threads -> Calling] /\ thread'[Curator] = thread[Curator] /\ thread'[a] = t
  BY <1>1, <1>2
<1>4. \A b \in Askers : b # a => thread'[b] = thread[b]
  BY <1>1, <1>2
<1>5. \A b \in Askers : AskerOk(thread'[b], fit, entries, talk[b])
  BY <1>3, <1>4 DEF FaqInv
<1>6. CuratorOk(thread'[Curator])
  BY <1>3 DEF FaqInv
<1>. QED  BY <1>3, <1>5, <1>6 DEF FaqInv

\* What the curator does leaves the askers' calls as they are, with more entries.
LEMMA CuratorMoves ==
    ASSUME FaqInv, NEW t \in Calling, CuratorOk(t), thread' = [thread EXCEPT ![Curator] = t],
           UNCHANGED <<fit, talk>>,
           entries' = entries \/ \E e \in Entries : entries' = Append(entries, e),
           vectors' \in Seq(Vectors), cache' \in Seq(CacheRows), Len(cache') <= MaxCache
    PROVE  FaqInv'
<1>1. Curator \notin Askers /\ Curator \in Threads /\ Askers \subseteq Threads
  BY FaqAssumption DEF Threads
<1>2. thread \in [Threads -> Calling]
  BY DEF FaqInv
<1>3. thread' \in [Threads -> Calling] /\ thread'[Curator] = t
  BY <1>1, <1>2
<1>4. \A a \in Askers : thread'[a] = thread[a]
  BY <1>1, <1>2
<1>5. entries' \in Seq(Entries)
  <2>1. entries \in Seq(Entries) /\ \A e \in Entries : Append(entries, e) \in Seq(Entries)
    BY DEF FaqInv
  <2>. QED  BY <2>1
<1>6. ASSUME NEW a \in Askers PROVE AskerOk(thread[a], fit, entries', talk[a])
  <2>1. AskerOk(thread[a], fit, entries, talk[a])
    BY DEF FaqInv
  <2>2. CASE entries' = entries
    BY <2>1, <2>2
  <2>3. ASSUME NEW e \in Entries, entries' = Append(entries, e)
        PROVE  AskerOk(thread[a], fit, entries', talk[a])
    <3>. DEFINE c == thread[a]
    <3>1. entries \in Seq(Entries) /\ fit \in [Vectors -> [Entries -> 0 .. 2]]
      BY DEF FaqInv
    <3>2. c.at # "idle" => fit[c.text] \in [Entries -> 0 .. 2]
      BY <2>1, <3>1 DEF AskerOk, Vectors
    <3>3. c.at # "idle" /\ IsBest(c.given, c.held, fit[c.text], entries) =>
            IsBest(c.given, c.held, fit[c.text], Append(entries, e))
      BY <3>1, <3>2, EntriesGrow
    <3>. HIDE DEF c
    <3>4. c.at \in {"donations", "composing", "calling"} => c.at # "idle"
      OBVIOUS
    <3>5. AskerOk(c, fit, Append(entries, e), talk[a])
      BY <2>1, <3>3, <3>4 DEF AskerOk, c
    <3>. QED  BY <2>3, <3>5 DEF c
  <2>. QED  BY <2>2, <2>3
<1>7. \A a \in Askers : AskerOk(thread'[a], fit, entries', talk[a])
  BY <1>4, <1>6
<1>. QED  BY <1>3, <1>5, <1>7 DEF FaqInv

\* The cache keeps its size when it is used or filled.
LEMMA CacheKeeps ==
    ASSUME NEW c \in Seq(CacheRows), Len(c) <= MaxCache
    PROVE  /\ \A i \in DOMAIN c : /\ c[i].vector = c[i].text /\ c[i].text \in Vectors
                                  /\ Append(RemoveAt(c, i), c[i]) \in Seq(CacheRows)
                                  /\ Len(Append(RemoveAt(c, i), c[i])) <= MaxCache
           /\ \A x \in Vectors :
                 LET more == OldestGone(Append(c, [text |-> x, vector |-> x]))
                 IN  more \in Seq(CacheRows) /\ Len(more) <= MaxCache
<1>. DEFINE C == CacheRows
<1>1. MaxCache \in Nat /\ MaxCache >= 1 /\ Len(c) \in Nat
  BY FaqAssumption DEF ValidCache
<1>2. \A x \in Vectors : [text |-> x, vector |-> x] \in C
  BY DEF CacheRows
<1>3. \A r \in C : r.vector = r.text /\ r.text \in Vectors
  BY DEF CacheRows
<1>. HIDE DEF C
<1>4. c \in Seq(C)
  BY DEF C
<1>5. ASSUME NEW i \in DOMAIN c
      PROVE  /\ c[i] \in C /\ Append(RemoveAt(c, i), c[i]) \in Seq(C)
             /\ Len(Append(RemoveAt(c, i), c[i])) <= MaxCache
  <2>. DEFINE r == RemoveAt(c, i)
  <2>1. r \in Seq(C) /\ Len(r) = Len(c) - 1
    BY <1>4, RemovedAt
  <2>2. c[i] \in C
    BY <1>4
  <2>. HIDE DEF r
  <2>3. Append(r, c[i]) \in Seq(C) /\ Len(Append(r, c[i])) = Len(r) + 1
    BY <2>1, <2>2
  <2>. QED  BY <1>1, <2>1, <2>2, <2>3 DEF r
<1>6. ASSUME NEW x \in Vectors
      PROVE  /\ OldestGone(Append(c, [text |-> x, vector |-> x])) \in Seq(C)
             /\ Len(OldestGone(Append(c, [text |-> x, vector |-> x]))) <= MaxCache
  <2>. DEFINE d == Append(c, [text |-> x, vector |-> x])
  <2>1. d \in Seq(C) /\ Len(d) = Len(c) + 1
    BY <1>2, <1>4
  <2>. HIDE DEF d
  <2>2. d # <<>> /\ Tail(d) \in Seq(C) /\ Len(Tail(d)) = Len(d) - 1
    BY <1>1, <2>1
  <2>3. OldestGone(d) \in Seq(C) /\ Len(OldestGone(d)) <= MaxCache
    BY <1>1, <2>1, <2>2 DEF OldestGone
  <2>. QED  BY <2>3 DEF d
<1>. QED  BY <1>3, <1>5, <1>6 DEF C

\* The fields of a call.
LEMMA CallFields ==
    ASSUME NEW t \in Calling
    PROVE  \E x1, x2, x3, x4, x5, x6, x7 :
              t = [at |-> x1, text |-> x2, vector |-> x3, given |-> x4,
                   held |-> x5, turns |-> x6, tries |-> x7]
<1>. DEFINE A == AskerStages \cup CuratorStages
            X == Vectors \cup {0}
            G == Seq(Nat)
            U == Seq(BotMessages)
            R == 0 .. Tries
<1>1. t \in [at : A, text : X, vector : X, given : G, held : Nat, turns : U, tries : R]
  BY DEF Calling
<1>. HIDE DEF A, X, G, U, R
<1>. QED  BY ONLY <1>1

\* A call that goes on, with a vector or without.
LEMMA CallBecomes ==
    ASSUME NEW t \in Calling, NEW p, NEW v
    PROVE  /\ [t EXCEPT !.at = p] =
                [at |-> p, text |-> t.text, vector |-> t.vector, given |-> t.given,
                 held |-> t.held, turns |-> t.turns, tries |-> t.tries]
           /\ [[t EXCEPT !.at = p] EXCEPT !.vector = v] =
                [at |-> p, text |-> t.text, vector |-> v, given |-> t.given,
                 held |-> t.held, turns |-> t.turns, tries |-> t.tries]
<1>1. PICK x1, x2, x3, x4, x5, x6, x7 :
        t = [at |-> x1, text |-> x2, vector |-> x3, given |-> x4,
             held |-> x5, turns |-> x6, tries |-> x7]
  BY CallFields
<1>. DEFINE u == [t EXCEPT !.at = p]
<1>2. u = [at |-> p, text |-> t.text, vector |-> t.vector, given |-> t.given,
           held |-> t.held, turns |-> t.turns, tries |-> t.tries]
  BY ONLY <1>1
<1>. HIDE DEF u
<1>3. [u EXCEPT !.vector = v] =
        [at |-> p, text |-> t.text, vector |-> v, given |-> t.given,
         held |-> t.held, turns |-> t.turns, tries |-> t.tries]
  BY ONLY <1>2
<1>. QED  BY <1>2, <1>3 DEF u

\* A thread that has its vector goes on with it.
LEMMA VectorIsUsed ==
    ASSUME FaqInv, NEW a \in Threads, thread[a].at \in {"lookup", "computing"},
           HasVector(a, thread[a].text), UNCHANGED <<fit, entries, vectors, talk>>,
           cache' \in Seq(CacheRows), Len(cache') <= MaxCache
    PROVE  FaqInv'
<1>. DEFINE t == thread[a]
            d == [at |-> IF a = Curator THEN "filing" ELSE "ranking", text |-> t.text, vector |-> t.text,
                  given |-> t.given, held |-> t.held, turns |-> t.turns, tries |-> t.tries]
<1>1. thread \in [Threads -> Calling] /\ t \in Calling /\ Curator \notin Askers
  BY FaqAssumption DEF FaqInv
<1>2. thread' = [thread EXCEPT ![a] = d]
  <2>1. PICK p : p = IF a = Curator THEN "filing" ELSE "ranking"
    OBVIOUS
  <2>2. thread' = [[thread EXCEPT ![a].at = p] EXCEPT ![a].vector = t.text]
    BY <2>1 DEF HasVector
  <2>3. [[t EXCEPT !.at = p] EXCEPT !.vector = t.text] = d
    BY <1>1, <2>1, CallBecomes
  <2>. HIDE DEF d
  <2>4. thread' = [thread EXCEPT ![a] = [[t EXCEPT !.at = p] EXCEPT !.vector = t.text]]
    BY <1>1, <2>2
  <2>. QED  BY <2>3, <2>4
<1>3. d \in Calling
  BY <1>1 DEF Calling, AskerStages, CuratorStages
<1>4. CASE a = Curator
  <2>1. CuratorOk(t)
    BY <1>4 DEF FaqInv
  <2>2. CuratorOk(d)
    BY <1>4, <2>1 DEF CuratorOk, CuratorStages, Vectors
  <2>3. vectors' \in Seq(Vectors) /\ entries' = entries
    BY DEF FaqInv
  <2>. HIDE DEF t, d
  <2>. QED  BY <1>2, <1>3, <1>4, <2>2, <2>3, CuratorMoves
<1>5. CASE a \in Askers
  <2>1. AskerOk(t, fit, entries, talk[a])
    BY <1>5 DEF FaqInv
  <2>2. AskerOk(d, fit, entries, talk[a])
    BY <1>1, <1>5, <2>1 DEF AskerOk, AskerStages
  <2>. HIDE DEF t, d
  <2>. QED  BY <1>2, <1>3, <1>5, <2>2, AskerMoves
<1>. QED  BY <1>4, <1>5 DEF Threads

\* Whoever looks a text up, or comes with one that was computed, uses its own vector.
LEMMA CacheIsUsed ==
    ASSUME FaqInv, NEW a \in Threads, LookUp(a) \/ Remember(a)
    PROVE  FaqInv'
<1>. DEFINE t == thread[a]
<1>1. /\ cache \in Seq(CacheRows) /\ Len(cache) <= MaxCache /\ vectors \in Seq(Vectors)
      /\ thread \in [Threads -> Calling] /\ t \in Calling
  BY DEF FaqInv
<1>2. /\ \A i \in DOMAIN cache : /\ cache[i].vector = cache[i].text
                                 /\ MovedToEnd(i) \in Seq(CacheRows) /\ Len(MovedToEnd(i)) <= MaxCache
      /\ \A x \in Vectors :
            /\ OldestGone(Append(cache, [text |-> x, vector |-> x])) \in Seq(CacheRows)
            /\ Len(OldestGone(Append(cache, [text |-> x, vector |-> x]))) <= MaxCache
  BY <1>1, CacheKeeps DEF MovedToEnd
<1>3. t.at \in {"lookup", "computing"} /\ UNCHANGED <<fit, entries, vectors, talk>>
  BY DEF LookUp, Remember, askVars
<1>4. t.text \in Vectors
  <2>1. CASE a = Curator
    BY <1>3, <2>1 DEF FaqInv, CuratorOk, Vectors
  <2>2. CASE a \in Askers
    BY <1>3, <2>2 DEF FaqInv, AskerOk, Vectors
  <2>. QED  BY <2>1, <2>2 DEF Threads
<1>5. ASSUME NEW i \in Cached(t.text), HasVector(a, cache[i].vector), cache' = MovedToEnd(i)
      PROVE  FaqInv'
  <2>1. cache[i].vector = t.text /\ cache' \in Seq(CacheRows) /\ Len(cache') <= MaxCache
    BY <1>2, <1>5 DEF Cached
  <2>. QED  BY <1>3, <1>5, <2>1, VectorIsUsed
<1>6. CASE Goes(a, "computing") /\ UNCHANGED cache /\ LookUp(a)
  <2>. DEFINE d == [at |-> "computing", text |-> t.text, vector |-> t.vector,
                    given |-> t.given, held |-> t.held, turns |-> t.turns, tries |-> t.tries]
  <2>1. thread' = [thread EXCEPT ![a] = d]
    <3>1. [t EXCEPT !.at = "computing"] = d
      BY <1>1, CallBecomes
    <3>. HIDE DEF d
    <3>. QED  BY <1>6, <3>1 DEF Goes
  <2>2. d \in Calling
    BY <1>1 DEF Calling, AskerStages
  <2>3. t.at = "lookup" /\ cache' = cache /\ vectors' = vectors /\ entries' = entries
    BY <1>3, <1>6 DEF LookUp
  <2>4. CASE a = Curator
    <3>1. CuratorOk(t)
      BY <2>4 DEF FaqInv
    <3>2. CuratorOk(d)
      BY <2>3, <3>1 DEF CuratorOk, CuratorStages
    <3>. HIDE DEF t, d
    <3>. QED  BY <1>1, <1>3, <2>1, <2>2, <2>3, <2>4, <3>2, CuratorMoves
  <2>5. CASE a \in Askers
    <3>1. AskerOk(t, fit, entries, talk[a])
      BY <2>5 DEF FaqInv
    <3>2. AskerOk(d, fit, entries, talk[a])
      BY <2>3, <3>1 DEF AskerOk, AskerStages
    <3>. HIDE DEF t, d
    <3>. QED  BY <1>1, <1>3, <2>1, <2>2, <2>3, <2>5, <3>2, AskerMoves
  <2>. QED  BY <2>4, <2>5 DEF Threads
<1>7. CASE /\ HasVector(a, t.text)
           /\ cache' = OldestGone(Append(cache, [text |-> t.text, vector |-> t.text]))
  BY <1>2, <1>3, <1>4, <1>7, VectorIsUsed
<1>. QED  BY <1>5, <1>6, <1>7 DEF LookUp, Remember

\* The thread that adds an entry computes its vector, then files the one and the other.
LEMMA CuratorKeeps ==
    ASSUME FaqInv, (\E e \in Entries : AddEntry(e)) \/ FileEntry \/ FileVector
    PROVE  FaqInv'
<1>. DEFINE t == thread[Curator]
<1>1. /\ cache \in Seq(CacheRows) /\ Len(cache) <= MaxCache /\ vectors \in Seq(Vectors)
      /\ thread \in [Threads -> Calling] /\ Curator \in Threads
  BY DEF FaqInv, Threads
<1>2. t \in Calling /\ CuratorOk(t)
  BY <1>1 DEF FaqInv
<1>3. ASSUME NEW e \in Entries, AddEntry(e) PROVE FaqInv'
  <2>1. UNCHANGED <<fit, talk, vectors, cache>>
    BY <1>3 DEF AddEntry, askVars
  <2>2. CASE entries' = Append(entries, e) /\ UNCHANGED thread
    <3>1. thread' = [thread EXCEPT ![Curator] = t]
      BY <1>1, <2>2
    <3>. HIDE DEF t
    <3>. QED  BY <1>1, <1>2, <2>1, <2>2, <3>1, CuratorMoves
  <2>3. CASE /\ thread' = [thread EXCEPT ![Curator].at = "lookup", ![Curator].text = e]
             /\ UNCHANGED entries
    <3>. DEFINE d == [at |-> "lookup", text |-> e, vector |-> t.vector,
                      given |-> t.given, held |-> t.held, turns |-> t.turns, tries |-> t.tries]
    <3>1. thread' = [thread EXCEPT ![Curator] = d]
      <4>. DEFINE u == [t EXCEPT !.at = "lookup"]
      <4>1. u = [at |-> "lookup", text |-> t.text, vector |-> t.vector, given |-> t.given,
                 held |-> t.held, turns |-> t.turns, tries |-> t.tries]
        BY <1>2, CallBecomes
      <4>2. thread' = [[thread EXCEPT ![Curator] = u] EXCEPT ![Curator].text = e]
        BY <2>3
      <4>. HIDE DEF u
      <4>3. [u EXCEPT !.text = e] = d
        BY ONLY <4>1
      <4>. HIDE DEF d
      <4>4. thread' = [thread EXCEPT ![Curator] = [u EXCEPT !.text = e]]
        BY <1>1, <4>2
      <4>. QED  BY <4>3, <4>4
    <3>2. d \in Calling
      BY <1>2 DEF Calling, AskerStages, Vectors
    <3>3. CuratorOk(d)
      BY DEF CuratorOk, CuratorStages
    <3>. HIDE DEF t, d
    <3>. QED  BY <1>1, <2>1, <2>3, <3>1, <3>2, <3>3, CuratorMoves
  <2>. QED  BY <1>3, <2>2, <2>3 DEF AddEntry
<1>4. CASE FileEntry
  <2>. DEFINE d == [at |-> "filing vector", text |-> t.text, vector |-> t.vector,
                    given |-> t.given, held |-> t.held, turns |-> t.turns, tries |-> t.tries]
  <2>1. /\ t.at = "filing" /\ UNCHANGED <<fit, talk, vectors, cache>>
        /\ entries' = Append(entries, t.text)
    BY <1>4 DEF FileEntry, askVars
  <2>2. thread' = [thread EXCEPT ![Curator] = d]
    <3>1. [t EXCEPT !.at = "filing vector"] = d
      BY <1>2, CallBecomes
    <3>. HIDE DEF d
    <3>. QED  BY <1>4, <3>1 DEF FileEntry, Goes
  <2>3. d \in Calling
    BY <1>2 DEF Calling, CuratorStages
  <2>4. CuratorOk(d) /\ t.text \in Entries
    BY <1>2, <2>1 DEF CuratorOk, CuratorStages
  <2>. HIDE DEF t, d
  <2>. QED  BY <1>1, <2>1, <2>2, <2>3, <2>4, CuratorMoves
<1>5. CASE FileVector
  <2>1. /\ t.at = "filing vector" /\ UNCHANGED <<fit, talk, entries, cache>>
        /\ vectors' = Append(vectors, t.vector) /\ thread' = [thread EXCEPT ![Curator] = Idle]
    BY <1>5 DEF FileVector, askVars
  <2>2. t.vector \in Vectors
    BY <1>2, <2>1 DEF CuratorOk
  <2>3. vectors' \in Seq(Vectors)
    <3>1. vectors' = Append(vectors, t.vector) /\ vectors \in Seq(Vectors)
      BY <1>1, <2>1
    <3>. HIDE DEF t
    <3>. QED  BY ONLY <2>2, <3>1
  <2>. QED  BY <1>1, <2>1, <2>3, IdleIsFine, CuratorMoves
<1>. QED  BY <1>3, <1>4, <1>5

\* The last turns of a conversation, no more than a request may carry.
LEMMA RecentAreLast ==
    ASSUME NEW s \in Seq(BotMessages)
    PROVE  Recent(s) \in Seq(BotMessages) /\ IsLast(Recent(s), s)
<1>. DEFINE n == 2 * MaxTurns
            B == BotMessages
            k == IF Len(s) > n THEN Len(s) - n ELSE 0
<1>1. n \in Nat /\ Len(s) \in Nat
  BY FaqAssumption DEF ValidConfig
<1>. HIDE DEF n, B
<1>2. s \in Seq(B)
  BY DEF B
<1>3. k \in 0 .. Len(s) /\ Min({n, Len(s)}) = Len(s) - k
  BY <1>1, MinOfTwo
<1>4. Recent(s) = SubSeq(s, k + 1, Len(s))
  <2>1. CASE Len(s) > n
    BY <2>1 DEF Recent, n
  <2>2. CASE ~(Len(s) > n)
    <3>1. SubSeq(s, 1, Len(s)) = s
      BY <1>2
    <3>2. k + 1 = 1 /\ Recent(s) = s
      BY <2>2 DEF Recent, n
    <3>. HIDE DEF k
    <3>. QED  BY <3>1, <3>2
  <2>. QED  BY <2>1, <2>2
<1>. HIDE DEF k
<1>5. SubSeq(s, k + 1, Len(s)) \in Seq(B) /\ Len(SubSeq(s, k + 1, Len(s))) = Len(s) - k
  BY <1>2, <1>3, CutOff
<1>6. IsSuffix(SubSeq(s, k + 1, Len(s)), s)
  BY <1>2, <1>3, EndIsSuffix
<1>. QED  BY <1>3, <1>4, <1>5, <1>6 DEF IsLast, B, n

\* A search finds the best of the entries that are there with their vectors.
LEMMA SearchKeeps ==
    ASSUME FaqInv, NEW a \in Askers, SearchStore(a)
    PROVE  FaqInv'
<1>. DEFINE t == thread[a]
            w == fit[t.text]
            h == Held
            g == FirstOf(Ranked(t.text), TopK)
            p == IF MatchesDispatch(t.text) THEN "donations" ELSE "composing"
            d == [at |-> p, text |-> t.text, vector |-> t.vector,
                  given |-> g, held |-> h, turns |-> t.turns, tries |-> t.tries]
<1>1. /\ entries \in Seq(Entries) /\ vectors \in Seq(Vectors)
      /\ cache \in Seq(CacheRows) /\ Len(cache) <= MaxCache
      /\ fit \in [Vectors -> [Entries -> 0 .. 2]] /\ thread \in [Threads -> Calling]
      /\ AskerOk(t, fit, entries, talk[a]) /\ a \in Threads
  BY DEF FaqInv, Threads
<1>2. t \in Calling /\ t.at = "ranking" /\ UNCHANGED <<fit, entries, vectors, cache, talk>>
  BY <1>1 DEF SearchStore, askVars
<1>3. t.text \in Questions /\ t.vector = t.text
  BY <1>1, <1>2 DEF AskerOk
<1>4. h \in 0 .. Len(entries)
  <2>1. Len(entries) \in Nat /\ Len(vectors) \in Nat
    BY <1>1
  <2>. QED  BY <2>1 DEF Held
<1>5. w \in [Entries -> 0 .. 2]
  BY <1>1, <1>3 DEF Vectors
<1>6. g \in Seq(Nat) /\ IsBest(g, h, w, entries)
  <2>. DEFINE K == Matches(t.text)
              R == {q \in K \X K : Better(t.text, q[1], q[2])}
  <2>1. K = {i \in 1 .. h : w[entries[i]] > 0}
    BY DEF Matches
  <2>2. R = {q \in K \X K : Beats(w, entries, q[1], q[2])}
    BY DEF Better, Beats
  <2>3. g = FirstOf(InOrder(K, R), TopK)
    BY DEF Ranked
  <2>. HIDE DEF K, R, g, h, w
  <2>. QED  BY <1>1, <1>4, <1>5, <2>1, <2>2, <2>3, BestOnes
<1>7. thread' = [thread EXCEPT ![a] = d]
  <2>. HIDE DEF g, h, p, d
  <2>1. thread' = [[[thread EXCEPT ![a].given = g] EXCEPT ![a].held = h] EXCEPT ![a].at = p]
    BY <1>3 DEF SearchStore, g, h, p
  <2>2. [[[t EXCEPT !.given = g] EXCEPT !.held = h] EXCEPT !.at = p] = d
    <3>1. PICK x1, x2, x3, x4, x5, x6, x7 :
            t = [at |-> x1, text |-> x2, vector |-> x3, given |-> x4,
                 held |-> x5, turns |-> x6, tries |-> x7]
      BY <1>2, CallFields
    <3>. HIDE DEF t
    <3>. DEFINE u == [t EXCEPT !.given = g]
    <3>2. u = [at |-> x1, text |-> x2, vector |-> x3, given |-> g,
               held |-> x5, turns |-> x6, tries |-> x7]
      BY ONLY <3>1
    <3>. HIDE DEF u
    <3>. DEFINE v == [u EXCEPT !.held = h]
    <3>3. v = [at |-> x1, text |-> x2, vector |-> x3, given |-> g,
               held |-> h, turns |-> x6, tries |-> x7]
      BY ONLY <3>2
    <3>. HIDE DEF v
    <3>4. [v EXCEPT !.at = p] = [at |-> p, text |-> x2, vector |-> x3, given |-> g,
                                 held |-> h, turns |-> x6, tries |-> x7]
      BY ONLY <3>3
    <3>5. d = [at |-> p, text |-> x2, vector |-> x3, given |-> g,
               held |-> h, turns |-> x6, tries |-> x7]
      BY <3>1 DEF d
    <3>. QED  BY <3>4, <3>5 DEF u, v
  <2>. HIDE DEF d
  <2>3. thread' = [thread EXCEPT ![a] = [[[t EXCEPT !.given = g] EXCEPT !.held = h] EXCEPT !.at = p]]
    BY <1>1, <2>1
  <2>. QED  BY <2>2, <2>3
<1>8. p \in {"donations", "composing"}
  OBVIOUS
<1>. HIDE DEF g, h, p
<1>9. d \in Calling
  <2>1. h \in Nat
    BY <1>4
  <2>. QED  BY <1>2, <1>6, <1>8, <2>1 DEF Calling, AskerStages
<1>10. AskerOk(d, fit, entries, talk[a])
  BY <1>3, <1>6, <1>8 DEF AskerOk, AskerStages
<1>. HIDE DEF t, d
<1>11. cache' \in Seq(CacheRows) /\ Len(cache') <= MaxCache
  BY <1>1, <1>2
<1>. QED  BY <1>2, <1>7, <1>9, <1>10, <1>11, AskerMoves

\* The rest of a call: what it was given stays as it is until it ends.
LEMMA AnswerGoesOn ==
    ASSUME FaqInv, NEW a \in Askers,
           \/ \E q \in Questions : Answer(a, q)
           \/ DetectBlocks(a) \/ DonationsAsked(a) \/ Compose(a) \/ ComposeFails(a)
           \/ TryAgain(a) \/ CallFails(a)
    PROVE  FaqInv'
<1>. DEFINE t == thread[a]
<1>1. /\ cache \in Seq(CacheRows) /\ Len(cache) <= MaxCache /\ talk[a] \in Seq(BotMessages)
      /\ thread \in [Threads -> Calling] /\ AskerOk(t, fit, entries, talk[a]) /\ a \in Threads
  BY DEF FaqInv, Threads
<1>2. t \in Calling /\ UNCHANGED <<fit, entries, vectors, cache, talk>>
  BY <1>1 DEF Answer, DetectBlocks, DonationsAsked, Compose, ComposeFails, TryAgain, CallFails, askVars
<1>3. ASSUME NEW d \in Calling, AskerOk(d, fit, entries, talk[a]), thread' = [thread EXCEPT ![a] = d]
      PROVE  FaqInv'
  BY <1>1, <1>2, <1>3, AskerMoves
<1>4. ASSUME NEW q \in Questions, Answer(a, q) PROVE FaqInv'
  <2>. PICK p \in {"lookup", "ranking"} :
          p = IF kind = "vectors" /\ entries # <<>> THEN "lookup" ELSE "ranking"
    OBVIOUS
  <2>. DEFINE d == [at |-> p, text |-> q, vector |-> q, given |-> <<>>, held |-> 0,
                    turns |-> <<>>, tries |-> 0]
  <2>1. thread' = [thread EXCEPT ![a] = d]
    <3>1. thread' = [thread EXCEPT ![a] = [Idle EXCEPT !.text = q, !.vector = q, !.at = p]]
      BY <1>4 DEF Answer
    <3>2. [Idle EXCEPT !.text = q, !.vector = q, !.at = p] = d
      <4>1. PICK x1, x2, x3, x4, x5, x6, x7 :
              /\ Idle = [at |-> x1, text |-> x2, vector |-> x3, given |-> x4,
                         held |-> x5, turns |-> x6, tries |-> x7]
              /\ x4 = <<>> /\ x5 = 0 /\ x6 = <<>> /\ x7 = 0
        BY DEF Idle
      <4>. DEFINE u == [Idle EXCEPT !.text = q]
      <4>2. u = [at |-> x1, text |-> q, vector |-> x3, given |-> x4,
                 held |-> x5, turns |-> x6, tries |-> x7]
        BY ONLY <4>1
      <4>. HIDE DEF u
      <4>. DEFINE v == [u EXCEPT !.vector = q]
      <4>3. v = [at |-> x1, text |-> q, vector |-> q, given |-> x4,
                 held |-> x5, turns |-> x6, tries |-> x7]
        BY ONLY <4>2
      <4>. HIDE DEF v
      <4>4. [v EXCEPT !.at = p] = [at |-> p, text |-> q, vector |-> q, given |-> x4,
                                   held |-> x5, turns |-> x6, tries |-> x7]
        BY ONLY <4>3
      <4>. QED  BY <4>1, <4>4 DEF u, v
    <3>. HIDE DEF d
    <3>. QED  BY <3>1, <3>2
  <2>2. d \in Calling
    BY IdleIsFine DEF Calling, AskerStages, Vectors, Idle
  <2>3. AskerOk(d, fit, entries, talk[a])
    BY DEF AskerOk, AskerStages
  <2>. HIDE DEF d
  <2>. QED  BY <1>3, <2>1, <2>2, <2>3
<1>5. CASE DetectBlocks(a)
  <2>1. thread' = [thread EXCEPT ![a] = t]
    BY <1>1, <1>5 DEF DetectBlocks
  <2>. QED  BY <1>1, <1>2, <1>3, <2>1
<1>6. CASE DonationsAsked(a)
  <2>. DEFINE d == [at |-> "composing", text |-> t.text, vector |-> t.vector,
                    given |-> t.given, held |-> t.held, turns |-> t.turns, tries |-> t.tries]
  <2>1. thread' = [thread EXCEPT ![a] = d]
    <3>1. [t EXCEPT !.at = "composing"] = d
      BY <1>2, CallBecomes
    <3>. HIDE DEF d
    <3>. QED  BY <1>6, <3>1 DEF DonationsAsked, Goes
  <2>2. d \in Calling
    BY <1>2 DEF Calling, AskerStages
  <2>3. AskerOk(d, fit, entries, talk[a])
    BY <1>1, <1>6 DEF DonationsAsked, AskerOk, AskerStages
  <2>. HIDE DEF d
  <2>. QED  BY <1>3, <2>1, <2>2, <2>3
<1>7. CASE Compose(a)
  <2>. DEFINE s == Recent(talk[a])
              d == [at |-> "calling", text |-> t.text, vector |-> t.vector,
                    given |-> t.given, held |-> t.held, turns |-> s, tries |-> t.tries]
  <2>. HIDE DEF s
  <2>1. thread' = [thread EXCEPT ![a] = d]
    <3>. DEFINE u == [t EXCEPT !.at = "calling"]
    <3>1. u = [at |-> "calling", text |-> t.text, vector |-> t.vector, given |-> t.given,
               held |-> t.held, turns |-> t.turns, tries |-> t.tries]
      BY <1>2, CallBecomes
    <3>2. thread' = [[thread EXCEPT ![a] = u] EXCEPT ![a].turns = s]
      BY <1>7 DEF Compose, s
    <3>. HIDE DEF u
    <3>3. [u EXCEPT !.turns = s] = d
      BY ONLY <3>1
    <3>. HIDE DEF d
    <3>4. thread' = [thread EXCEPT ![a] = [u EXCEPT !.turns = s]]
      BY <1>1, <3>2
    <3>. QED  BY <3>3, <3>4
  <2>2. s \in Seq(BotMessages) /\ IsLast(s, talk[a])
    BY <1>1, RecentAreLast DEF s
  <2>3. d \in Calling
    BY <1>2, <2>2 DEF Calling, AskerStages
  <2>4. AskerOk(d, fit, entries, talk[a])
    BY <1>1, <1>7, <2>2 DEF Compose, AskerOk, AskerStages
  <2>. HIDE DEF d
  <2>. QED  BY <1>3, <2>1, <2>3, <2>4
<1>8. CASE TryAgain(a)
  <2>. DEFINE n == t.tries + 1
              d == [at |-> t.at, text |-> t.text, vector |-> t.vector,
                    given |-> t.given, held |-> t.held, turns |-> t.turns, tries |-> n]
  <2>1. n \in 0 .. Tries
    <3>1. t.tries \in 0 .. Tries
      BY <1>2 DEF Calling
    <3>2. t.tries < Tries /\ Tries \in Nat
      BY <1>8, FaqAssumption DEF TryAgain, ValidClient
    <3>. QED  BY <3>1, <3>2
  <2>2. [t EXCEPT !.tries = n] = d
    <3>1. PICK x1, x2, x3, x4, x5, x6, x7 :
            t = [at |-> x1, text |-> x2, vector |-> x3, given |-> x4,
                 held |-> x5, turns |-> x6, tries |-> x7]
      BY <1>2, CallFields
    <3>. HIDE DEF t, n
    <3>. QED  BY ONLY <3>1
  <2>3. thread' = [thread EXCEPT ![a] = [t EXCEPT !.tries = n]]
    BY <1>8 DEF TryAgain
  <2>4. thread' = [thread EXCEPT ![a] = d]
    <3>. HIDE DEF d, n
    <3>. QED  BY <2>2, <2>3
  <2>5. d \in Calling
    <3>. HIDE DEF n
    <3>. QED  BY <1>2, <2>1 DEF Calling
  <2>6. AskerOk(d, fit, entries, talk[a])
    BY <1>1 DEF AskerOk
  <2>. HIDE DEF d
  <2>. QED  BY <1>3, <2>4, <2>5, <2>6
<1>9. CASE ComposeFails(a) \/ CallFails(a)
  <2>1. thread' = [thread EXCEPT ![a] = Idle]
    BY <1>9 DEF ComposeFails, CallFails
  <2>. QED  BY <1>3, <2>1, IdleIsFine
<1>. QED  BY <1>4, <1>5, <1>6, <1>7, <1>8, <1>9

\* A reply ends the call and adds a turn to this conversation and no other.
LEMMA ReplyEnds ==
    ASSUME FaqInv, NEW a \in Askers, Replied(a)
    PROVE  FaqInv'
<1>1. a \in Threads /\ a # Curator /\ Curator \in Threads /\ Askers \subseteq Threads
  BY FaqAssumption DEF Threads
<1>2. /\ thread \in [Threads -> Calling] /\ talk \in [Askers -> Seq(BotMessages)]
      /\ \A b \in Askers : AskerOk(thread[b], fit, entries, talk[b])
  BY DEF FaqInv
<1>3. /\ thread' = [thread EXCEPT ![a] = Idle] /\ UNCHANGED <<fit, entries, vectors, cache>>
      /\ thread[a].at = "calling"
      /\ talk' = [talk EXCEPT ![a] = talk[a] \o <<[by |-> "user", text |-> thread[a].text],
                                                  [by |-> "assistant", text |-> thread[a].text]>>]
  BY DEF Replied
<1>4. thread[a].text \in Questions
  BY <1>2, <1>3 DEF AskerOk
<1>5. talk' \in [Askers -> Seq(BotMessages)]
  <2>. DEFINE x == thread[a].text
              B == BotMessages
              m1 == [by |-> "user", text |-> x]
              m2 == [by |-> "assistant", text |-> x]
  <2>1. m1 \in B /\ m2 \in B
    BY <1>4 DEF BotMessages
  <2>2. talk[a] \in Seq(B)
    BY <1>2
  <2>. HIDE DEF B, m1, m2
  <2>3. <<m1, m2>> \in Seq(B)
    BY ONLY <2>1
  <2>4. talk[a] \o <<m1, m2>> \in Seq(B)
    BY ONLY <2>2, <2>3
  <2>. DEFINE s == talk[a] \o <<m1, m2>>
  <2>5. talk' = [talk EXCEPT ![a] = s]
    BY <1>3 DEF m1, m2
  <2>6. talk \in [Askers -> Seq(B)]
    BY <1>2 DEF B
  <2>. HIDE DEF s
  <2>7. s \in Seq(B)
    BY <2>4 DEF s
  <2>8. talk' \in [Askers -> Seq(B)]
    BY ONLY <2>5, <2>6, <2>7
  <2>. QED  BY <2>8 DEF B
<1>6. thread' \in [Threads -> Calling] /\ thread'[Curator] = thread[Curator] /\ thread'[a] = Idle
  BY <1>1, <1>2, <1>3, IdleIsFine
<1>7. ASSUME NEW b \in Askers PROVE AskerOk(thread'[b], fit, entries, talk'[b])
  <2>1. CASE b = a
    BY <1>6, <2>1, IdleIsFine
  <2>2. CASE b # a
    <3>1. thread'[b] = thread[b] /\ talk'[b] = talk[b]
      BY <1>1, <1>2, <1>3, <2>2
    <3>. QED  BY <1>2, <3>1
  <2>. QED  BY <2>1, <2>2
<1>. QED  BY <1>3, <1>5, <1>6, <1>7 DEF FaqInv

\* Every step of the askers and of the curator keeps it.
LEMMA NextFaq == FaqInv /\ [FaqNext]_faqVars => FaqInv'
<1>. SUFFICES ASSUME FaqInv, [FaqNext]_faqVars PROVE FaqInv'
  OBVIOUS
<1>1. CASE UNCHANGED faqVars
  BY <1>1 DEF faqVars, FaqInv
<1>2. ASSUME NEW a \in Askers, SearchStore(a) PROVE FaqInv'
  BY <1>2, SearchKeeps
<1>3. ASSUME NEW a \in Askers, Replied(a) PROVE FaqInv'
  BY <1>3, ReplyEnds
<1>4. ASSUME NEW a \in Askers,
             \/ \E q \in Questions : Answer(a, q)
             \/ DetectBlocks(a) \/ DonationsAsked(a) \/ Compose(a) \/ ComposeFails(a)
             \/ TryAgain(a) \/ CallFails(a)
      PROVE  FaqInv'
  BY <1>4, AnswerGoesOn
<1>5. ASSUME NEW a \in Threads, LookUp(a) \/ Remember(a) PROVE FaqInv'
  BY <1>5, CacheIsUsed
<1>6. CASE (\E e \in Entries : AddEntry(e)) \/ FileEntry \/ FileVector
  BY <1>6, CuratorKeeps
<1>. QED  BY <1>1, <1>2, <1>3, <1>4, <1>5, <1>6 DEF FaqNext

\* The calls, the store and the cache have their types in every reachable state,
\* and the cache never outgrows its bound (CachedEmbedder.embed).
THEOREM FaqTyped == FaqSpec => []FaqTypeOK
<1>1. FaqInv => FaqTypeOK
  <2>. SUFFICES ASSUME FaqInv PROVE FaqTypeOK
    OBVIOUS
  <2>. DEFINE R == [text : Vectors, vector : Vectors]
              C == CacheRows
  <2>1. C \subseteq R
    BY DEF CacheRows
  <2>2. cache \in Seq(C)
    BY DEF FaqInv
  <2>. HIDE DEF R, C
  <2>3. cache \in Seq(R)
    BY ONLY <2>1, <2>2
  <2>4. \A a \in Threads : thread[a].tries \in 0 .. Tries
    BY DEF FaqInv, Calling
  <2>. QED  BY <2>3, <2>4 DEF FaqTypeOK, FaqInv, R
<1>. QED  BY <1>1, InitFaq, NextFaq, PTL DEF FaqSpec

\* The model is always asked with the best TopK of the entries that the search went
\* over, in order, found with the vector of this very question, and with the last
\* turns of this conversation, whatever the other threads do meanwhile
\* (CustomerServiceBot.answer, EmbeddingRAGStore.search, CachedEmbedder.embed).
THEOREM AnswersAreGrounded == FaqSpec => []Grounded
<1>1. FaqInv => Grounded
  <2>. SUFFICES ASSUME FaqInv, NEW a \in Askers, thread[a].at = "calling"
                PROVE  LET t == thread[a]
                           worth(i) == fit[t.text][entries[i]]
                           better(i, j) == worth(i) > worth(j) \/ (worth(i) = worth(j) /\ i < j)
                       IN  /\ Len(t.given) = Min({TopK, Cardinality({i \in 1..t.held : worth(i) > 0})})
                           /\ \A x \in DOMAIN t.given :
                                /\ worth(t.given[x]) > 0
                                /\ \A i \in 1..t.held :
                                      better(i, t.given[x]) => \E y \in 1..(x - 1) : t.given[y] = i
                           /\ IsSuffix(t.turns, talk[a])
                           /\ Len(t.turns) = Min({2 * MaxTurns, Len(talk[a])})
    BY DEF Grounded
  <2>1. AskerOk(thread[a], fit, entries, talk[a])
    BY DEF FaqInv
  <2>. DEFINE t == thread[a]
  <2>2. IsBest(t.given, t.held, fit[t.text], entries) /\ IsLast(t.turns, talk[a])
    BY <2>1 DEF AskerOk
  <2>. HIDE DEF t
  <2>3. /\ Len(t.given) = Min({TopK, Cardinality({i \in 1 .. t.held : fit[t.text][entries[i]] > 0})})
        /\ \A x \in DOMAIN t.given :
             /\ fit[t.text][entries[t.given[x]]] > 0
             /\ \A i \in 1 .. t.held :
                  (\/ fit[t.text][entries[i]] > fit[t.text][entries[t.given[x]]]
                   \/ fit[t.text][entries[i]] = fit[t.text][entries[t.given[x]]] /\ i < t.given[x])
                     => \E y \in 1 .. (x - 1) : t.given[y] = i
    BY <2>2 DEF IsBest, Beats
  <2>4. IsSuffix(t.turns, talk[a]) /\ Len(t.turns) = Min({2 * MaxTurns, Len(talk[a])})
    BY <2>2 DEF IsLast
  <2>. QED  BY <2>3, <2>4 DEF t
<1>. QED  BY <1>1, InitFaq, NextFaq, PTL DEF FaqSpec

-----------------------------------------------------------------------------
(* All of them. *)

\* The parts that MC_Services runs side by side each behave as their own module says:
\* what is proved of a part holds of the run.
THEOREM PartsGoOn ==
    ServicesSpec => /\ BotSpec /\ TicketSpec /\ DirectorySpec /\ EmojiSpec
                    /\ DevicesSpec /\ SenderKeysSpec /\ WebmailSpec /\ FilterSpec
                    /\ FaqSpec /\ FairSpec /\ ServerSpec
<1>1. ServicesInit => /\ BotInit /\ TicketInit /\ DirectoryInit /\ EmojiInit
                      /\ DevicesInit /\ SenderKeysInit /\ WebmailInit /\ FilterInit
                      /\ FaqInit /\ Init /\ ServerInit
  BY DEF ServicesInit
<1>2. ASSUME [ServicesNext]_parts
      PROVE  /\ [BotNext]_botVars /\ [TicketNext]_ticketVars
             /\ [DirectoryNext]_directoryVars /\ [EmojiNext]_emojiVars
             /\ [DevicesNext]_deviceVars /\ [SenderKeysNext]_senderKeyVars /\ [WebmailNext]_webmailVars
             /\ [FilterNext]_filterVars
             /\ [FaqNext]_faqVars /\ [Next]_vars /\ [ServerNext]_serverVars
  <2>1. CASE UNCHANGED parts
    BY <2>1 DEF parts
  <2>2. CASE ServicesNext
    BY <2>2 DEF ServicesNext, Others
  <2>3. QED
    BY <1>2, <2>1, <2>2
<1>3. QED
  BY <1>1, <1>2, PTL DEF ServicesSpec, BotSpec, TicketSpec, DirectorySpec, EmojiSpec, DevicesSpec,
                         SenderKeysSpec, WebmailSpec, FilterSpec, FaqSpec, Spec, FairSpec, ServerSpec

\* Names are their makers' in the run of all the parts: of several requests for one
\* name, one got it, and its tokens and items stay in those hands.
THEOREM NamesStay == ServicesSpec => []NamesAreTheirMakers
<1>1. TokensAreTheOwners /\ SlugKeepsItsMaker => NamesAreTheirMakers
  BY DEF NamesAreTheirMakers
<1>2. QED
  BY <1>1, PartsGoOn, TokensStay, SlugsStay, PTL

=============================================================================

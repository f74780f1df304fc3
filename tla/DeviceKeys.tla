------------------------------ MODULE DeviceKeys ------------------------------
(***************************************************************************)
(* The devices of an account: their rows and key bundles on the server     *)
(* (devices_handlers, repositories/devices), the registry of a client that *)
(* has listed them, the X3DH agreement with each (x3dh), and messages to   *)
(* all of them (fan_out).  A key is its name: a private key and its public *)
(* key are one, and a Diffie-Hellman result is the set of the two keys.    *)
(* How a session goes on from its secret is RatchetSession's.              *)
(***************************************************************************)
EXTENDS Naturals, Sequences, FiniteSets, SequencesExt

CONSTANTS Accounts, Devices,   \* who registers, and device ids
          MaxHellos,           \* X3DH runs of the sender (bound)
          MaxBatches           \* fan-outs (bound)

ASSUME DevicesAssumption == {MaxHellos, MaxBatches} \subseteq Nat

VARIABLES
    deviceRows,  \* the table: device id -> [owner, opk, status], ids not registered apart
    registry,    \* DeviceRegistry.devices of the sender: ids with a bundle, has it an OPK
    sessions,    \* the sender's sessions by device: [secret, n]
    batch,       \* FanOutBatch not yet rotated in: by device the advanced session or Failed
    wire,        \* what is on its way to each device, in order
    held,        \* the session of each device with the sender
    unread,      \* devices that could not decrypt an envelope (ghost)
    hellos, batches   \* counters

deviceVars == <<deviceRows, registry, sessions, batch, wire, held, unread, hellos, batches>>
senderVars == <<sessions, batch, wire, held, unread, hellos, batches>>

Sender == 1            \* the account whose client sends
NoRow == [owner |-> 0, opk |-> FALSE, status |-> "none"]
NoSession == [secret |-> <<>>, n |-> 0]
Failed == [secret |-> <<"failed">>, n |-> 0]
NoBatch == <<>>

-----------------------------------------------------------------------------
(* The table.                                                              *)

\* insert_device; an id that is there, whoever's it is, is a 409.
RegisterDevice(a, d, opk) ==
    /\ deviceRows[d] = NoRow
    /\ deviceRows' = [deviceRows EXCEPT ![d] = [owner |-> a, opk |-> opk, status |-> "active"]]
    /\ UNCHANGED <<registry, senderVars>>

\* revoke_device, of one's own active device; else 404.
RevokeDevice(a, d) ==
    /\ deviceRows[d].owner = a /\ deviceRows[d].status = "active"
    /\ deviceRows' = [deviceRows EXCEPT ![d].status = "revoked"]
    /\ UNCHANGED <<registry, senderVars>>

\* handle_list_devices: the active devices of the account that asks.
DevicesOf(a) == {d \in Devices : deviceRows[d].owner = a /\ deviceRows[d].status = "active"}

\* DeviceRegistry.add for each device: its bundle, with a one-time prekey or none.
DeviceRegistry(ids) == [d \in ids |-> deviceRows[d].opk]

\* The devices listed are taken into a new registry.
Sync ==
    /\ registry' = DeviceRegistry(DevicesOf(Sender))
    /\ UNCHANGED <<deviceRows, senderVars>>

\* DeviceRegistry.remove.
RemoveDevice(d) ==
    /\ d \in DOMAIN registry
    /\ registry' = [e \in DOMAIN registry \ {d} |-> registry[e]]
    /\ UNCHANGED <<deviceRows, senderVars>>

-----------------------------------------------------------------------------
(* X3DH.                                                                   *)

Identity(d) == <<"identity", d>>
SignedPrekey(d) == <<"signed prekey", d>>
OneTimePrekey(d) == <<"one-time prekey", d>>
MyIdentity == <<"identity", 0>>
Ephemeral(h) == <<"ephemeral", h>>
DH(a, b) == {a, b}

\* x3dh_initiator against the bundle of d.
InitiatorSecret(h, d, opk) ==
    << DH(MyIdentity, SignedPrekey(d)), DH(Ephemeral(h), Identity(d)), DH(Ephemeral(h), SignedPrekey(d)) >>
    \o IF opk THEN << DH(Ephemeral(h), OneTimePrekey(d)) >> ELSE <<>>

\* x3dh_responder on d.
ResponderSecret(d, h, opk) ==
    << DH(SignedPrekey(d), MyIdentity), DH(Identity(d), Ephemeral(h)), DH(SignedPrekey(d), Ephemeral(h)) >>
    \o IF opk THEN << DH(OneTimePrekey(d), Ephemeral(h)) >> ELSE <<>>

\* A session with a device, also with one that has a session already.
Connect(d) ==
    /\ d \in DOMAIN registry /\ batch = NoBatch
    /\ hellos < MaxHellos
    /\ hellos' = hellos + 1
    /\ sessions' = [e \in DOMAIN sessions \cup {d} |->
                     IF e = d THEN [secret |-> InitiatorSecret(hellos', d, registry[d]), n |-> 0]
                              ELSE sessions[e]]
    /\ wire' = [wire EXCEPT ![d] = Append(@, [kind |-> "hello", h |-> hellos', opk |-> registry[d]])]
    /\ UNCHANGED <<deviceRows, registry, batch, held, unread, batches>>

-----------------------------------------------------------------------------
(* Messages to all devices.                                                *)

\* encrypt_with_session: a message key of the session, and the session after it.
KeyOf(session) == <<session.secret, session.n>>
Advance(session) == [secret |-> session.secret, n |-> session.n + 1]

\* encrypt_fan_out: the sessions in bad fail, on their own.
EncryptFanOut(bad) ==
    /\ batch = NoBatch /\ DOMAIN sessions # {}
    /\ batches < MaxBatches /\ batches' = batches + 1
    /\ batch' = [d \in DOMAIN sessions |-> IF d \in bad THEN Failed ELSE Advance(sessions[d])]
    /\ wire' = [d \in Devices |-> IF d \in DOMAIN sessions \ bad
                                  THEN Append(wire[d], [kind |-> "message", key |-> KeyOf(sessions[d])])
                                  ELSE wire[d]]
    /\ UNCHANGED <<deviceRows, registry, sessions, held, unread, hellos>>

\* FanOutEnvelope.ok
Ok(d) == batch[d] # Failed

\* Mutant of RotateSession: the sessions of a batch with a failure are kept as they were.
RotateWholeBatches ==
    /\ batch # NoBatch
    /\ sessions' = IF Failed \in {batch[d] : d \in DOMAIN batch} THEN sessions ELSE batch
    /\ batch' = NoBatch
    /\ UNCHANGED <<deviceRows, registry, wire, held, unread, hellos, batches>>

\* rotate_session.
RotateSession ==
    /\ batch # NoBatch
    /\ sessions' = [d \in DOMAIN sessions |-> IF Ok(d) THEN batch[d] ELSE sessions[d]]
    /\ batch' = NoBatch
    /\ UNCHANGED <<deviceRows, registry, wire, held, unread, hellos, batches>>

\* A device takes what comes first: a hello, or a message under the key that is due.
Receive(d) ==
    /\ wire[d] # <<>>
    /\ wire' = [wire EXCEPT ![d] = Tail(@)]
    /\ LET m == Head(wire[d])
       IN  \/ /\ m.kind = "hello"
              /\ held' = [held EXCEPT ![d] = [secret |-> ResponderSecret(d, m.h, m.opk), n |-> 0]]
              /\ UNCHANGED unread
           \/ /\ m.kind = "message" /\ m.key = KeyOf(held[d])
              /\ held' = [held EXCEPT ![d] = Advance(@)]
              /\ UNCHANGED unread
           \/ /\ m.kind = "message" /\ m.key # KeyOf(held[d])
              /\ unread' = unread \cup {d}
              /\ UNCHANGED held
    /\ UNCHANGED <<deviceRows, registry, sessions, batch, hellos, batches>>

-----------------------------------------------------------------------------

DevicesInit ==
    /\ deviceRows = [d \in Devices |-> NoRow] /\ registry = <<>>
    /\ sessions = <<>> /\ batch = NoBatch
    /\ wire = [d \in Devices |-> <<>>] /\ held = [d \in Devices |-> NoSession]
    /\ unread = {} /\ hellos = 0 /\ batches = 0

DevicesNext ==
    \/ Sync \/ RotateSession
    \/ \E bad \in SUBSET DOMAIN sessions : EncryptFanOut(bad)
    \/ \E d \in Devices :
         \/ RemoveDevice(d) \/ Connect(d) \/ Receive(d)
         \/ \E a \in Accounts : RevokeDevice(a, d) \/ \E opk \in BOOLEAN : RegisterDevice(a, d, opk)

DevicesSpec == DevicesInit /\ [][DevicesNext]_deviceVars

-----------------------------------------------------------------------------
(* Properties.                                                             *)

\* The rows of devices, and NoRow for an id that is not there.
DeviceRows == [Devices -> {NoRow} \cup [owner : Accounts, opk : BOOLEAN, status : {"active", "revoked"}]]

(* Type invariant.                                                         *)
DevicesTypeOK ==
    /\ deviceRows \in DeviceRows
    /\ DOMAIN registry \subseteq Devices /\ DOMAIN sessions \subseteq Devices
    /\ batch # NoBatch => DOMAIN batch = DOMAIN sessions
    /\ hellos \in 0..MaxHellos /\ batches \in 0..MaxBatches

(* An envelope that is reported ok can be read by its device, whatever      *)
(* happened to the others of its batch, whether or not there was a one-time *)
(* prekey, and across a second agreement with the device: both ends have   *)
(* the same secret and stand at the same key (x3dh, encrypt_fan_out,       *)
(* rotate_session).                                                        *)
EnvelopesAreRead == unread = {}

=============================================================================

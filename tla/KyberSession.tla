---------------------------- MODULE KyberSession ----------------------------
(***************************************************************************)
(* crypto/kyber-transport: the ML-KEM handshake, the AES-GCM session and   *)
(* the transport that holds them, at the two ends of a connection, over a  *)
(* network that may lose, delay, duplicate and reorder: the wire keeps     *)
(* every message ever sent, and any of them may arrive at any time, at     *)
(* either end.                                                             *)
(*                                                                         *)
(* Cryptography is ideal.  A shared secret is named by the key pair it is  *)
(* for and by the encapsulation that made it; decapsulating with another   *)
(* key pair gives a secret nobody else has (ML-KEM rejects implicitly).    *)
(* A frame opens under the key it was sealed with and no other.  The calls *)
(* of the crate that return an error and change nothing are left out.      *)
(***************************************************************************)
EXTENDS Naturals, FiniteSets

CONSTANTS
    NONCE_OVERFLOW_THRESHOLD,   \* frames per key
    MaxConnections,             \* bound: key pairs the initiator generates
    MaxEncapsulations,          \* bound: secrets the responder encapsulates
    MaxRekeys,                  \* bound: rekeyings of one session
    MaxMessages                 \* bound: messages the two ends encrypt

ASSUME KyberAssumption ==
    /\ NONCE_OVERFLOW_THRESHOLD \in Nat
    /\ MaxConnections \in Nat /\ MaxEncapsulations \in Nat
    /\ MaxRekeys \in Nat /\ MaxMessages \in Nat

Role == {"Initiator", "Responder"}

VARIABLES
    state,          \* TransportState of each end
    dk,             \* decapsulation key each end holds, 0 for none
    secret,         \* kyber_shared_secret, an empty or a one-element set
    session,        \* per end: [open, key, send_nonce, recv_nonce]
    messages_sent,  \* per end, over all its sessions
    keyPairs, encapsulations,   \* how many were made
    wire,           \* handshake messages sent
    frames,         \* encrypted frames sent
    accepted        \* frames decrypted

transportVars == <<state, dk, secret, session, messages_sent>>
vars == <<transportVars, keyPairs, encapsulations, wire, frames, accepted>>

NoKey == [ss |-> [pair |-> 0, enc |-> 0], epoch |-> 0]
NoSession == [open |-> FALSE, key |-> NoKey, send_nonce |-> 0, recv_nonce |-> 0]

Init ==
    /\ state = [e \in Role |-> "New"]
    /\ dk = [e \in Role |-> 0]
    /\ secret = [e \in Role |-> {}]
    /\ session = [e \in Role |-> NoSession]
    /\ messages_sent = [e \in Role |-> 0]
    /\ keyPairs = 0 /\ encapsulations = 0
    /\ wire = {} /\ frames = {} /\ accepted = {}

-----------------------------------------------------------------------------
(* Handshake. *)

\* start_handshake: a fresh key pair, once per transport.
StartHandshake ==
    /\ state["Initiator"] = "New"
    /\ keyPairs < MaxConnections
    /\ keyPairs' = keyPairs + 1
    /\ dk' = [dk EXCEPT !["Initiator"] = keyPairs']
    /\ wire' = wire \cup {[type |-> "KyberPubKey", pair |-> keyPairs', enc |-> 0]}
    /\ state' = [state EXCEPT !["Initiator"] = "Handshaking"]
    /\ UNCHANGED <<secret, session, messages_sent, encapsulations, frames, accepted>>

\* process_handshake_message of the responder.  The transport's state is
\* set before the message is looked at; a public key, at any time, replaces
\* the secret by that of a new encapsulation.
Encapsulate(msg) ==
    /\ msg.type = "KyberPubKey"
    /\ encapsulations < MaxEncapsulations
    /\ encapsulations' = encapsulations + 1
    /\ secret' = [secret EXCEPT !["Responder"] =
                     {[pair |-> msg.pair, enc |-> encapsulations']}]
    /\ wire' = wire \cup {[type |-> "KyberCiphertext", pair |-> msg.pair,
                           enc |-> encapsulations']}

ResponderProcess(msg) ==
    /\ state' = [state EXCEPT !["Responder"] = "Handshaking"]
    /\ \/ Encapsulate(msg)
       \/ /\ msg.type # "KyberPubKey"       \* UnexpectedMessage
          /\ UNCHANGED <<encapsulations, secret, wire>>
    /\ UNCHANGED <<dk, session, messages_sent, keyPairs, frames, accepted>>

\* process_handshake_message of the initiator: the decapsulation key is
\* taken, so it opens one ciphertext.
InitiatorProcess(msg) ==
    /\ msg.type = "KyberCiphertext"
    /\ dk["Initiator"] # 0
    /\ secret' = [secret EXCEPT !["Initiator"] =
                     {[pair |-> dk["Initiator"], enc |-> msg.enc]}]
    /\ dk' = [dk EXCEPT !["Initiator"] = 0]
    /\ UNCHANGED <<state, session, messages_sent, keyPairs, encapsulations, wire,
                   frames, accepted>>

\* Fault: the secret can be used again.
FinalizeKeeping(e) ==
    /\ \E ss \in secret[e] :
          session' = [session EXCEPT ![e] =
                         [open |-> TRUE, key |-> [ss |-> ss, epoch |-> 0],
                          send_nonce |-> 0, recv_nonce |-> 0]]
    /\ state' = [state EXCEPT ![e] = "Established"]
    /\ wire' = wire \cup {[type |-> "HandshakeComplete", pair |-> 0, enc |-> 0]}
    /\ UNCHANGED <<secret, dk, messages_sent, keyPairs, encapsulations, frames, accepted>>

\* finalize_handshake: the secret is taken for the key of a new session,
\* which replaces the one there was.  The peer's complete message is only
\* checked (verify_peer_complete), it changes nothing.
FinalizeHandshake(e) ==
    /\ \E ss \in secret[e] :
          session' = [session EXCEPT ![e] =
                         [open |-> TRUE, key |-> [ss |-> ss, epoch |-> 0],
                          send_nonce |-> 0, recv_nonce |-> 0]]
    /\ secret' = [secret EXCEPT ![e] = {}]
    /\ state' = [state EXCEPT ![e] = "Established"]
    /\ wire' = wire \cup {[type |-> "HandshakeComplete", pair |-> 0, enc |-> 0]}
    /\ UNCHANGED <<dk, messages_sent, keyPairs, encapsulations, frames, accepted>>

-----------------------------------------------------------------------------
(* Session. *)

Peer(e) == CHOOSE p \in Role : p # e

\* derive_directional_keys: a stream is a session key and the end that
\* sends under it.
derive_directional_keys(key, e) == [send |-> <<key, e>>, recv |-> <<key, Peer(e)>>]

SendStream(e) == derive_directional_keys(session[e].key, e).send
RecvStream(e) == derive_directional_keys(session[e].key, e).recv

\* Fault: the last nonce is used once more than allowed.
OverflowLate(e) == session[e].send_nonce > NONCE_OVERFLOW_THRESHOLD

NonceOverflow(e) == session[e].send_nonce >= NONCE_OVERFLOW_THRESHOLD

\* Fault: the counter is incremented before it is used.
EncryptFromOne(e) ==
    /\ session[e].open
    /\ ~ NonceOverflow(e)
    /\ messages_sent[e] + messages_sent[Peer(e)] < MaxMessages
    /\ frames' = frames \cup {[stream  |-> SendStream(e),
                               nonce   |-> session[e].send_nonce + 1,
                               payload |-> <<e, messages_sent[e]>>]}
    /\ session' = [session EXCEPT ![e].send_nonce = @ + 1]
    /\ messages_sent' = [messages_sent EXCEPT ![e] = @ + 1]
    /\ UNCHANGED <<state, dk, secret, keyPairs, encapsulations, wire, accepted>>

\* encrypt; the payload is the sender and the number of its message.
Encrypt(e) ==
    /\ session[e].open
    /\ ~ NonceOverflow(e)
    /\ messages_sent[e] + messages_sent[Peer(e)] < MaxMessages
    /\ frames' = frames \cup {[stream  |-> SendStream(e),
                               nonce   |-> session[e].send_nonce,
                               payload |-> <<e, messages_sent[e]>>]}
    /\ session' = [session EXCEPT ![e].send_nonce = @ + 1]
    /\ messages_sent' = [messages_sent EXCEPT ![e] = @ + 1]
    /\ UNCHANGED <<state, dk, secret, keyPairs, encapsulations, wire, accepted>>

\* Fault: any frame that opens is taken, whatever its nonce.
DecryptAny(e, frame) ==
    /\ session[e].open
    /\ frame.stream = RecvStream(e)
    /\ accepted' = accepted \cup {frame}
    /\ session' = [session EXCEPT ![e].recv_nonce = @ + 1]
    /\ UNCHANGED <<state, dk, secret, messages_sent, keyPairs, encapsulations, wire, frames>>

\* decrypt: the nonce must be the next one and the frame must open.
Decrypt(e, frame) ==
    /\ session[e].open
    /\ frame.nonce = session[e].recv_nonce
    /\ frame.stream = RecvStream(e)
    /\ accepted' = accepted \cup {frame}
    /\ session' = [session EXCEPT ![e].recv_nonce = @ + 1]
    /\ UNCHANGED <<state, dk, secret, messages_sent, keyPairs, encapsulations, wire, frames>>

\* reset_after_rekey, with the next of a series of keys its caller agreed on
\* with the peer; each end does it when it likes.  That the key is new is up to
\* the caller: the crate takes any.
Rekey(e) ==
    /\ session[e].open
    /\ session[e].key.epoch < MaxRekeys
    /\ session' = [session EXCEPT ![e].key.epoch = @ + 1,
                                  ![e].send_nonce = 0, ![e].recv_nonce = 0]
    /\ UNCHANGED <<state, dk, secret, messages_sent, keyPairs, encapsulations, wire,
                   frames, accepted>>

-----------------------------------------------------------------------------
(* The life of a transport. *)

\* Fault: the keys and counters survive the close.
CloseKeeping(e) ==
    /\ state' = [state EXCEPT ![e] = "Closed"]
    /\ session' = [session EXCEPT ![e].open = FALSE]
    /\ UNCHANGED <<dk, secret, messages_sent, keyPairs, encapsulations, wire, frames,
                   accepted>>

\* close, in any state: the session is dropped; what the handshake holds is not.
Close(e) ==
    /\ state' = [state EXCEPT ![e] = "Closed"]
    /\ session' = [session EXCEPT ![e] = NoSession]
    /\ UNCHANGED <<dk, secret, messages_sent, keyPairs, encapsulations, wire, frames,
                   accepted>>

\* KyberTransport::new, for a new connection after the old one was closed.
NewTransport(e) ==
    /\ state[e] = "Closed"
    /\ state' = [state EXCEPT ![e] = "New"]
    /\ dk' = [dk EXCEPT ![e] = 0]
    /\ secret' = [secret EXCEPT ![e] = {}]
    /\ UNCHANGED <<session, messages_sent, keyPairs, encapsulations, wire, frames,
                   accepted>>

Next ==
    \/ StartHandshake
    \/ \E msg \in wire : ResponderProcess(msg) \/ InitiatorProcess(msg)
    \/ \E e \in Role : \/ FinalizeHandshake(e) \/ Encrypt(e) \/ Rekey(e)
                       \/ Close(e) \/ NewTransport(e)
                       \/ \E frame \in frames : Decrypt(e, frame)

\* The transport below (Noise over TCP) retransmits: a frame the receiver is
\* waiting for arrives.  Nothing else is assumed.
Fairness == \A e \in Role : WF_vars(\E frame \in frames : Decrypt(e, frame))

Spec == Init /\ [][Next]_vars /\ Fairness

-----------------------------------------------------------------------------
Secret == [pair : 0 .. MaxConnections, enc : 0 .. MaxEncapsulations]
Key == [ss : Secret, epoch : 0 .. MaxRekeys]

TypeOK ==
    /\ state \in [Role -> {"New", "Handshaking", "Established", "Closed"}]
    /\ dk \in [Role -> 0 .. MaxConnections]
    /\ secret \in [Role -> SUBSET Secret]
    /\ session \in [Role -> [open : BOOLEAN, key : Key, send_nonce : Nat, recv_nonce : Nat]]
    /\ \A e \in Role : session[e].open \/ session[e] = NoSession
    /\ messages_sent \in [Role -> Nat]
    /\ keyPairs \in 0 .. MaxConnections
    /\ encapsulations \in 0 .. MaxEncapsulations
    /\ accepted \subseteq frames

\* No two frames are sealed under one key with one nonce, over all
\* handshakes, sessions, rekeyings and both directions: with AES-GCM a
\* single repetition would void the key (session.rs, "Key Separation").
NoncesAreUnique ==
    \A f, g \in frames : f.stream = g.stream /\ f.nonce = g.nonce => f = g

\* A key seals at most NONCE_OVERFLOW_THRESHOLD frames (NIST SP 800-38D),
\* in each direction.
KeyUsesBounded ==
    \A f \in frames :
        Cardinality({g \in frames : g.stream = f.stream}) <= NONCE_OVERFLOW_THRESHOLD

Channel == INSTANCE SecureChannel WITH sent <- frames

\* Together the two transports implement the abstract channel: per key and
\* direction the accepted frames are at any time a prefix of those sealed,
\* nothing is replayed, reordered, skipped or reflected (session.rs: strictly
\* increasing nonces).
ImplementsChannel == Channel!Spec

\* What an end sealed in the session both ends are in reaches the other end,
\* unless one of them leaves that session.
FramesArrive ==
    \A e \in Role :
        (session[Peer(e)].open /\ session[e].open /\ session[e].key = session[Peer(e)].key
             /\ session[Peer(e)].recv_nonce < session[e].send_nonce)
        ~> (session[Peer(e)].recv_nonce = session[e].send_nonce
             \/ ~ session[e].open \/ ~ session[Peer(e)].open
             \/ session[e].key # session[Peer(e)].key)
=============================================================================

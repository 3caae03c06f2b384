----------------------------- MODULE KyberProofs -----------------------------
(***************************************************************************)
(* Proofs about KyberSession, for every threshold and every bound: nonces  *)
(* are unique, keys seal a bounded number of frames, and the two           *)
(* transports implement SecureChannel.                                     *)
(*                                                                         *)
(* The argument.  Each end has a number that makes its secrets its own:    *)
(* the initiator the key pair, the responder the encapsulation.  A secret  *)
(* that is still to be used carries a number under which the end has       *)
(* neither sent nor accepted anything, and in a session no key after the   *)
(* current one has been used.  So a stream always starts empty, and the    *)
(* frames of the current streams are exactly those below the counters.     *)
(***************************************************************************)
EXTENDS KyberSession, FiniteSetTheorems, TLAPS

\* What makes a secret of an end unlike every other secret of that end.
Tag(e, ss) == IF e = "Initiator" THEN ss.pair ELSE ss.enc
Tags(e) == IF e = "Initiator" THEN keyPairs ELSE encapsulations

Stream == Key \X Role
Frame == [stream : Stream, nonce : Nat, payload : Role \X Nat]
Message == [type : {"KyberPubKey", "KyberCiphertext", "HandshakeComplete"},
            pair : 0 .. MaxConnections, enc : 0 .. MaxEncapsulations]

TypeInv ==
    /\ TypeOK
    /\ wire \subseteq Message
    /\ frames \subseteq Frame

TagOf(e, f) == Tag(e, f.stream[1].ss)
SentBy(e) == {f \in frames : f.stream[2] = e}
AcceptedBy(e) == {f \in accepted : f.stream[2] = Peer(e)}
Seen(e) == SentBy(e) \cup AcceptedBy(e)

\* End e never used a secret with this number.
Unused(e, tag) ==
    /\ tag <= Tags(e)
    /\ \A f \in Seen(e) : TagOf(e, f) # tag
    /\ session[e].open => Tag(e, session[e].key.ss) # tag

TagsBounded(e) ==
    /\ \A f \in Seen(e) : TagOf(e, f) <= Tags(e)
    /\ session[e].open => Tag(e, session[e].key.ss) <= Tags(e)

SecretsUnused(e) == \A ss \in secret[e] : Unused(e, Tag(e, ss))

DecapsulationKeyUnused ==
    dk["Initiator"] # 0 =>
        /\ Unused("Initiator", dk["Initiator"])
        /\ \A ss \in secret["Initiator"] : ss.pair # dk["Initiator"]

LaterKeysUnused(e) ==
    session[e].open =>
        \A f \in Seen(e) : TagOf(e, f) = Tag(e, session[e].key.ss)
                               => f.stream[1].epoch <= session[e].key.epoch

CountersExact(e) ==
    session[e].open =>
        /\ Channel!NumberedBelow(SentBy(e), SendStream(e), session[e].send_nonce)
        /\ Channel!NumberedBelow(AcceptedBy(e), RecvStream(e), session[e].recv_nonce)

EndInv(e) == TagsBounded(e) /\ SecretsUnused(e) /\ LaterKeysUnused(e) /\ CountersExact(e)

NoncesBelow == \A f \in frames : f.nonce < NONCE_OVERFLOW_THRESHOLD

IInv ==
    /\ TypeInv
    /\ \A e \in Role : EndInv(e)
    /\ DecapsulationKeyUnused
    /\ NoncesAreUnique
    /\ NoncesBelow

-----------------------------------------------------------------------------
\* The peer of each end is the other one.
LEMMA PeerIsOther ==
    /\ Peer("Initiator") = "Responder"
    /\ Peer("Responder") = "Initiator"
    /\ \A e \in Role : Peer(e) \in Role /\ Peer(e) # e
BY DEF Peer, Role

\* Steps keep the types.
LEMMA TypeStep == TypeInv /\ [Next]_vars => TypeInv'
<1> SUFFICES ASSUME TypeInv, [Next]_vars PROVE TypeInv'
  OBVIOUS
<1> USE KyberAssumption DEF TypeInv, TypeOK, Role
<1>1. CASE StartHandshake
  BY <1>1 DEF StartHandshake, Message
<1>2. ASSUME NEW msg \in wire, ResponderProcess(msg) PROVE TypeInv'
  BY <1>2 DEF ResponderProcess, Encapsulate, Message, Secret
<1>3. ASSUME NEW msg \in wire, InitiatorProcess(msg) PROVE TypeInv'
  BY <1>3 DEF InitiatorProcess, Message, Secret
<1>4. ASSUME NEW e \in Role, FinalizeHandshake(e) PROVE TypeInv'
  BY <1>4 DEF FinalizeHandshake, Message, Key
<1>5. ASSUME NEW e \in Role, Encrypt(e) PROVE TypeInv'
  BY <1>5, PeerIsOther DEF Encrypt, Frame, Stream, SendStream, derive_directional_keys, Key
<1>6. ASSUME NEW e \in Role, Rekey(e) PROVE TypeInv'
  BY <1>6 DEF Rekey, Key
<1>7. ASSUME NEW e \in Role, Close(e) PROVE TypeInv'
  <2>1. NoSession \in [open : BOOLEAN, key : Key, send_nonce : Nat, recv_nonce : Nat]
    BY DEF NoSession, NoKey, Key, Secret
  <2> QED
    BY <1>7, <2>1 DEF Close
<1>8. ASSUME NEW e \in Role, NewTransport(e) PROVE TypeInv'
  BY <1>8 DEF NewTransport
<1>9. ASSUME NEW e \in Role, NEW frame \in frames, Decrypt(e, frame) PROVE TypeInv'
  BY <1>9 DEF Decrypt
<1>10. CASE UNCHANGED vars
  BY <1>10 DEF vars, transportVars
<1> QED
  BY <1>1, <1>2, <1>3, <1>4, <1>5, <1>6, <1>7, <1>8, <1>9, <1>10 DEF Next

-----------------------------------------------------------------------------
\* An end is not concerned by a step that leaves its session and what it sent
\* and accepted alone, gives it no new secret and takes no number back.
LEMMA EndUntouched ==
    ASSUME NEW e \in Role, EndInv(e),
           SentBy(e)' = SentBy(e), AcceptedBy(e)' = AcceptedBy(e),
           session'[e] = session[e], secret'[e] \subseteq secret[e],
           Tags(e) \in Nat, Tags(e)' \in Nat, Tags(e) <= Tags(e)',
           \A f \in Seen(e) : TagOf(e, f) \in Nat,
           \A ss \in secret[e] : Tag(e, ss) \in Nat,
           Tag(e, session[e].key.ss) \in Nat
    PROVE  EndInv(e)'
<1>1. Seen(e)' = Seen(e)
  BY DEF Seen
<1>2. TagsBounded(e)'
  BY <1>1 DEF EndInv, TagsBounded, TagOf, Tag
<1>3. SecretsUnused(e)'
  BY <1>1 DEF EndInv, SecretsUnused, Unused, TagOf, Tag
<1>4. LaterKeysUnused(e)'
  BY <1>1 DEF EndInv, LaterKeysUnused, TagOf, Tag
<1>5. CountersExact(e)'
  BY DEF EndInv, CountersExact, SendStream, RecvStream
<1> QED
  BY <1>2, <1>3, <1>4, <1>5 DEF EndInv

\* The numbers of secrets, sessions and frames are natural numbers.
LEMMA TagTypes ==
    ASSUME TypeInv, NEW e \in Role
    PROVE  /\ Tags(e) \in Nat
           /\ \A f \in Seen(e) : f \in Frame /\ TagOf(e, f) \in Nat
           /\ \A ss \in secret[e] : Tag(e, ss) \in Nat
           /\ Tag(e, session[e].key.ss) \in Nat
           /\ session[e].key.epoch \in Nat
<1> USE KyberAssumption DEF TypeInv, TypeOK, Role
<1>1. Tags(e) \in Nat
  BY DEF Tags
<1>2. ASSUME NEW ss \in Secret PROVE Tag(e, ss) \in Nat
  BY DEF Tag, Secret
<1>3. ASSUME NEW f \in Seen(e) PROVE f \in Frame /\ TagOf(e, f) \in Nat
  BY <1>2 DEF Seen, SentBy, AcceptedBy, TagOf, Frame, Stream, Key
<1>4. \A ss \in secret[e] : Tag(e, ss) \in Nat
  BY <1>2
<1>5. Tag(e, session[e].key.ss) \in Nat
  BY <1>2 DEF Key
<1>6. session[e].key.epoch \in Nat
  BY DEF Key
<1> QED
  BY <1>1, <1>3, <1>4, <1>5, <1>6

\* Starting a handshake, and the handling of messages.
LEMMA StartStep ==
    ASSUME IInv, TypeInv', StartHandshake
    PROVE  (\A e \in Role : EndInv(e))' /\ DecapsulationKeyUnused'
<1> USE KyberAssumption
<1>1. ASSUME NEW e \in Role PROVE EndInv(e)'
  <2>1. Tags(e)' \in Nat /\ Tags(e) <= Tags(e)'
    BY DEF IInv, TypeInv, TypeOK, StartHandshake, Tags
  <2>2. /\ SentBy(e)' = SentBy(e) /\ AcceptedBy(e)' = AcceptedBy(e)
        /\ session'[e] = session[e] /\ secret'[e] \subseteq secret[e]
    BY DEF StartHandshake, SentBy, AcceptedBy
  <2> QED
    BY <2>1, <2>2, TagTypes, EndUntouched DEF IInv
<1>2. Unused("Initiator", dk["Initiator"])'
  <2>1. Seen("Initiator")' = Seen("Initiator") /\ session' = session
    BY DEF StartHandshake, Seen, SentBy, AcceptedBy
  <2>2. dk'["Initiator"] = keyPairs + 1 /\ keyPairs' = keyPairs + 1 /\ keyPairs \in Nat
    BY DEF StartHandshake, IInv, TypeInv, TypeOK, Role
  <2>3. TagsBounded("Initiator")
    BY DEF IInv, EndInv, Role
  <2>4. \A f \in Seen("Initiator") : TagOf("Initiator", f) <= keyPairs /\ TagOf("Initiator", f) \in Nat
    BY <2>3, TagTypes DEF TagsBounded, Tags, IInv, Role
  <2>5. session["Initiator"].open =>
            Tag("Initiator", session["Initiator"].key.ss) <= keyPairs
    BY <2>3 DEF TagsBounded, Tags
  <2>6. Tag("Initiator", session["Initiator"].key.ss) \in Nat
    BY TagTypes DEF IInv, Role
  <2> QED
    BY <2>1, <2>2, <2>4, <2>5, <2>6 DEF Unused, Tags, TagOf, Tag
<1>3. ASSUME NEW ss \in secret'["Initiator"] PROVE ss.pair # dk'["Initiator"]
  <2>1. Tag("Initiator", ss) <= keyPairs /\ Tag("Initiator", ss) \in Nat
    BY TagTypes DEF StartHandshake, IInv, EndInv, SecretsUnused, Unused, Tags, Role
  <2> QED
    BY <2>1 DEF StartHandshake, IInv, TypeInv, TypeOK, Role, Tag
<1> QED
  BY <1>1, <1>2, <1>3 DEF DecapsulationKeyUnused

\* The decapsulation key stays unused while the initiator does nothing.
LEMMA KeyUntouched ==
    ASSUME DecapsulationKeyUnused,
           Seen("Initiator")' = Seen("Initiator"),
           session'["Initiator"] = session["Initiator"],
           secret'["Initiator"] \subseteq secret["Initiator"],
           dk'["Initiator"] \in {0, dk["Initiator"]}, keyPairs' = keyPairs
    PROVE  DecapsulationKeyUnused'
BY DEF DecapsulationKeyUnused, Unused, Tags, TagOf, Tag

\* Handling a public key: the responder encapsulates a secret of its own, numbered anew.
LEMMA ResponderStep ==
    ASSUME IInv, NEW msg \in wire, ResponderProcess(msg)
    PROVE  (\A e \in Role : EndInv(e))' /\ DecapsulationKeyUnused'
<1> USE KyberAssumption
<1>0. /\ session' = session /\ keyPairs' = keyPairs /\ dk' = dk
      /\ \A e \in Role : SentBy(e)' = SentBy(e) /\ AcceptedBy(e)' = AcceptedBy(e)
      /\ \A e \in Role : Seen(e)' = Seen(e)
      /\ secret'["Initiator"] = secret["Initiator"]
  <2>1. secret'["Initiator"] = secret["Initiator"]
    BY DEF ResponderProcess, Encapsulate, IInv, TypeInv, TypeOK, Role
  <2> QED
    BY <2>1 DEF ResponderProcess, SentBy, AcceptedBy, Seen
<1>1. EndInv("Initiator")'
  <2>1. Tags("Initiator")' = Tags("Initiator")
    BY <1>0 DEF Tags
  <2> QED
    BY <1>0, <2>1, TagTypes, EndUntouched DEF IInv, Role
<1>2. EndInv("Responder")'
  <2>0. EndInv("Responder") /\ "Responder" \in Role /\ TypeInv
    BY DEF IInv, Role
  <2>1. CASE Encapsulate(msg)
    <3>1. /\ Tags("Responder") = encapsulations /\ encapsulations \in Nat
          /\ Tags("Responder")' = encapsulations + 1
          /\ secret'["Responder"] = {[pair |-> msg.pair, enc |-> encapsulations + 1]}
      BY <2>1, <2>0 DEF Encapsulate, Tags, TypeInv, TypeOK, Role
    <3>2. TagsBounded("Responder")'
      BY <1>0, <2>0, <3>1, TagTypes DEF EndInv, TagsBounded, TagOf, Tag
    <3>3. SecretsUnused("Responder")'
      <4>1. \A f \in Seen("Responder") : TagOf("Responder", f) # encapsulations + 1
        BY <2>0, <3>1, TagTypes DEF EndInv, TagsBounded
      <4>2. session["Responder"].open
                => Tag("Responder", session["Responder"].key.ss) # encapsulations + 1
        BY <2>0, <3>1, TagTypes DEF EndInv, TagsBounded
      <4>3. \A ss \in secret'["Responder"] : Tag("Responder", ss) = encapsulations + 1
        BY <3>1 DEF Tag
      <4> QED
        BY <1>0, <2>0, <3>1, <4>1, <4>2, <4>3 DEF SecretsUnused, Unused, TagOf, Tag
    <3>4. LaterKeysUnused("Responder")'
      BY <1>0, <2>0 DEF EndInv, LaterKeysUnused, TagOf, Tag
    <3>5. CountersExact("Responder")'
      BY <1>0, <2>0 DEF EndInv, CountersExact, SendStream, RecvStream
    <3> QED
      BY <3>2, <3>3, <3>4, <3>5 DEF EndInv
  <2>2. CASE msg.type # "KyberPubKey" /\ UNCHANGED <<encapsulations, secret, wire>>
    <3>1. Tags("Responder")' = Tags("Responder")
      BY <2>2, <1>0 DEF Tags
    <3> QED
      BY <1>0, <2>0, <2>2, <3>1, TagTypes, EndUntouched
  <2> QED
    BY <2>1, <2>2 DEF ResponderProcess
<1>3. DecapsulationKeyUnused'
  BY <1>0, KeyUntouched DEF IInv, Role
<1> QED
  BY <1>1, <1>2, <1>3 DEF Role

\* Handling a ciphertext: the initiator uses its decapsulation key up.
LEMMA InitiatorStep ==
    ASSUME IInv, NEW msg \in wire, InitiatorProcess(msg)
    PROVE  (\A e \in Role : EndInv(e))' /\ DecapsulationKeyUnused'
<1> USE KyberAssumption
<1>0. /\ session' = session /\ keyPairs' = keyPairs /\ encapsulations' = encapsulations
      /\ \A e \in Role : SentBy(e)' = SentBy(e) /\ AcceptedBy(e)' = AcceptedBy(e)
      /\ \A e \in Role : Seen(e)' = Seen(e) /\ Tags(e)' = Tags(e)
      /\ secret'["Responder"] = secret["Responder"]
      /\ secret'["Initiator"] = {[pair |-> dk["Initiator"], enc |-> msg.enc]}
      /\ dk'["Initiator"] = 0 /\ dk["Initiator"] # 0
  <2>1. /\ secret'["Responder"] = secret["Responder"]
        /\ secret'["Initiator"] = {[pair |-> dk["Initiator"], enc |-> msg.enc]}
        /\ dk'["Initiator"] = 0 /\ dk["Initiator"] # 0
    BY DEF InitiatorProcess, IInv, TypeInv, TypeOK, Role
  <2> QED
    BY <2>1 DEF InitiatorProcess, SentBy, AcceptedBy, Seen, Tags
<1>1. EndInv("Responder")'
  BY <1>0, TagTypes, EndUntouched DEF IInv, Role
<1>2. EndInv("Initiator")'
  <2>0. EndInv("Initiator") /\ "Initiator" \in Role /\ TypeInv
        /\ Unused("Initiator", dk["Initiator"])
    BY <1>0 DEF IInv, Role, DecapsulationKeyUnused
  <2>1. \A ss \in secret'["Initiator"] : Tag("Initiator", ss) = dk["Initiator"]
    BY <1>0 DEF Tag
  <2>2. SecretsUnused("Initiator")'
    BY <1>0, <2>0, <2>1 DEF SecretsUnused, Unused, TagOf, Tag
  <2>3. TagsBounded("Initiator")'
    BY <1>0, <2>0 DEF EndInv, TagsBounded, TagOf, Tag
  <2>4. LaterKeysUnused("Initiator")'
    BY <1>0, <2>0 DEF EndInv, LaterKeysUnused, TagOf, Tag
  <2>5. CountersExact("Initiator")'
    BY <1>0, <2>0 DEF EndInv, CountersExact, SendStream, RecvStream
  <2> QED
    BY <2>2, <2>3, <2>4, <2>5 DEF EndInv
<1>3. DecapsulationKeyUnused'
  BY <1>0 DEF DecapsulationKeyUnused
<1> QED
  BY <1>1, <1>2, <1>3 DEF Role

-----------------------------------------------------------------------------
\* What the steps of a session have in common: one end moves, no number is
\* handed out.  It then suffices to look at that end.
LEMMA OneEndMoves ==
    ASSUME IInv, NEW e \in Role,
           keyPairs' = keyPairs, encapsulations' = encapsulations,
           \A p \in Role \ {e} : /\ SentBy(p)' = SentBy(p)
                                 /\ AcceptedBy(p)' = AcceptedBy(p)
                                 /\ session'[p] = session[p]
                                 /\ secret'[p] = secret[p]
                                 /\ dk'[p] = dk[p],
           EndInv(e)',
           e = "Initiator" => DecapsulationKeyUnused'
    PROVE  (\A p \in Role : EndInv(p))' /\ DecapsulationKeyUnused'
<1>1. \A p \in Role : Tags(p)' = Tags(p)
  BY DEF Tags
<1>2. ASSUME NEW p \in Role \ {e} PROVE EndInv(p)'
  BY <1>1, TagTypes, EndUntouched DEF IInv
<1>3. ASSUME e = "Responder" PROVE DecapsulationKeyUnused'
  <2>1. "Initiator" \in Role \ {e}
    BY <1>3 DEF Role
  <2>2. Seen("Initiator")' = Seen("Initiator")
    BY <2>1 DEF Seen
  <2> QED
    BY <2>1, <2>2, KeyUntouched DEF IInv
<1> QED
  BY <1>2, <1>3 DEF Role

\* finalize turns the secret into a key; the counters of a new session start at 0.
LEMMA FinalizeStep ==
    ASSUME IInv, NEW e \in Role, FinalizeHandshake(e)
    PROVE  (\A p \in Role : EndInv(p))' /\ DecapsulationKeyUnused'
<1> USE KyberAssumption
<1>1. PICK ss \in secret[e] :
          session' = [session EXCEPT ![e] =
                         [open |-> TRUE, key |-> [ss |-> ss, epoch |-> 0],
                          send_nonce |-> 0, recv_nonce |-> 0]]
  BY DEF FinalizeHandshake
<1>2. /\ session'[e] = [open |-> TRUE, key |-> [ss |-> ss, epoch |-> 0],
                        send_nonce |-> 0, recv_nonce |-> 0]
      /\ secret'[e] = {}
      /\ \A p \in Role \ {e} : session'[p] = session[p] /\ secret'[p] = secret[p]
  BY <1>1 DEF FinalizeHandshake, IInv, TypeInv, TypeOK
<1>3. /\ dk' = dk /\ keyPairs' = keyPairs /\ encapsulations' = encapsulations
      /\ \A p \in Role : /\ SentBy(p)' = SentBy(p) /\ AcceptedBy(p)' = AcceptedBy(p)
                         /\ Seen(p)' = Seen(p) /\ Tags(p)' = Tags(p)
  BY DEF FinalizeHandshake, SentBy, AcceptedBy, Seen, Tags
<1>4. /\ EndInv(e) /\ Unused(e, Tag(e, ss))
      /\ Tag(e, session'[e].key.ss) = Tag(e, ss)
  BY <1>2 DEF IInv, EndInv, SecretsUnused, Tag
<1>5. EndInv(e)'
  <2>1. TagsBounded(e)'
    BY <1>2, <1>3, <1>4 DEF EndInv, TagsBounded, Unused, TagOf, Tag
  <2>2. SecretsUnused(e)'
    BY <1>2 DEF SecretsUnused
  <2>3. LaterKeysUnused(e)'
    BY <1>2, <1>3, <1>4 DEF LaterKeysUnused, Unused, TagOf, Tag
  <2>4. CountersExact(e)'
    <3>1. \A f \in Seen(e) : f.stream # SendStream(e)' /\ f.stream # RecvStream(e)'
      BY <1>2, <1>4 DEF Unused, TagOf, SendStream, RecvStream, derive_directional_keys
    <3> QED
      BY <1>2, <1>3, <3>1 DEF CountersExact, Channel!NumberedBelow, Seen
  <2> QED
    BY <2>1, <2>2, <2>3, <2>4 DEF EndInv
<1>6. ASSUME e = "Initiator" PROVE DecapsulationKeyUnused'
  BY <1>2, <1>3, <1>4, <1>6 DEF DecapsulationKeyUnused, Unused, TagOf, Tag, Tags, IInv
<1> QED
  BY <1>2, <1>3, <1>5, <1>6, OneEndMoves

\* rekey replaces the key by the next generation, and both counters by 0.
LEMMA RekeyStep ==
    ASSUME IInv, NEW e \in Role, Rekey(e)
    PROVE  (\A p \in Role : EndInv(p))' /\ DecapsulationKeyUnused'
<1> USE KyberAssumption
<1>1. /\ session[e].open
      /\ session'[e].open
      /\ session'[e].key.ss = session[e].key.ss
      /\ session'[e].key.epoch = session[e].key.epoch + 1
      /\ session'[e].send_nonce = 0 /\ session'[e].recv_nonce = 0
      /\ \A p \in Role \ {e} : session'[p] = session[p]
  BY DEF Rekey, IInv, TypeInv, TypeOK, Key
<1>2. /\ dk' = dk /\ keyPairs' = keyPairs /\ encapsulations' = encapsulations
      /\ secret' = secret
      /\ \A p \in Role : /\ SentBy(p)' = SentBy(p) /\ AcceptedBy(p)' = AcceptedBy(p)
                         /\ Seen(p)' = Seen(p) /\ Tags(p)' = Tags(p)
  BY DEF Rekey, SentBy, AcceptedBy, Seen, Tags
<1>3. EndInv(e) /\ TypeInv
  BY DEF IInv
<1>4. \A f \in Seen(e) : f.stream[1].epoch \in Nat
  BY <1>3, TagTypes DEF Frame, Stream, Key
<1>5. EndInv(e)'
  <2>1. TagsBounded(e)'
    BY <1>1, <1>2, <1>3 DEF EndInv, TagsBounded, TagOf, Tag
  <2>2. SecretsUnused(e)'
    BY <1>1, <1>2, <1>3 DEF EndInv, SecretsUnused, Unused, TagOf, Tag
  <2>3. LaterKeysUnused(e)'
    BY <1>1, <1>2, <1>3, <1>4, TagTypes DEF EndInv, LaterKeysUnused, TagOf, Tag
  <2>4. CountersExact(e)'
    <3>1. ASSUME NEW f \in Seen(e) PROVE f.stream # SendStream(e)' /\ f.stream # RecvStream(e)'
      <4>1. f.stream[1] # session'[e].key
        BY <1>1, <1>3, <1>4, TagTypes DEF EndInv, LaterKeysUnused, TagOf
      <4> QED
        BY <4>1 DEF SendStream, RecvStream, derive_directional_keys
    <3> QED
      BY <1>1, <1>2, <3>1 DEF CountersExact, Channel!NumberedBelow, Seen
  <2> QED
    BY <2>1, <2>2, <2>3, <2>4 DEF EndInv
<1>6. ASSUME e = "Initiator" PROVE DecapsulationKeyUnused'
  BY <1>1, <1>2, <1>6 DEF DecapsulationKeyUnused, Unused, TagOf, Tag, Tags, IInv
<1> QED
  BY <1>1, <1>2, <1>5, <1>6, OneEndMoves

\* close forgets the session, and leaves the frames that were sealed.
LEMMA CloseStep ==
    ASSUME IInv, NEW e \in Role, Close(e)
    PROVE  (\A p \in Role : EndInv(p))' /\ DecapsulationKeyUnused'
<1>1. /\ ~ session'[e].open
      /\ \A p \in Role \ {e} : session'[p] = session[p]
  BY DEF Close, NoSession, IInv, TypeInv, TypeOK
<1>2. /\ dk' = dk /\ keyPairs' = keyPairs /\ encapsulations' = encapsulations
      /\ secret' = secret
      /\ \A p \in Role : /\ SentBy(p)' = SentBy(p) /\ AcceptedBy(p)' = AcceptedBy(p)
                         /\ Seen(p)' = Seen(p) /\ Tags(p)' = Tags(p)
  BY DEF Close, SentBy, AcceptedBy, Seen, Tags
<1>3. EndInv(e)'
  <2>1. EndInv(e)
    BY DEF IInv
  <2>2. TagsBounded(e)' /\ SecretsUnused(e)'
    BY <1>1, <1>2, <2>1 DEF EndInv, TagsBounded, SecretsUnused, Unused, TagOf, Tag
  <2> QED
    BY <1>1, <2>2 DEF EndInv, LaterKeysUnused, CountersExact
<1>4. ASSUME e = "Initiator" PROVE DecapsulationKeyUnused'
  BY <1>1, <1>2, <1>4 DEF DecapsulationKeyUnused, Unused, TagOf, Tag, Tags, IInv
<1> QED
  BY <1>1, <1>2, <1>3, <1>4, OneEndMoves

\* A new transport knows nothing of the sessions before it.
LEMMA NewTransportStep ==
    ASSUME IInv, NEW e \in Role, NewTransport(e)
    PROVE  (\A p \in Role : EndInv(p))' /\ DecapsulationKeyUnused'
<1>1. /\ secret'[e] = {} /\ dk'[e] = 0
      /\ \A p \in Role \ {e} : secret'[p] = secret[p] /\ dk'[p] = dk[p]
  BY DEF NewTransport, IInv, TypeInv, TypeOK
<1>2. /\ session' = session /\ keyPairs' = keyPairs /\ encapsulations' = encapsulations
      /\ \A p \in Role : /\ SentBy(p)' = SentBy(p) /\ AcceptedBy(p)' = AcceptedBy(p)
                         /\ Tags(p)' = Tags(p)
  BY DEF NewTransport, SentBy, AcceptedBy, Tags
<1>3. EndInv(e)'
  BY <1>1, <1>2, TagTypes, EndUntouched DEF IInv
<1>4. ASSUME e = "Initiator" PROVE DecapsulationKeyUnused'
  BY <1>1, <1>4 DEF DecapsulationKeyUnused
<1> QED
  BY <1>1, <1>2, <1>3, <1>4, OneEndMoves

\* A stream of frames numbered below n, extended by the frame numbered n.
LEMMA NumberedExtends ==
    ASSUME NEW S, NEW stream, NEW n \in Nat, NEW new,
           Channel!NumberedBelow(S, stream, n),
           \A f \in S : f.nonce \in Nat,
           new.stream = stream, new.nonce = n
    PROVE  Channel!NumberedBelow(S \cup {new}, stream, n + 1)
<1>1. \A f \in S \cup {new} : f.stream = stream => f.nonce < n + 1
  BY DEF Channel!NumberedBelow
<1>2. ASSUME NEW m \in 0 .. (n + 1) - 1
      PROVE  \E f \in S \cup {new} : f.stream = stream /\ f.nonce = m
  <2>1. CASE m = n
    BY <2>1
  <2>2. CASE m # n
    <3>1. m \in 0 .. n - 1
      BY <2>2
    <3> QED
      BY <3>1 DEF Channel!NumberedBelow
  <2> QED
    BY <2>1, <2>2
<1> QED
  BY <1>1, <1>2 DEF Channel!NumberedBelow

\* encrypt seals the next frame of its own stream.
LEMMA EncryptStep ==
    ASSUME IInv, NEW e \in Role, Encrypt(e)
    PROVE  (\A p \in Role : EndInv(p))' /\ DecapsulationKeyUnused'
<1> USE KyberAssumption
<1> DEFINE new == [stream  |-> SendStream(e), nonce |-> session[e].send_nonce,
                   payload |-> <<e, messages_sent[e]>>]
<1>1. /\ session[e].open /\ session'[e].open
      /\ session'[e].key = session[e].key
      /\ session'[e].send_nonce = session[e].send_nonce + 1
      /\ session'[e].recv_nonce = session[e].recv_nonce
      /\ session[e].send_nonce \in Nat
      /\ \A p \in Role \ {e} : session'[p] = session[p]
  BY DEF Encrypt, IInv, TypeInv, TypeOK
<1>2. /\ dk' = dk /\ keyPairs' = keyPairs /\ encapsulations' = encapsulations
      /\ secret' = secret /\ \A p \in Role : AcceptedBy(p)' = AcceptedBy(p) /\ Tags(p)' = Tags(p)
  BY DEF Encrypt, AcceptedBy, Tags
<1>3. new.stream = <<session[e].key, e>> /\ new.nonce = session[e].send_nonce
  BY DEF SendStream, derive_directional_keys
<1>4. /\ SentBy(e)' = SentBy(e) \cup {new}
      /\ \A p \in Role \ {e} : SentBy(p)' = SentBy(p)
  <2>1. frames' = frames \cup {new} /\ new.stream[2] = e
    BY <1>3 DEF Encrypt
  <2> HIDE DEF new
  <2> QED
    BY <2>1 DEF SentBy
<1>5. Seen(e)' = Seen(e) \cup {new}
  BY <1>2, <1>4 DEF Seen
<1>6. TagOf(e, new) = Tag(e, session[e].key.ss) /\ new.stream[1].epoch = session[e].key.epoch
  BY <1>3 DEF TagOf
<1> HIDE DEF new
<1>7. EndInv(e) /\ TypeInv
  BY DEF IInv
<1>8. EndInv(e)'
  <2>1. TagsBounded(e)'
    BY <1>1, <1>2, <1>5, <1>6, <1>7 DEF EndInv, TagsBounded, TagOf, Tag
  <2>2. SecretsUnused(e)'
    BY <1>1, <1>2, <1>5, <1>6, <1>7 DEF EndInv, SecretsUnused, Unused, TagOf, Tag
  <2>3. LaterKeysUnused(e)'
    BY <1>1, <1>5, <1>6, <1>7, TagTypes DEF EndInv, LaterKeysUnused, TagOf, Tag
  <2>4. CountersExact(e)'
    <3>1. SendStream(e)' = SendStream(e) /\ RecvStream(e)' = RecvStream(e)
          /\ SendStream(e) = new.stream
      BY <1>1, <1>3 DEF SendStream, RecvStream, derive_directional_keys
    <3>2. Channel!NumberedBelow(SentBy(e), SendStream(e), session[e].send_nonce)
          /\ Channel!NumberedBelow(AcceptedBy(e), RecvStream(e), session[e].recv_nonce)
      BY <1>1, <1>7 DEF EndInv, CountersExact
    <3>3. \A f \in SentBy(e) : f.nonce \in Nat
      BY <1>7 DEF SentBy, TypeInv, Frame
    <3>4. Channel!NumberedBelow(SentBy(e) \cup {new}, SendStream(e), session[e].send_nonce + 1)
      BY <1>1, <1>3, <3>1, <3>2, <3>3, NumberedExtends
    <3> QED
      BY <1>1, <1>2, <1>4, <3>1, <3>2, <3>4 DEF CountersExact
  <2> QED
    BY <2>1, <2>2, <2>3, <2>4 DEF EndInv
<1>9. ASSUME e = "Initiator" PROVE DecapsulationKeyUnused'
  BY <1>1, <1>2, <1>5, <1>6, <1>9 DEF DecapsulationKeyUnused, Unused, TagOf, Tag, Tags, IInv
<1> QED
  BY <1>1, <1>2, <1>4, <1>8, <1>9, OneEndMoves

\* decrypt accepts the next frame of the peer's stream and no other.
LEMMA DecryptStep ==
    ASSUME IInv, NEW e \in Role, NEW frame \in frames, Decrypt(e, frame)
    PROVE  (\A p \in Role : EndInv(p))' /\ DecapsulationKeyUnused'
<1> USE KyberAssumption
<1>1. /\ session[e].open /\ session'[e].open
      /\ session'[e].key = session[e].key
      /\ session'[e].send_nonce = session[e].send_nonce
      /\ session'[e].recv_nonce = session[e].recv_nonce + 1
      /\ session[e].recv_nonce \in Nat
      /\ \A p \in Role \ {e} : session'[p] = session[p]
  BY DEF Decrypt, IInv, TypeInv, TypeOK
<1>2. /\ dk' = dk /\ keyPairs' = keyPairs /\ encapsulations' = encapsulations
      /\ secret' = secret /\ \A p \in Role : SentBy(p)' = SentBy(p) /\ Tags(p)' = Tags(p)
  BY DEF Decrypt, SentBy, Tags
<1>3. frame.stream = <<session[e].key, Peer(e)>> /\ frame.nonce = session[e].recv_nonce
  BY DEF Decrypt, RecvStream, derive_directional_keys
<1>4. /\ AcceptedBy(e)' = AcceptedBy(e) \cup {frame}
      /\ \A p \in Role \ {e} : AcceptedBy(p)' = AcceptedBy(p)
  <2>1. accepted' = accepted \cup {frame} /\ frame.stream[2] = Peer(e)
    BY <1>3 DEF Decrypt
  <2>2. \A p \in Role \ {e} : Peer(p) # Peer(e)
    BY PeerIsOther DEF Role
  <2> QED
    BY <2>1, <2>2 DEF AcceptedBy
<1>5. Seen(e)' = Seen(e) \cup {frame}
  BY <1>2, <1>4 DEF Seen
<1>6. TagOf(e, frame) = Tag(e, session[e].key.ss) /\ frame.stream[1].epoch = session[e].key.epoch
  BY <1>3 DEF TagOf
<1>7. EndInv(e) /\ TypeInv
  BY DEF IInv
<1>8. EndInv(e)'
  <2>1. TagsBounded(e)'
    BY <1>1, <1>2, <1>5, <1>6, <1>7 DEF EndInv, TagsBounded, TagOf, Tag
  <2>2. SecretsUnused(e)'
    BY <1>1, <1>2, <1>5, <1>6, <1>7 DEF EndInv, SecretsUnused, Unused, TagOf, Tag
  <2>3. LaterKeysUnused(e)'
    BY <1>1, <1>5, <1>6, <1>7, TagTypes DEF EndInv, LaterKeysUnused, TagOf, Tag
  <2>4. CountersExact(e)'
    <3>1. SendStream(e)' = SendStream(e) /\ RecvStream(e)' = RecvStream(e)
          /\ RecvStream(e) = frame.stream
      BY <1>1, <1>3 DEF SendStream, RecvStream, derive_directional_keys
    <3>2. Channel!NumberedBelow(SentBy(e), SendStream(e), session[e].send_nonce)
          /\ Channel!NumberedBelow(AcceptedBy(e), RecvStream(e), session[e].recv_nonce)
      BY <1>1, <1>7 DEF EndInv, CountersExact
    <3>3. \A f \in AcceptedBy(e) : f.nonce \in Nat
      BY <1>7 DEF AcceptedBy, TypeInv, TypeOK, Frame
    <3>4. Channel!NumberedBelow(AcceptedBy(e) \cup {frame}, RecvStream(e), session[e].recv_nonce + 1)
      BY <1>1, <1>3, <3>1, <3>2, <3>3, NumberedExtends
    <3> QED
      BY <1>1, <1>2, <1>4, <3>1, <3>2, <3>4 DEF CountersExact
  <2> QED
    BY <2>1, <2>2, <2>3, <2>4 DEF EndInv
<1>9. ASSUME e = "Initiator" PROVE DecapsulationKeyUnused'
  BY <1>1, <1>2, <1>5, <1>6, <1>9 DEF DecapsulationKeyUnused, Unused, TagOf, Tag, Tags, IInv
<1> QED
  BY <1>1, <1>2, <1>4, <1>8, <1>9, OneEndMoves

-----------------------------------------------------------------------------
\* Only encrypting adds frames, and the frame it adds is the next of its stream.
LEMMA FramesStep ==
    ASSUME IInv, [Next]_vars
    PROVE  NoncesAreUnique' /\ NoncesBelow'
<1> USE KyberAssumption
<1>1. CASE frames' = frames
  BY <1>1 DEF IInv, NoncesAreUnique, NoncesBelow
<1>2. ASSUME NEW e \in Role, Encrypt(e) PROVE NoncesAreUnique' /\ NoncesBelow'
  <2> DEFINE new == [stream  |-> SendStream(e), nonce |-> session[e].send_nonce,
                     payload |-> <<e, messages_sent[e]>>]
  <2>1. /\ frames' = frames \cup {new}
        /\ session[e].send_nonce \in Nat
        /\ session[e].send_nonce < NONCE_OVERFLOW_THRESHOLD
    BY <1>2 DEF Encrypt, NonceOverflow, IInv, TypeInv, TypeOK
  <2>2. new.stream = SendStream(e) /\ new.nonce = session[e].send_nonce
    OBVIOUS
  <2> HIDE DEF new
  <2>3. \A f \in frames : f.stream = SendStream(e) => f \in SentBy(e)
    BY DEF SendStream, derive_directional_keys, SentBy
  <2>4. \A f \in frames : f.stream = new.stream => f.nonce < new.nonce /\ f.nonce \in Nat
    BY <1>2, <2>2, <2>3 DEF IInv, EndInv, CountersExact, Channel!NumberedBelow, Encrypt,
                            TypeInv, Frame
  <2>5. NoncesAreUnique'
    <3>1. \A f \in frames : f.stream = new.stream => f.nonce # new.nonce
      BY <2>1, <2>2, <2>4
    <3> QED
      BY <2>1, <3>1 DEF IInv, NoncesAreUnique
  <2>6. NoncesBelow'
    BY <2>1, <2>2 DEF IInv, NoncesBelow
  <2> QED
    BY <2>5, <2>6
<1> QED
  BY <1>1, <1>2 DEF Next, vars, StartHandshake, ResponderProcess, InitiatorProcess,
                    FinalizeHandshake, Rekey, Close, NewTransport, Decrypt

\* Nothing is numbered, sealed or accepted at first.
LEMMA InitInv == Init => IInv
<1> SUFFICES ASSUME Init PROVE IInv
  OBVIOUS
<1> USE KyberAssumption DEF Init
<1>1. TypeInv
  <2>1. NoSession \in [open : BOOLEAN, key : Key, send_nonce : Nat, recv_nonce : Nat]
    BY DEF NoSession, NoKey, Key, Secret
  <2> QED
    BY <2>1 DEF TypeInv, TypeOK, Role, Secret
<1>2. ASSUME NEW e \in Role PROVE EndInv(e)
  <2>1. ~ session[e].open /\ Seen(e) = {} /\ secret[e] = {}
    BY DEF Seen, SentBy, AcceptedBy, NoSession
  <2> QED
    BY <2>1 DEF EndInv, TagsBounded, SecretsUnused, LaterKeysUnused, CountersExact
<1>3. DecapsulationKeyUnused
  BY DEF DecapsulationKeyUnused, Role
<1> QED
  BY <1>1, <1>2, <1>3 DEF IInv, NoncesAreUnique, NoncesBelow

\* The inductive step, one case per action.
LEMMA StepInv == IInv /\ [Next]_vars => IInv'
<1> SUFFICES ASSUME IInv, [Next]_vars PROVE IInv'
  OBVIOUS
<1>1. TypeInv' /\ NoncesAreUnique' /\ NoncesBelow'
  BY TypeStep, FramesStep DEF IInv
<1>2. (\A e \in Role : EndInv(e))' /\ DecapsulationKeyUnused'
  <2>1. CASE UNCHANGED vars
    <3>1. /\ session' = session /\ secret' = secret /\ dk' = dk /\ keyPairs' = keyPairs
          /\ encapsulations' = encapsulations
          /\ \A e \in Role : SentBy(e)' = SentBy(e) /\ AcceptedBy(e)' = AcceptedBy(e)
          /\ Seen("Initiator")' = Seen("Initiator")
          /\ \A e \in Role : Tags(e)' = Tags(e)
      BY <2>1 DEF vars, transportVars, SentBy, AcceptedBy, Seen, Tags
    <3> QED
      BY <3>1, TagTypes, EndUntouched, KeyUntouched DEF IInv
  <2> QED
    BY <1>1, <2>1, StartStep, ResponderStep, InitiatorStep, FinalizeStep, EncryptStep,
       RekeyStep, CloseStep, NewTransportStep, DecryptStep DEF Next
<1> QED
  BY <1>1, <1>2 DEF IInv

\* The inductive invariant holds in every reachable state.
THEOREM Invariant == Spec => []IInv
BY InitInv, StepInv, PTL DEF Spec

\* TypeOK of the two transports, for any bounds.
THEOREM TypeCorrect == Spec => []TypeOK
<1>1. IInv => TypeOK
  BY DEF IInv, TypeInv
<1> QED
  BY <1>1, Invariant, PTL

\* session.rs and transport.rs never seal two frames under one key and nonce.
THEOREM NonceUniqueness == Spec => []NoncesAreUnique
<1>1. IInv => NoncesAreUnique
  BY DEF IInv
<1> QED
  BY <1>1, Invariant, PTL

\* encrypt stops in time: a key seals at most NONCE_OVERFLOW_THRESHOLD frames.
THEOREM KeyUseBound == Spec => []KeyUsesBounded
<1>1. IInv => KeyUsesBounded
  <2> SUFFICES ASSUME IInv, NEW f \in frames
               PROVE  Cardinality({g \in frames : g.stream = f.stream})
                          <= NONCE_OVERFLOW_THRESHOLD
    BY DEF KeyUsesBounded
  <2> DEFINE S == {g \in frames : g.stream = f.stream}
             N == 0 .. NONCE_OVERFLOW_THRESHOLD - 1
             nonceOf == [g \in S |-> g.nonce]
  <2>1. NONCE_OVERFLOW_THRESHOLD \in Nat
    BY KyberAssumption
  <2>2. \A g \in S : g.nonce \in N
    BY <2>1 DEF IInv, NoncesBelow, TypeInv, Frame
  <2>3. nonceOf \in Injection(S, N)
    BY <2>2 DEF IInv, NoncesAreUnique, Injection, IsInjective
  <2>4. IsFiniteSet(N) /\ Cardinality(N) = NONCE_OVERFLOW_THRESHOLD
    BY <2>1, FS_Interval
  <2> QED
    BY <2>3, <2>4, FS_Injection
<1> QED
  BY <1>1, Invariant, PTL

\* The transports implement the abstract channel: a step that encrypts is a
\* Send, one that decrypts an Accept, and every other step is invisible.
THEOREM ChannelRefinement == Spec => ImplementsChannel
<1>1. Init => Channel!Init
  BY DEF Init, Channel!Init
<1>2. IInv /\ [Next]_vars => [Channel!Next]_(Channel!channelVars)
  <2> SUFFICES ASSUME IInv, [Next]_vars
               PROVE  [Channel!Next]_(Channel!channelVars)
    OBVIOUS
  <2>1. CASE frames' = frames /\ accepted' = accepted
    BY <2>1 DEF Channel!channelVars
  <2>2. ASSUME NEW e \in Role, Encrypt(e) PROVE Channel!Next
    <3> DEFINE new == [stream  |-> SendStream(e), nonce |-> session[e].send_nonce,
                       payload |-> <<e, messages_sent[e]>>]
    <3>1. frames' = frames \cup {new} /\ accepted' = accepted
      BY <2>2 DEF Encrypt
    <3>2. new.stream = SendStream(e) /\ new.nonce = session[e].send_nonce
      OBVIOUS
    <3> HIDE DEF new
    <3>3. Channel!NumberedBelow(SentBy(e), SendStream(e), session[e].send_nonce)
      BY <2>2 DEF IInv, EndInv, CountersExact, Encrypt
    <3>4. \A f \in frames : f.stream = SendStream(e) => f \in SentBy(e)
      BY DEF SendStream, derive_directional_keys, SentBy
    <3>5. SentBy(e) \subseteq frames
      BY DEF SentBy
    <3>6. Channel!NumberedBelow(frames, new.stream, new.nonce)
      BY <3>2, <3>3, <3>4, <3>5 DEF Channel!NumberedBelow
    <3> QED
      BY <3>1, <3>6 DEF Channel!Next, Channel!Send
  <2>3. ASSUME NEW e \in Role, NEW frame \in frames, Decrypt(e, frame) PROVE Channel!Next
    <3>1. /\ accepted' = accepted \cup {frame} /\ frames' = frames
          /\ frame.stream = RecvStream(e) /\ frame.nonce = session[e].recv_nonce
      BY <2>3 DEF Decrypt
    <3>2. Channel!NumberedBelow(AcceptedBy(e), RecvStream(e), session[e].recv_nonce)
      BY <2>3 DEF IInv, EndInv, CountersExact, Decrypt
    <3>3. \A f \in accepted : f.stream = RecvStream(e) => f \in AcceptedBy(e)
      BY DEF RecvStream, derive_directional_keys, AcceptedBy
    <3>4. AcceptedBy(e) \subseteq accepted
      BY DEF AcceptedBy
    <3>5. Channel!NumberedBelow(accepted, frame.stream, frame.nonce)
      BY <3>1, <3>2, <3>3, <3>4 DEF Channel!NumberedBelow
    <3> QED
      BY <3>1, <3>5 DEF Channel!Next, Channel!Accept
  <2> QED
    BY <2>1, <2>2, <2>3 DEF Next, vars, StartHandshake, ResponderProcess, InitiatorProcess,
                            FinalizeHandshake, Rekey, Close, NewTransport
<1> QED
  BY <1>1, <1>2, Invariant, PTL DEF Spec, ImplementsChannel, Channel!Spec
=============================================================================

--------------------------- MODULE SecureChannel ---------------------------
(***************************************************************************)
(* What an encrypted session promises, whatever the network does: on each  *)
(* stream (one direction under one key) the frames are numbered without    *)
(* gaps or repetitions, and the receiver accepts exactly a prefix of them, *)
(* each frame once and in order.                                           *)
(***************************************************************************)
EXTENDS Naturals

VARIABLES
    sent,           \* frames [stream, nonce, payload] that were encrypted
    accepted        \* those that the other side decrypted

channelVars == <<sent, accepted>>

\* The frames of a stream are exactly those numbered below n.
NumberedBelow(frames, stream, n) ==
    /\ \A f \in frames : f.stream = stream => f.nonce < n
    /\ \A m \in 0 .. n - 1 : \E f \in frames : f.stream = stream /\ f.nonce = m

Init == sent = {} /\ accepted = {}

Send(frame) ==
    /\ NumberedBelow(sent, frame.stream, frame.nonce)
    /\ sent' = sent \cup {frame}
    /\ UNCHANGED accepted

Accept(frame) ==
    /\ frame \in sent
    /\ NumberedBelow(accepted, frame.stream, frame.nonce)
    /\ accepted' = accepted \cup {frame}
    /\ UNCHANGED sent

Next ==
    \/ \E frame \in sent' : Send(frame)
    \/ \E frame \in sent : Accept(frame)

Spec == Init /\ [][Next]_channelVars
=============================================================================

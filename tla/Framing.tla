------------------------------ MODULE Framing ------------------------------
(***************************************************************************)
(* The binary frames between the relay and an edge agent                   *)
(* (http_network_relay/pydantic_models.py): all connections of an agent    *)
(* share one WebSocket, so the id of a connection precedes its payload.    *)
(***************************************************************************)
EXTENDS Integers, Sequences

CONSTANT IdLength  \* bytes of a connection's id, 16 in the code

ASSUME IdLengthOK == IdLength \in Nat

encode_tcp_binary_frame(id, payload) == id \o payload

\* decode_tcp_binary_frame raises ValueError.
TooShort(frame) == Len(frame) < IdLength

\* Decoding that takes the last byte of the id for payload.
PayloadWithId(frame) == SubSeq(frame, IdLength, Len(frame))

\* What decode_tcp_binary_frame returns for the other frames.
IdOf(frame) == SubSeq(frame, 1, IdLength)
PayloadOf(frame) == SubSeq(frame, IdLength + 1, Len(frame))

=============================================================================

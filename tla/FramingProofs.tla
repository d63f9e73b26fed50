--------------------------- MODULE FramingProofs ---------------------------
(***************************************************************************)
(* Encoding and decoding of frames are inverse to each other, for every    *)
(* length of the id and every payload.                                     *)
(***************************************************************************)
EXTENDS Framing, TLAPS

\* decode_tcp_binary_frame undoes encode_tcp_binary_frame, also for a payload
\* that is empty or begins like an id: a frame of exactly IdLength bytes is not
\* too short.
THEOREM DecodeUndoesEncode ==
  ASSUME NEW Byte, NEW id \in Seq(Byte), Len(id) = IdLength,
         NEW payload \in Seq(Byte)
  PROVE  LET frame == encode_tcp_binary_frame(id, payload)
         IN  ~ TooShort(frame) /\ IdOf(frame) = id /\ PayloadOf(frame) = payload
<1> DEFINE frame == encode_tcp_binary_frame(id, payload)
           n == IdLength
<1>1. /\ frame \in Seq(Byte) /\ n \in Nat
      /\ Len(frame) = n + Len(payload)
      /\ \A i \in 1 .. n : frame[i] = id[i]
      /\ \A i \in 1 .. Len(payload) : frame[n + i] = payload[i]
  BY IdLengthOK DEF encode_tcp_binary_frame
<1> HIDE DEF frame
<1>2. ~ TooShort(frame)
  BY <1>1 DEF TooShort
<1>3. IdOf(frame) = id
  <2>1. /\ IdOf(frame) \in Seq(Byte) /\ Len(IdOf(frame)) = n
        /\ \A i \in 1 .. n : IdOf(frame)[i] = frame[i]
    BY <1>1 DEF IdOf
  <2> QED
    BY <2>1, <1>1
<1>4. PayloadOf(frame) = payload
  <2>1. /\ PayloadOf(frame) \in Seq(Byte)
        /\ Len(PayloadOf(frame)) = Len(payload)
        /\ \A i \in 1 .. Len(payload) : PayloadOf(frame)[i] = frame[n + i]
    BY <1>1 DEF PayloadOf
  <2> QED
    BY <2>1, <1>1
<1> QED
  BY <1>2, <1>3, <1>4 DEF frame

\* Whatever decode_tcp_binary_frame accepts is the frame of its own id and
\* payload: frames of different connections are never confused.
THEOREM EncodeUndoesDecode ==
  ASSUME NEW Byte, NEW frame \in Seq(Byte), ~ TooShort(frame)
  PROVE  /\ Len(IdOf(frame)) = IdLength
         /\ encode_tcp_binary_frame(IdOf(frame), PayloadOf(frame)) = frame
<1> DEFINE id == IdOf(frame)
           payload == PayloadOf(frame)
           n == IdLength
<1>1. n \in Nat /\ Len(frame) \in Nat /\ n <= Len(frame)
  BY IdLengthOK DEF TooShort
<1>2. /\ id \in Seq(Byte) /\ Len(id) = n
      /\ \A i \in 1 .. n : id[i] = frame[i]
  BY <1>1 DEF IdOf
<1>3. /\ payload \in Seq(Byte) /\ Len(payload) = Len(frame) - n
      /\ \A i \in 1 .. Len(frame) - n : payload[i] = frame[n + i]
  BY <1>1 DEF PayloadOf
<1> DEFINE again == id \o payload
<1> HIDE DEF id, payload
<1>4. /\ again \in Seq(Byte) /\ Len(again) = Len(frame)
      /\ \A i \in 1 .. n : again[i] = id[i]
      /\ \A i \in n + 1 .. Len(frame) : again[i] = payload[i - n]
  BY <1>1, <1>2, <1>3
<1> HIDE DEF again
<1>5. \A i \in 1 .. Len(frame) : again[i] = frame[i]
  <2>1. TAKE i \in 1 .. Len(frame)
  <2>2. CASE i <= n
    BY <2>2, <1>1, <1>2, <1>4
  <2>3. CASE i > n
    <3>1. i - n \in 1 .. Len(frame) - n /\ n + (i - n) = i
      BY <2>3, <1>1
    <3> QED
      BY <3>1, <2>3, <1>1, <1>3, <1>4
  <2> QED
    BY <2>2, <2>3, <1>1
<1>6. again = frame
  BY <1>4, <1>5
<1> QED
  BY <1>2, <1>6 DEF id, payload, again, encode_tcp_binary_frame

=============================================================================

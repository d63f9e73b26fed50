-------------------- MODULE ThreadedTcpConnectionProofs --------------------
(***************************************************************************)
(* The streams of ThreadedTcpConnection are intact for every set of        *)
(* threads that call recv(), send() and close(), every number of chunks    *)
(* and every size of recv().                                               *)
(***************************************************************************)
EXTENDS ThreadedTcpConnection, ChunkLemmas

LEMMA InitType == Init => TypeOK
<1> SUFFICES ASSUME Init PROVE TypeOK
  OBVIOUS
<1> USE ThreadsOK DEF Init, RecvPC, LoopPC
<1>1. active \in BOOLEAN /\ recvEvent \in BOOLEAN
  OBVIOUS
<1>2. /\ recvBuf \in Seq(Nat) /\ rest \in Seq(Nat) /\ got \in Seq(Nat)
      /\ sendBuf \in Seq(Nat) /\ inflight \in Seq(Nat) /\ wire \in Seq(Nat)
  OBVIOUS
<1>3. /\ rpc \in [Readers -> RecvPC]
      /\ wpc \in [Writers -> {"idle", "schedule", "closed"}]
      /\ lpc \in LoopPC /\ peer \in {"open", "ended", "gone"}
  OBVIOUS
<1>4. /\ filled \in 0 .. MaxFill /\ written \in 0 .. MaxWrites
      /\ sends \in Nat /\ closes \in Nat
  OBVIOUS
<1>5. recvLock \in Readers \cup {NoThread} /\ sendLock \in {Loop, NoThread}
  OBVIOUS
<1>6. ASSUME NEW r \in Readers
      PROVE  recvLock # r /\ rpc[r] \notin {"closed", "clear", "store"}
  OBVIOUS
<1> QED BY <1>1, <1>2, <1>3, <1>4, <1>5, <1>6 DEF TypeOK

\* recv() splits the buffer into what it returns and what it stores back.
LEMMA TakeSplits ==
  ASSUME TypeOK, NEW r \in Readers, RecvTake(r), recvBuf # <<>>
  PROVE  \E s, t \in Seq(Nat) : s \o t = recvBuf /\ got' = got \o s /\ rest' = t
<1> DEFINE n == IF Len(recvBuf) < RecvSize THEN Len(recvBuf) ELSE RecvSize
<1>1. recvBuf \in Seq(Nat) /\ Len(recvBuf) \in Nat
  BY DEF TypeOK
<1>2. n \in 0 .. Len(recvBuf)
  BY <1>1, ThreadsOK
<1>3. /\ got' = got \o SubSeq(recvBuf, 1, n)
      /\ rest' = SubSeq(recvBuf, n + 1, Len(recvBuf))
  BY DEF RecvTake
<1> HIDE DEF n
<1>4. /\ SubSeq(recvBuf, 1, n) \in Seq(Nat)
      /\ SubSeq(recvBuf, n + 1, Len(recvBuf)) \in Seq(Nat)
  BY <1>1, <1>2
<1>5. SubSeq(recvBuf, 1, n) \o SubSeq(recvBuf, n + 1, Len(recvBuf)) = recvBuf
  BY <1>1, <1>2, SplitSeq
<1> QED BY <1>3, <1>4, <1>5

\* The lock of the receive buffer is held by a reader between two steps of its.
LockHeld == \A r \in Readers : recvLock = r <=> rpc[r] \in {"closed", "clear", "store"}

\* The parts of TypeOK that different steps disturb.
RecvType ==
  /\ recvEvent \in BOOLEAN
  /\ recvBuf \in Seq(Nat) /\ rest \in Seq(Nat) /\ got \in Seq(Nat)
  /\ rpc \in [Readers -> RecvPC]
  /\ filled \in 0 .. MaxFill
  /\ recvLock \in Readers \cup {NoThread}

SendType ==
  /\ sendBuf \in Seq(Nat) /\ inflight \in Seq(Nat) /\ wire \in Seq(Nat)
  /\ written \in 0 .. MaxWrites /\ sends \in Nat
  /\ sendLock \in {Loop, NoThread}

LoopType ==
  /\ active \in BOOLEAN /\ closes \in Nat
  /\ wpc \in [Writers -> {"idle", "schedule", "closed"}]
  /\ lpc \in LoopPC /\ peer \in {"open", "ended", "gone"}

LEMMA TypeParts ==
  /\ TypeOK <=> RecvType /\ SendType /\ LoopType /\ LockHeld
  /\ TypeOK' <=> RecvType' /\ SendType' /\ LoopType' /\ LockHeld'
BY DEF TypeOK, RecvType, SendType, LoopType, LockHeld

\* The loop is about to fill the buffer only of an active connection, whose
\* bound is not reached.
FillInv == lpc = "fill" => active /\ filled < MaxFill

\* A step of recv() keeps the types of its variables and the exclusion.
LEMMA RecvKeepsType ==
  ASSUME TypeOK, NEW r \in Readers, Recv(r)
  PROVE  RecvType' /\ LockHeld'
<1> USE ThreadsOK DEF RecvGoto
<1>0. RecvType /\ LockHeld
  BY TypeParts
<1>1. \A q \in Readers : q # NoThread
  OBVIOUS
<1>2. CASE RecvCall(r)
  <2>1. CASE recvBuf = <<>>
    <3>1. /\ recvLock = NoThread /\ recvLock' = r /\ rpc' = [rpc EXCEPT ![r] = "closed"]
          /\ UNCHANGED <<recvEvent, recvBuf, rest, got, filled>>
      BY <1>2, <2>1 DEF RecvCall
    <3> QED BY <1>0, <1>1, <3>1 DEF RecvType, LockHeld, RecvPC
  <2>2. CASE recvBuf # <<>>
    <3>1. /\ rpc[r] = "call" /\ rpc' = [rpc EXCEPT ![r] = "wait"]
          /\ UNCHANGED <<recvLock, recvEvent, recvBuf, rest, got, filled>>
      BY <1>2, <2>2 DEF RecvCall
    <3> QED BY <1>0, <1>1, <3>1 DEF RecvType, LockHeld, RecvPC
  <2> QED BY <2>1, <2>2
<1>3. CASE RecvClosed(r)
  <2>1. rpc[r] = "closed" /\ UNCHANGED <<recvEvent, recvBuf, rest, got, filled>>
    BY <1>3 DEF RecvClosed
  <2>2. CASE rpc' = [rpc EXCEPT ![r] = "clear"] /\ recvLock' = recvLock
    BY <1>0, <2>1, <2>2 DEF RecvType, LockHeld, RecvPC
  <2>3. CASE rpc' = [rpc EXCEPT ![r] = "eof"] /\ recvLock' = NoThread
    BY <1>0, <1>1, <2>1, <2>3 DEF RecvType, LockHeld, RecvPC
  <2> QED BY <1>3, <2>2, <2>3 DEF RecvClosed
<1>4. CASE RecvClear(r)
  <2>1. /\ rpc[r] = "clear" /\ rpc' = [rpc EXCEPT ![r] = "wait"]
        /\ recvLock' = NoThread /\ recvEvent' = FALSE
        /\ UNCHANGED <<recvBuf, rest, got, filled>>
    BY <1>4 DEF RecvClear
  <2> QED BY <1>0, <1>1, <2>1 DEF RecvType, LockHeld, RecvPC
<1>5. CASE RecvWoken(r) \/ RecvTimeout(r)
  <2>1. /\ rpc[r] = "wait"
        /\ rpc' = [rpc EXCEPT ![r] = "take"] \/ rpc' = [rpc EXCEPT ![r] = "call"]
        /\ UNCHANGED <<recvLock, recvEvent, recvBuf, rest, got, filled>>
    BY <1>5 DEF RecvWoken, RecvTimeout
  <2> QED BY <1>0, <2>1 DEF RecvType, LockHeld, RecvPC
<1>6. CASE RecvTake(r)
  <2>1. CASE recvBuf = <<>>
    <3>1. /\ rpc[r] = "take" /\ rpc' = [rpc EXCEPT ![r] = "eof"]
          /\ UNCHANGED <<recvLock, recvEvent, recvBuf, rest, got, filled>>
      BY <1>6, <2>1 DEF RecvTake
    <3> QED BY <1>0, <3>1 DEF RecvType, LockHeld, RecvPC
  <2>2. CASE recvBuf # <<>>
    <3>1. PICK s \in Seq(Nat), t \in Seq(Nat) : got' = got \o s /\ rest' = t
      BY <1>6, <2>2, TakeSplits
    <3>2. got' \in Seq(Nat) /\ rest' \in Seq(Nat)
      BY <1>0, <3>1, ConcatNat DEF RecvType
    <3>3. /\ recvLock = NoThread /\ recvLock' = r /\ rpc' = [rpc EXCEPT ![r] = "store"]
          /\ UNCHANGED <<recvEvent, recvBuf, filled>>
      BY <1>6, <2>2 DEF RecvTake
    <3> QED BY <1>0, <1>1, <3>2, <3>3 DEF RecvType, LockHeld, RecvPC
  <2> QED BY <2>1, <2>2
<1>7. CASE RecvStore(r)
  <2>1. /\ rpc[r] = "store" /\ rpc' = [rpc EXCEPT ![r] = "call"]
        /\ recvLock' = NoThread /\ recvBuf' = rest /\ rest' = <<>>
        /\ UNCHANGED <<recvEvent, got, filled>>
    BY <1>7 DEF RecvStore
  <2>2. rest' \in Seq(Nat)
    BY <2>1
  <2> QED BY <1>0, <1>1, <2>1, <2>2 DEF RecvType, LockHeld, RecvPC
<1> QED BY <1>2, <1>3, <1>4, <1>5, <1>6, <1>7 DEF Recv

LEMMA RecvFrame ==
  ASSUME NEW r \in Readers, Recv(r)
  PROVE  UNCHANGED <<filled, sendVars, active, closes, wpc, lpc, peer>>
BY DEF Recv, RecvCall, RecvClosed, RecvClear, RecvWoken, RecvTimeout, RecvTake,
   RecvStore

LEMMA TypeInductive == TypeOK /\ FillInv /\ [Next]_vars => TypeOK' /\ FillInv'
<1> SUFFICES ASSUME TypeOK, FillInv, [Next]_vars PROVE TypeOK' /\ FillInv'
  OBVIOUS
<1> USE ThreadsOK DEF recvVars, sendVars
<1>0. RecvType /\ SendType /\ LoopType /\ LockHeld
  BY TypeParts
<1>r. UNCHANGED recvVars => RecvType' /\ LockHeld'
  BY <1>0 DEF RecvType, LockHeld
<1>s. UNCHANGED sendVars => SendType'
  BY <1>0 DEF SendType
<1>2. ASSUME NEW r \in Readers, Recv(r) PROVE TypeOK' /\ FillInv'
  <2>1. RecvType' /\ LockHeld'
    BY <1>2, RecvKeepsType
  <2>2. UNCHANGED <<filled, sendVars, active, closes, wpc, lpc, peer>>
    BY <1>2, RecvFrame
  <2>3. LoopType' /\ FillInv'
    BY <1>0, <2>2 DEF LoopType, FillInv
  <2> QED BY <1>s, <2>1, <2>2, <2>3, TypeParts
<1>3. ASSUME NEW w \in Writers, SendExtend(w) \/ SendSchedule(w) \/ Close(w)
      PROVE  TypeOK' /\ FillInv'
  <2>1. UNCHANGED <<recvVars, active, lpc, peer>> /\ FillInv'
    BY <1>3 DEF SendExtend, SendSchedule, Close, FillInv
  <2>2. CASE SendExtend(w)
    <3>1. /\ sendBuf' = Append(sendBuf, written + 1) /\ written' = written + 1
          /\ written < MaxWrites /\ wpc' = [wpc EXCEPT ![w] = "schedule"]
          /\ UNCHANGED <<sendLock, inflight, sends, wire, active, closes, lpc, peer>>
      BY <2>2 DEF SendExtend
    <3>2. written + 1 \in Nat /\ written + 1 \in 0 .. MaxWrites
      BY <1>0, <3>1 DEF SendType
    <3>3. sendBuf' \in Seq(Nat)
      BY <1>0, <3>1, <3>2, AppendNat DEF SendType
    <3>4. SendType' /\ LoopType'
      BY <1>0, <3>1, <3>2, <3>3 DEF SendType, LoopType
    <3> QED BY <1>r, <2>1, <3>4, TypeParts
  <2>3. CASE SendSchedule(w)
    BY <1>0, <1>r, <2>1, <2>3, TypeParts DEF SendSchedule, SendType, LoopType
  <2>4. CASE Close(w)
    BY <1>0, <1>r, <1>s, <2>1, <2>4, TypeParts DEF Close, LoopType
  <2> QED BY <1>3, <2>2, <2>3, <2>4
<1>4. CASE PeerEnds \/ DataArrives \/ DropEntry
  <2>1. UNCHANGED <<recvVars, sendVars>>
    BY <1>4 DEF PeerEnds, DataArrives, DropEntry
  <2>2. LoopType'
    <3>1. CASE PeerEnds
      BY <1>0, <3>1 DEF PeerEnds, LoopType
    <3>2. CASE DataArrives
      BY <1>0, <3>2 DEF DataArrives, LoopType, LoopPC
    <3>3. CASE DropEntry
      <4>1. /\ closes' \in Nat /\ active' = FALSE /\ lpc' \in {"wake", "idle"}
            /\ UNCHANGED <<wpc, peer>>
        BY <1>0, <3>3 DEF DropEntry, LoopType
      <4> QED BY <1>0, <4>1 DEF LoopType, LoopPC
    <3> QED BY <1>4, <3>1, <3>2, <3>3
  <2>3. FillInv'
    BY <1>4 DEF PeerEnds, DataArrives, DropEntry, FillInv
  <2> QED BY <1>r, <1>s, <2>1, <2>2, <2>3, TypeParts
<1>5. CASE Fill
  <2>1. /\ lpc = "fill" /\ recvBuf' = Append(recvBuf, filled + 1) /\ filled' = filled + 1
        /\ recvEvent' = TRUE /\ lpc' = "idle"
        /\ UNCHANGED <<recvLock, rpc, rest, got, sendVars, active, closes, wpc, peer>>
    BY <1>5 DEF Fill
  <2>2. filled + 1 \in Nat /\ filled + 1 \in 0 .. MaxFill
    BY <1>0, <2>1 DEF RecvType, FillInv
  <2>3. Append(recvBuf, filled + 1) \in Seq(Nat)
    BY <1>0, <2>2, AppendNat DEF RecvType
  <2>4. RecvType' /\ LockHeld'
    BY <1>0, <2>1, <2>2, <2>3 DEF RecvType, LockHeld
  <2>5. LoopType' /\ FillInv'
    BY <1>0, <2>1 DEF LoopType, LoopPC, FillInv
  <2> QED BY <1>s, <2>1, <2>4, <2>5, TypeParts
<1>6. CASE Wake
  <2>1. /\ recvEvent' = TRUE /\ lpc' = "idle"
        /\ UNCHANGED <<recvBuf, recvLock, rpc, rest, got, filled, sendVars, active,
                       closes, wpc, peer>>
    BY <1>6 DEF Wake
  <2>2. RecvType' /\ LockHeld'
    BY <1>0, <2>1 DEF RecvType, LockHeld
  <2>3. LoopType' /\ FillInv'
    BY <1>0, <2>1 DEF LoopType, LoopPC, FillInv
  <2> QED BY <1>s, <2>1, <2>2, <2>3, TypeParts
<1>7. CASE StartSend \/ StartSendBlocks \/ EndSend
  <2>1. UNCHANGED <<recvVars, active, closes, wpc, peer>>
    BY <1>7 DEF StartSend, StartSendBlocks, EndSend
  <2>2. LoopType' /\ FillInv'
    BY <1>0, <1>7, <2>1 DEF StartSend, StartSendBlocks, EndSend, LoopType, LoopPC,
       FillInv
  <2>3. SendType'
    <3>1. CASE StartSend \/ StartSendBlocks
      <4>1. sends > 0 /\ sends' = sends - 1
        BY <3>1 DEF StartSend, StartSendBlocks
      <4>2. sends' \in Nat
        BY <1>0, <4>1 DEF SendType
      <4>3. /\ UNCHANGED <<written, wire>>
            /\ <<>> \in Seq(Nat)
            /\ UNCHANGED <<sendBuf, inflight>> \/ (sendBuf' = <<>> /\ inflight' = sendBuf)
            /\ sendLock' \in {sendLock, Loop}
        BY <3>1 DEF StartSend, StartSendBlocks
      <4> QED BY <1>0, <4>2, <4>3 DEF SendType
    <3>2. CASE EndSend
      <4>1. wire \o inflight \in Seq(Nat)
        BY <1>0, ConcatNat DEF SendType
      <4>2. /\ UNCHANGED <<written, sendBuf, sends>>
            /\ <<>> \in Seq(Nat) /\ inflight' = <<>>
            /\ wire' = wire \o inflight \/ wire' = wire
            /\ sendLock' = NoThread
        BY <3>2 DEF EndSend
      <4> QED BY <1>0, <4>1, <4>2 DEF SendType
    <3> QED BY <1>7, <3>1, <3>2
  <2> QED BY <1>r, <2>1, <2>2, <2>3, TypeParts
<1>8. CASE UNCHANGED vars
  <2>1. UNCHANGED <<recvVars, sendVars>> /\ LoopType' /\ FillInv'
    BY <1>0, <1>8 DEF vars, LoopType, FillInv
  <2> QED BY <1>r, <1>s, <2>1, TypeParts
<1> QED
  BY <1>2, <1>3, <1>4, <1>5, <1>6, <1>7, <1>8 DEF Next, LoopTask

\* Every variable keeps its type, and the lock of the receive buffer is held by
\* at most one reader, exactly between its acquisition and its release.
THEOREM TypeCorrect == Spec => []TypeOK
<1>1. Init => FillInv
  BY DEF Init, FillInv
<1> QED
  BY <1>1, InitType, TypeInductive, PTL DEF Spec

-----------------------------------------------------------------------------
\* While a reader is about to store it, the rest stands for the buffer.
LEMMA RecvIntactInductive ==
  TypeOK /\ RecvIntact /\ [Next]_vars => RecvIntact'
<1> SUFFICES ASSUME TypeOK, RecvIntact, [Next]_vars PROVE RecvIntact'
  OBVIOUS
<1> DEFINE Storing == \E r \in Readers : rpc[r] = "store"
<1> USE DEF recvVars, sendVars
<1>0. /\ RecvType /\ LockHeld
      /\ Storing => got \o rest = UpTo(filled)
      /\ ~ Storing => got \o recvBuf = UpTo(filled)
  BY TypeParts DEF RecvIntact
<1>1. ASSUME /\ Storing' => got' \o rest' = UpTo(filled')
             /\ ~ Storing' => got' \o recvBuf' = UpTo(filled')
      PROVE  RecvIntact'
  BY <1>1 DEF RecvIntact
<1>2. ASSUME UNCHANGED <<got, rest, recvBuf, filled>>, Storing' <=> Storing
      PROVE  RecvIntact'
  <2> HIDE DEF Storing
  <2> QED BY <1>0, <1>1, <1>2
<1>3. recvLock = NoThread => ~ Storing
  BY <1>0, ThreadsOK DEF LockHeld
<1>4. ASSUME NEW r \in Readers, Recv(r) PROVE RecvIntact'
  <2>1. CASE RecvCall(r) \/ RecvClosed(r) \/ RecvClear(r) \/ RecvWoken(r) \/ RecvTimeout(r)
    <3>1. UNCHANGED <<got, rest, recvBuf, filled>>
      BY <2>1 DEF RecvCall, RecvClosed, RecvClear, RecvWoken, RecvTimeout
    <3>2. \A q \in Readers : rpc'[q] = "store" <=> rpc[q] = "store"
      BY <1>0, <2>1 DEF RecvCall, RecvClosed, RecvClear, RecvWoken, RecvTimeout,
         RecvGoto, RecvType
    <3> QED BY <1>2, <3>1, <3>2
  <2>2. CASE RecvTake(r) /\ recvBuf = <<>>
    <3>1. UNCHANGED <<got, rest, recvBuf, filled>>
      BY <2>2 DEF RecvTake
    <3>2. \A q \in Readers : rpc'[q] = "store" <=> rpc[q] = "store"
      BY <1>0, <2>2 DEF RecvTake, RecvGoto, RecvType
    <3> QED BY <1>2, <3>1, <3>2
  <2>3. CASE RecvTake(r) /\ recvBuf # <<>>
    <3>1. PICK s \in Seq(Nat), t \in Seq(Nat) :
            s \o t = recvBuf /\ got' = got \o s /\ rest' = t
      BY <2>3, TakeSplits
    <3>2. rpc'[r] = "store" /\ recvLock = NoThread /\ filled' = filled
      BY <1>0, <2>3 DEF RecvTake, RecvGoto, RecvType
    <3>3. got \o recvBuf = UpTo(filled)
      BY <1>0, <1>3, <3>2
    <3>4. (got \o s) \o t = got \o (s \o t)
      BY <1>0, RegroupSeq DEF RecvType
    <3> QED BY <1>1, <3>1, <3>2, <3>3, <3>4
  <2>4. CASE RecvStore(r)
    <3>1. /\ rpc[r] = "store" /\ recvLock = r
          /\ recvBuf' = rest /\ UNCHANGED <<got, filled>>
      BY <1>0, <2>4 DEF RecvStore, LockHeld
    <3>2. \A q \in Readers : rpc'[q] # "store"
      BY <1>0, <2>4, <3>1 DEF RecvStore, RecvGoto, RecvType, LockHeld
    <3>3. got \o rest = UpTo(filled)
      BY <1>0, <3>1
    <3> QED BY <1>1, <3>1, <3>2, <3>3
  <2> QED BY <1>4, <2>1, <2>2, <2>3, <2>4 DEF Recv
<1>5. CASE Fill
  <2>1. /\ recvLock = NoThread /\ recvBuf' = Append(recvBuf, filled + 1)
        /\ filled' = filled + 1 /\ UNCHANGED <<got, rpc>>
    BY <1>5 DEF Fill
  <2>2. got \o recvBuf = UpTo(filled) /\ ~ Storing'
    BY <1>0, <1>3, <2>1
  <2>3. filled \in Nat /\ filled + 1 \in Nat
    BY <1>0, ThreadsOK DEF RecvType
  <2>4. got \o Append(recvBuf, filled + 1) = Append(got \o recvBuf, filled + 1)
    BY <1>0, <2>3, AppendRegroup DEF RecvType
  <2>5. Append(UpTo(filled), filled + 1) = UpTo(filled + 1)
    BY <2>3, NextOfUpTo
  <2> QED BY <1>1, <2>1, <2>2, <2>4, <2>5
<1>6. ASSUME UNCHANGED <<got, rest, recvBuf, filled, rpc>> PROVE RecvIntact'
  BY <1>2, <1>6
<1>7. ASSUME NEW w \in Writers, SendExtend(w) \/ SendSchedule(w) \/ Close(w)
      PROVE  RecvIntact'
  BY <1>6, <1>7 DEF SendExtend, SendSchedule, Close
<1>8. CASE \/ PeerEnds \/ DataArrives \/ StartSendBlocks \/ DropEntry \/ Wake
           \/ StartSend \/ EndSend \/ UNCHANGED vars
  BY <1>6, <1>8 DEF PeerEnds, DataArrives, StartSendBlocks, DropEntry, Wake,
     StartSend, EndSend, vars
<1> QED BY <1>4, <1>5, <1>7, <1>8 DEF Next, LoopTask

\* Whatever threads call recv() while the loop fills the buffer, no chunk is
\* lost, returned twice or returned out of order.
THEOREM RecvIntactHolds == Spec => []RecvIntact
<1>1. Init => RecvIntact
  <2>1. UpTo(0) = <<>> /\ <<>> \o <<>> = <<>>
    BY UpToIsSeq
  <2> QED BY <2>1 DEF Init, RecvIntact
<1> QED
  BY <1>1, TypeCorrect, RecvIntactInductive, PTL DEF Spec

-----------------------------------------------------------------------------
\* Nothing is on its way when no send_async holds the lock.
IdleInv == sendLock = NoThread => inflight = <<>>

LEMMA SendIntactInductive ==
  TypeOK /\ IdleInv /\ SendIntact /\ [Next]_vars => IdleInv' /\ SendIntact'
<1> SUFFICES ASSUME TypeOK, IdleInv, SendIntact, [Next]_vars
             PROVE  IdleInv' /\ SendIntact'
  OBVIOUS
<1> USE DEF recvVars, sendVars
<1>0. SendType
  BY TypeParts
<1>1. ASSUME UNCHANGED <<sendBuf, sendLock, inflight, wire, written>>,
             peer' # "gone" => peer # "gone"
      PROVE  IdleInv' /\ SendIntact'
  BY <1>1 DEF IdleInv, SendIntact
<1>2. ASSUME NEW w \in Writers, SendExtend(w) PROVE IdleInv' /\ SendIntact'
  <2>1. /\ sendLock = NoThread /\ sendBuf' = Append(sendBuf, written + 1)
        /\ written' = written + 1 /\ UNCHANGED <<sendLock, inflight, wire, peer>>
    BY <1>2 DEF SendExtend
  <2>2. written \in Nat /\ written + 1 \in Nat
    BY <1>0, ThreadsOK DEF SendType
  <2>3. wire \o inflight \in Seq(Nat) /\ sendBuf \in Seq(Nat)
    BY <1>0, ConcatNat DEF SendType
  <2>4. (wire \o inflight) \o Append(sendBuf, written + 1)
          = Append((wire \o inflight) \o sendBuf, written + 1)
    BY <2>2, <2>3, AppendRegroup
  <2>5. Append(UpTo(written), written + 1) = UpTo(written + 1)
    BY <2>2, NextOfUpTo
  <2> QED BY <2>1, <2>4, <2>5 DEF IdleInv, SendIntact
<1>3. CASE StartSend
  <2>1. /\ sendLock = NoThread /\ sendLock' = Loop
        /\ inflight' = sendBuf /\ sendBuf' = <<>> /\ UNCHANGED <<wire, written, peer>>
    BY <1>3 DEF StartSend
  <2>2. inflight = <<>> /\ sendLock' # NoThread
    BY <2>1, ThreadsOK DEF IdleInv
  <2>3. wire \in Seq(Nat) /\ sendBuf \in Seq(Nat) /\ wire \o sendBuf \in Seq(Nat)
    BY <1>0, ConcatNat DEF SendType
  <2>4. wire \o <<>> = wire /\ (wire \o sendBuf) \o <<>> = wire \o sendBuf
    BY <2>3, ConcatEmptySeq
  <2> QED BY <2>1, <2>2, <2>4 DEF IdleInv, SendIntact
<1>4. CASE EndSend
  <2>1. /\ inflight' = <<>> /\ UNCHANGED <<sendBuf, written, peer>>
        /\ peer # "gone" => wire' = wire \o inflight
    BY <1>4 DEF EndSend
  <2>2. wire \o inflight \in Seq(Nat)
    BY <1>0, ConcatNat DEF SendType
  <2>3. (wire \o inflight) \o <<>> = wire \o inflight
    BY <2>2, ConcatEmptySeq
  <2> QED BY <2>1, <2>3 DEF IdleInv, SendIntact
<1>5. ASSUME NEW r \in Readers, Recv(r) PROVE IdleInv' /\ SendIntact'
  BY <1>1, <1>5, RecvFrame
<1>6. ASSUME NEW w \in Writers, SendSchedule(w) \/ Close(w)
      PROVE  IdleInv' /\ SendIntact'
  BY <1>1, <1>6 DEF SendSchedule, Close
<1>7. CASE \/ PeerEnds \/ DataArrives \/ StartSendBlocks \/ DropEntry \/ Wake
           \/ Fill \/ UNCHANGED vars
  BY <1>1, <1>7 DEF PeerEnds, DataArrives, StartSendBlocks, DropEntry, Wake,
     Fill, vars
<1> QED BY <1>2, <1>3, <1>4, <1>5, <1>6, <1>7 DEF Next, LoopTask

\* What the agent is sent is what was written with send(), in order and nothing
\* twice, whatever threads write while a send_async is suspended.
THEOREM SendIntactHolds == Spec => []SendIntact
<1>1. Init => IdleInv /\ SendIntact
  <2>1. UpTo(0) = <<>> /\ <<>> \o <<>> = <<>>
    BY UpToIsSeq
  <2> QED BY <2>1 DEF Init, IdleInv, SendIntact
<1> QED
  BY <1>1, TypeCorrect, SendIntactInductive, PTL DEF Spec

-----------------------------------------------------------------------------
\* A reader that holds the lock for its test of closed, or that has ended, left
\* the buffer empty; one that was woken finds data, or an end.
WokenInv ==
  \A r \in Readers :
    /\ rpc[r] \in {"closed", "clear"} => recvBuf = <<>>
    /\ rpc[r] = "take" \/ (rpc[r] = "wait" /\ recvEvent) => recvBuf # <<>> \/ ~ active
    /\ rpc[r] = "eof" => recvBuf = <<>> /\ ~ active

WakeInv == lpc = "wake" => ~ active

\* With two readers the second to be woken may find what the first one left.
LEMMA WokenInductive ==
  ASSUME NEW only, Readers = {only}
  PROVE  TypeOK /\ FillInv /\ WakeInv /\ WokenInv /\ [Next]_vars => WakeInv' /\ WokenInv'
<1> SUFFICES ASSUME TypeOK, FillInv, WakeInv, WokenInv, [Next]_vars
             PROVE  WakeInv' /\ WokenInv'
  OBVIOUS
<1> USE DEF recvVars, sendVars
<1>0. RecvType /\ LockHeld
  BY TypeParts
<1>1. ASSUME UNCHANGED <<recvBuf, recvEvent, rpc, active>>, lpc' = "wake" => lpc = "wake"
      PROVE  WakeInv' /\ WokenInv'
  BY <1>1 DEF WakeInv, WokenInv
<1>2. ASSUME NEW r \in Readers, Recv(r) PROVE WakeInv' /\ WokenInv'
  <2>1. UNCHANGED <<active, lpc>> /\ WakeInv'
    BY <1>2, RecvFrame DEF WakeInv
  <2>2. r = only /\ rpc \in [Readers -> RecvPC]
    BY <1>0 DEF RecvType
  <2>3. CASE RecvCall(r)
    BY <2>1, <2>2, <2>3, <1>0 DEF RecvCall, RecvGoto, WokenInv
  <2>4. CASE RecvClosed(r)
    BY <2>1, <2>2, <2>4 DEF RecvClosed, RecvGoto, WokenInv
  <2>5. CASE RecvClear(r)
    BY <2>1, <2>2, <2>5 DEF RecvClear, RecvGoto, WokenInv
  <2>6. CASE RecvWoken(r) \/ RecvTimeout(r)
    BY <2>1, <2>2, <2>6 DEF RecvWoken, RecvTimeout, RecvGoto, WokenInv
  <2>7. CASE RecvTake(r)
    <3>1. rpc[r] = "take" /\ UNCHANGED recvBuf /\ rpc'[r] \in {"eof", "store"}
          /\ (rpc'[r] = "eof" => recvBuf = <<>>)
      BY <2>2, <2>7 DEF RecvTake, RecvGoto
    <3> QED BY <2>1, <2>2, <3>1 DEF WokenInv
  <2>8. CASE RecvStore(r)
    BY <2>1, <2>2, <2>8 DEF RecvStore, RecvGoto, WokenInv
  <2> QED BY <1>2, <2>1, <2>3, <2>4, <2>5, <2>6, <2>7, <2>8 DEF Recv
<1>3. CASE Fill
  <2>1. /\ active /\ UNCHANGED <<rpc, active>> /\ lpc' = "idle" /\ recvLock = NoThread
        /\ recvBuf' = Append(recvBuf, filled + 1)
    BY <1>3 DEF Fill, FillInv
  <2>2. filled + 1 \in Nat /\ recvBuf \in Seq(Nat)
    BY <1>0 DEF RecvType
  <2>3. recvBuf' # <<>>
    BY <2>1, <2>2, AppendProperties
  <2>4. \A r \in Readers : rpc[r] \notin {"closed", "clear"}
    BY <1>0, <2>1, ThreadsOK DEF LockHeld
  <2> QED BY <2>1, <2>3, <2>4 DEF WakeInv, WokenInv
<1>4. CASE DropEntry
  BY <1>4 DEF DropEntry, WakeInv, WokenInv
<1>5. CASE Wake
  BY <1>5 DEF Wake, WakeInv, WokenInv
<1>6. ASSUME NEW w \in Writers, SendExtend(w) \/ SendSchedule(w) \/ Close(w)
      PROVE  WakeInv' /\ WokenInv'
  BY <1>1, <1>6 DEF SendExtend, SendSchedule, Close
<1>7. CASE \/ PeerEnds \/ DataArrives \/ StartSendBlocks \/ StartSend \/ EndSend
           \/ UNCHANGED vars
  BY <1>1, <1>7 DEF PeerEnds, DataArrives, StartSendBlocks, StartSend, EndSend, vars
<1> QED BY <1>2, <1>3, <1>4, <1>5, <1>6, <1>7 DEF Next, LoopTask

\* With one thread that receives, recv() raises EOFError only on a connection
\* that was dropped, and after it has returned every chunk.
THEOREM EOFMeansEndHolds ==
  ASSUME NEW only, Readers = {only}
  PROVE  Spec => []EOFMeansEnd
<1>1. Init => FillInv /\ WakeInv /\ WokenInv
  BY DEF Init, FillInv, WakeInv, WokenInv
<1>2. TypeOK /\ WokenInv /\ RecvIntact => EOFMeansEnd
  <2> SUFFICES ASSUME TypeOK, WokenInv, RecvIntact, NEW r \in Readers, rpc[r] = "eof"
               PROVE  ~ active /\ got = UpTo(filled)
    BY DEF EOFMeansEnd
  <2>1. recvBuf = <<>> /\ ~ active /\ got \in Seq(Nat)
    BY DEF WokenInv, TypeOK
  <2>2. ~ \E q \in Readers : rpc[q] = "store"
    OBVIOUS
  <2>3. got \o <<>> = UpTo(filled)
    BY <2>1, <2>2 DEF RecvIntact
  <2> QED BY <2>1, <2>3, ConcatEmptySeq
<1> QED
  BY <1>1, <1>2, InitType, TypeCorrect, RecvIntactHolds, TypeInductive, WokenInductive,
     PTL DEF Spec

=============================================================================

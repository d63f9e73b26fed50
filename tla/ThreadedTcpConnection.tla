----------------------- MODULE ThreadedTcpConnection -----------------------
(***************************************************************************)
(* TcpConnection (http_network_relay/network_relay.py): a relayed          *)
(* connection used from threads other than the relay's event loop.         *)
(*                                                                         *)
(* Threads call recv(), send() and close(); the event loop fills the       *)
(* receive buffer, runs the send_async and close_relayed_connection        *)
(* coroutines the threads schedule, and drops the connection.  A step is a *)
(* stretch between two accesses to state that another thread shares: the   *)
(* active_relayed_connections table and the receive event are read and set *)
(* without a lock.  The send buffer's lock is a threading.Lock that        *)
(* send_async keeps across an await.                                       *)
(***************************************************************************)
EXTENDS Integers, Sequences, Chunks

CONSTANTS
  Readers,    \* threads that call recv(), over and over until EOFError
  Writers,    \* threads that call send() and close()
  NoThread,   \* nobody holds a lock
  Loop,       \* the event loop as a holder of the send buffer's lock
  MaxFill,    \* bound: chunks the agent sends
  MaxWrites,  \* bound: calls of send()
  RecvSize,   \* argument of recv(), in chunks
  HasTimeout  \* settimeout() was called with a number

ASSUME ThreadsOK ==
  /\ NoThread \notin Readers \cup {Loop} /\ Loop \notin Readers
  /\ MaxFill \in Nat /\ MaxWrites \in Nat /\ RecvSize \in Nat \ {0}
  /\ HasTimeout \in BOOLEAN

VARIABLES
  active,      \* the connection is in active_relayed_connections
  recvBuf,     \* recv_buffer, as chunk numbers
  recvEvent,   \* recv_event
  recvLock,    \* holder of recv_buffer_lock between two steps
  rpc,         \* recv() of each reader
  rest,        \* the slice a reader is about to store as recv_buffer
  got,         \* chunks recv() returned, in the order of the calls' slices
  filled,      \* chunks received from the agent
  sendBuf,     \* send_buffer
  sendLock,    \* holder of send_buffer_lock between two steps
  inflight,    \* content of the send_async that is suspended
  sends,       \* send_async coroutines scheduled and not started
  closes,      \* close_relayed_connection coroutines that have not dropped yet
  written,     \* chunks written with send()
  wpc,         \* send() and close() of each writer
  wire,        \* chunks sent to the agent
  lpc,         \* the event loop
  peer         \* the agent's end: "open", "ended", or "gone" with its socket

recvVars == <<recvBuf, recvEvent, recvLock, rpc, rest, got, filled>>
sendVars == <<sendBuf, sendLock, inflight, sends, written, wire>>
vars == <<recvVars, sendVars, active, closes, wpc, lpc, peer>>

RecvPC == {"call", "closed", "clear", "wait", "take", "store", "eof"}
LoopPC == {"idle", "fill", "wake", "send"}

Init ==
  /\ active = TRUE
  /\ recvBuf = <<>> /\ recvEvent = FALSE /\ recvLock = NoThread
  /\ rpc = [r \in Readers |-> "call"] /\ rest = <<>>
  /\ got = <<>> /\ filled = 0
  /\ sendBuf = <<>> /\ sendLock = NoThread /\ inflight = <<>>
  /\ sends = 0 /\ closes = 0 /\ written = 0
  /\ wpc = [w \in Writers |-> "idle"]
  /\ wire = <<>> /\ lpc = "idle" /\ peer = "open"

-----------------------------------------------------------------------------
(* recv()                                                                  *)

RecvGoto(r, l) == rpc' = [rpc EXCEPT ![r] = l]

\* Take the lock and look at the buffer; with data there is nothing to clear.
RecvCall(r) ==
  /\ rpc[r] = "call" /\ recvLock = NoThread
  /\ IF recvBuf = <<>> THEN RecvGoto(r, "closed") /\ recvLock' = r
                       ELSE RecvGoto(r, "wait") /\ UNCHANGED recvLock
  /\ UNCHANGED <<recvBuf, recvEvent, rest, got, filled, sendVars, active,
                 closes, wpc, lpc, peer>>

\* The test of closed is forgotten.
RecvClosedUntested(r) ==
  /\ rpc[r] = "closed"
  /\ RecvGoto(r, "clear") /\ UNCHANGED recvLock
  /\ UNCHANGED <<recvBuf, recvEvent, rest, got, filled, sendVars, active,
                 closes, wpc, lpc, peer>>

\* EOFError is raised with the lock still held.
RecvClosedLocked(r) ==
  /\ rpc[r] = "closed"
  /\ RecvGoto(r, IF active THEN "clear" ELSE "eof")
  /\ UNCHANGED <<recvLock, recvBuf, recvEvent, rest, got, filled, sendVars,
                 active, closes, wpc, lpc, peer>>

\* closed reads the table, which the loop changes without this lock.
RecvClosed(r) ==
  /\ rpc[r] = "closed"
  /\ IF active THEN RecvGoto(r, "clear") /\ UNCHANGED recvLock
               ELSE RecvGoto(r, "eof") /\ recvLock' = NoThread
  /\ UNCHANGED <<recvBuf, recvEvent, rest, got, filled, sendVars, active,
                 closes, wpc, lpc, peer>>

\* The event is left as it was.
RecvNotCleared(r) ==
  /\ rpc[r] = "clear"
  /\ recvLock' = NoThread
  /\ RecvGoto(r, "wait")
  /\ UNCHANGED <<recvBuf, recvEvent, rest, got, filled, sendVars, active,
                 closes, wpc, lpc, peer>>

RecvClear(r) ==
  /\ rpc[r] = "clear"
  /\ recvEvent' = FALSE /\ recvLock' = NoThread
  /\ RecvGoto(r, "wait")
  /\ UNCHANGED <<recvBuf, rest, got, filled, sendVars, active, closes, wpc,
                 lpc, peer>>

RecvWoken(r) ==
  /\ rpc[r] = "wait" /\ recvEvent
  /\ RecvGoto(r, "take")
  /\ UNCHANGED <<recvBuf, recvEvent, recvLock, rest, got, filled, sendVars,
                 active, closes, wpc, lpc, peer>>

\* TimeoutError, the event still not set; the caller calls again.
RecvTimeout(r) ==
  /\ rpc[r] = "wait" /\ HasTimeout /\ ~ recvEvent
  /\ RecvGoto(r, "call")
  /\ UNCHANGED <<recvBuf, recvEvent, recvLock, rest, got, filled, sendVars,
                 active, closes, wpc, lpc, peer>>

\* Under the lock: the result, and the rest of the buffer as a new object.
RecvTake(r) ==
  LET n == IF Len(recvBuf) < RecvSize THEN Len(recvBuf) ELSE RecvSize
  IN  /\ rpc[r] = "take" /\ recvLock = NoThread
      /\ IF recvBuf = <<>>
         THEN RecvGoto(r, "eof") /\ UNCHANGED <<recvLock, got, rest>>
         ELSE /\ RecvGoto(r, "store") /\ recvLock' = r
              /\ got' = got \o SubSeq(recvBuf, 1, n)
              /\ rest' = SubSeq(recvBuf, n + 1, Len(recvBuf))
      /\ UNCHANGED <<recvBuf, recvEvent, filled, sendVars, active, closes, wpc,
                     lpc, peer>>

\* recv_buffer is replaced by the rest, and recv() returns.
RecvStore(r) ==
  /\ rpc[r] = "store"
  /\ recvBuf' = rest /\ rest' = <<>> /\ recvLock' = NoThread
  /\ RecvGoto(r, "call")
  /\ UNCHANGED <<recvEvent, got, filled, sendVars, active, closes, wpc, lpc,
                 peer>>

-----------------------------------------------------------------------------
(* send() and close()                                                      *)

\* send_buffer.extend under the lock.
SendExtend(w) ==
  /\ wpc[w] = "idle" /\ written < MaxWrites /\ sendLock = NoThread
  /\ sendBuf' = Append(sendBuf, written + 1)
  /\ written' = written + 1
  /\ wpc' = [wpc EXCEPT ![w] = "schedule"]
  /\ UNCHANGED <<recvVars, sendLock, inflight, sends, wire, active, closes, lpc,
                 peer>>

\* send_async is scheduled even where send() then raises EOFError.
SendSchedule(w) ==
  /\ wpc[w] = "schedule"
  /\ sends' = sends + 1
  /\ wpc' = [wpc EXCEPT ![w] = "idle"]
  /\ UNCHANGED <<recvVars, sendBuf, sendLock, inflight, written, wire, active,
                 closes, lpc, peer>>

\* close(), once per writer.
Close(w) ==
  /\ wpc[w] = "idle"
  /\ closes' = closes + 1
  /\ wpc' = [wpc EXCEPT ![w] = "closed"]
  /\ UNCHANGED <<recvVars, sendVars, active, lpc, peer>>

-----------------------------------------------------------------------------
(* The event loop                                                          *)

\* The agent resets the connection or goes away: either way the loop runs a
\* close_relayed_connection.
PeerEnds ==
  /\ lpc = "idle" /\ peer = "open"
  /\ peer' \in {"ended", "gone"}
  /\ closes' = closes + 1
  /\ UNCHANGED <<recvVars, sendVars, active, wpc, lpc>>

\* Data from the agent for a connection that is active.
DataArrives ==
  /\ lpc = "idle" /\ active /\ peer = "open" /\ filled < MaxFill
  /\ lpc' = "fill"
  /\ UNCHANGED <<recvVars, sendVars, active, closes, wpc, peer>>

\* fill_recv without the lock.
FillUnlocked ==
  /\ lpc = "fill"
  /\ recvBuf' = Append(recvBuf, filled + 1)
  /\ filled' = filled + 1
  /\ recvEvent' = TRUE
  /\ lpc' = "idle"
  /\ UNCHANGED <<recvLock, rpc, rest, got, sendVars, active, closes, wpc, peer>>

\* fill_recv: the loop waits for the lock.
Fill ==
  /\ lpc = "fill" /\ recvLock = NoThread
  /\ recvBuf' = Append(recvBuf, filled + 1)
  /\ filled' = filled + 1
  /\ recvEvent' = TRUE
  /\ lpc' = "idle"
  /\ UNCHANGED <<recvLock, rpc, rest, got, sendVars, active, closes, wpc, peer>>

\* close_relayed_connection, the agent informed, pops the table's entry.
DropEntry ==
  /\ lpc = "idle" /\ closes > 0
  /\ closes' = closes - 1
  /\ active' = FALSE
  /\ lpc' = IF active THEN "wake" ELSE "idle"
  /\ UNCHANGED <<recvVars, sendVars, wpc, peer>>

\* wake_readers
Wake ==
  /\ lpc = "wake"
  /\ recvEvent' = TRUE
  /\ lpc' = "idle"
  /\ UNCHANGED <<recvBuf, recvLock, rpc, rest, got, filled, sendVars, active,
                 closes, wpc, peer>>

\* The buffer is sent and kept.
StartSendAgain ==
  /\ lpc = "idle" /\ sends > 0 /\ sendLock = NoThread
  /\ sends' = sends - 1
  /\ inflight' = sendBuf /\ sendLock' = Loop
  /\ UNCHANGED <<recvVars, sendBuf, written, wire, active, closes, wpc, lpc, peer>>

\* send_async takes the lock and the buffer, and is suspended in its send.
StartSend ==
  /\ lpc = "idle" /\ sends > 0 /\ sendLock = NoThread
  /\ sends' = sends - 1
  /\ inflight' = sendBuf /\ sendBuf' = <<>> /\ sendLock' = Loop
  /\ UNCHANGED <<recvVars, written, wire, active, closes, wpc, lpc, peer>>

\* A second send_async asks for a lock held by a suspended coroutine: the loop's
\* own thread blocks, so that coroutine is never resumed.
StartSendBlocks ==
  /\ lpc = "idle" /\ sends > 0 /\ sendLock = Loop
  /\ sends' = sends - 1
  /\ lpc' = "send"
  /\ UNCHANGED <<recvVars, sendBuf, sendLock, inflight, written, wire, active,
                 closes, wpc, peer>>

\* The send is done; to an agent that is gone it raises, and the data is lost.
EndSend ==
  /\ lpc = "idle" /\ sendLock = Loop
  /\ \/ wire' = wire \o inflight
     \/ peer = "gone" /\ UNCHANGED wire
  /\ inflight' = <<>> /\ sendLock' = NoThread
  /\ UNCHANGED <<recvVars, sendBuf, sends, written, active, closes, wpc, lpc,
                 peer>>

-----------------------------------------------------------------------------
Recv(r) ==
  \/ RecvCall(r) \/ RecvClosed(r) \/ RecvClear(r) \/ RecvWoken(r)
  \/ RecvTimeout(r) \/ RecvTake(r) \/ RecvStore(r)

LoopTask == Fill \/ DropEntry \/ Wake \/ StartSend \/ EndSend

Next ==
  \/ \E r \in Readers : Recv(r)
  \/ \E w \in Writers : SendExtend(w) \/ SendSchedule(w) \/ Close(w)
  \/ PeerEnds \/ DataArrives \/ StartSendBlocks \/ LoopTask

Spec == Init /\ [][Next]_vars

\* Threads run, a reader calls recv() until it raises EOFError, and the loop
\* runs what is ready.  Nothing is assumed of the writers and of the agent.
FairSpec == Spec /\ WF_vars(LoopTask) /\ \A r \in Readers : WF_vars(Recv(r))

-----------------------------------------------------------------------------
\* Every variable keeps its type, and a lock is held where the code holds it.
TypeOK ==
  /\ active \in BOOLEAN /\ recvEvent \in BOOLEAN
  /\ recvBuf \in Seq(Nat) /\ rest \in Seq(Nat) /\ got \in Seq(Nat)
  /\ sendBuf \in Seq(Nat) /\ inflight \in Seq(Nat) /\ wire \in Seq(Nat)
  /\ rpc \in [Readers -> RecvPC]
  /\ wpc \in [Writers -> {"idle", "schedule", "closed"}]
  /\ lpc \in LoopPC /\ peer \in {"open", "ended", "gone"}
  /\ filled \in 0 .. MaxFill /\ written \in 0 .. MaxWrites
  /\ sends \in Nat /\ closes \in Nat
  /\ recvLock \in Readers \cup {NoThread} /\ sendLock \in {Loop, NoThread}
  /\ \A r \in Readers : recvLock = r <=> rpc[r] \in {"closed", "clear", "store"}

\* Whatever threads call recv() while the loop fills the buffer, no chunk is
\* lost, returned twice or returned out of order.
RecvIntact ==
  LET left == IF \E r \in Readers : rpc[r] = "store" THEN rest ELSE recvBuf
  IN  got \o left = UpTo(filled)

\* What the agent is sent is what was written with send(), in order, until the
\* agent is gone.
SendIntact ==
  peer # "gone" => wire \o inflight \o sendBuf = UpTo(written)

\* network_relay.py:117, "woken by close, not by data": recv() raises EOFError
\* only on a connection that was dropped, after every chunk was returned.  With
\* one reader this holds.
EOFMeansEnd ==
  (\E r \in Readers : rpc[r] = "eof") => ~ active /\ got = UpTo(filled)

\* Where recv() has a timeout, a reader learns of the end of the connection,
\* whichever step of recv() the drop falls into.
DropReachesReaders ==
  ~ active ~> \A r \in Readers : rpc[r] = "eof"

\* network_relay.py:124, "Unblock recv() after the connection was dropped from
\* the relay": no recv() stays in its wait on a dropped connection.
RecvUnblocked ==
  \A r \in Readers : ~ active /\ rpc[r] = "wait" ~> rpc[r] # "wait"

=============================================================================

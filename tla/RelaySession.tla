---------------------------- MODULE RelaySession ----------------------------
(***************************************************************************)
(* The life of a relayed connection inside the relay process               *)
(* (http_network_relay/network_relay.py): the handler of an access-client  *)
(* websocket, the reader task it starts, the message loop of the edge      *)
(* agent's websocket, and the tables they share.                           *)
(*                                                                         *)
(* The relay runs on one asyncio event loop, so a task runs alone from one *)
(* suspension point to the next: every action below is such a stretch, and *)
(* a program counter names the await at which the task is suspended.  An   *)
(* await on a websocket send stands for "take the agent's send lock and    *)
(* send": it completes or raises when the action is taken.                 *)
(*                                                                         *)
(* A handler creates at most one relayed connection, under a fresh UUID,   *)
(* so the connection is named by its access client.  An agent is one       *)
(* websocket connection of an edge agent, registered at most once; reuse   *)
(* of an agent's name by a later websocket is not part of this module.     *)
(* Messages from a peer are received without an explicit queue: what the   *)
(* peer may have sent next is received when the relay gets to it.          *)
(***************************************************************************)
EXTENDS Integers, Sequences, Chunks

CONSTANTS
  Agents,     \* edge-agent websocket connections
  Clients,    \* access-client websocket connections, one relayed connection each
  None,       \* no agent, no connection
  MaxChunks,  \* bound: chunks of target data an agent sends per connection
  ReadSize    \* READ_CHUNK_SIZE, in chunks: what one read() returns at most

ASSUME ConstantsOK ==
  /\ None \notin Agents \cup Clients
  /\ MaxChunks \in Nat
  /\ ReadSize \in Nat \ {0}

VARIABLES
  registered,    \* registered_agent_connections
  agentUp,       \* agents whose socket is open (the relay may not know yet)
  lpc,           \* _msg_loop of each agent: where it is suspended
  cur,           \* connection the message loop is closing, or None
  pending,       \* rest of the copy edge_agent_connection_close iterates over
  hpc,           \* ws_for_access_clients of each client: where it is suspended
  agentOf,       \* TcpConnectionAsync.agent_connection, None before creation
  answers,       \* initiate_connection_answer_queues: no entry, empty, or an answer
  relayed,       \* active_relayed_connections
  accessClients, \* active_access_client_connections
  clientUp,      \* clients that have not gone away
  wsClosed,      \* access-client websockets closed by the relay
  rpc,           \* access_client_receive_thread of each client
  buf,           \* TcpConnectionAsync.recv_buffer, as chunk numbers
  hand,          \* what the reader took from the buffer and is sending
  event,         \* TcpConnectionAsync.event
  remote,        \* the agent's end of the connection
  emitted,       \* chunks of target data received from the agent
  closeSent,     \* connections whose close message the agent was sent
  delivered      \* chunks sent to the client

loopVars    == <<registered, lpc, cur, pending>>
tableVars   == <<agentOf, answers, relayed, accessClients>>
socketVars  == <<agentUp, clientUp, wsClosed>>
readerVars  == <<rpc, hand, delivered>>
remoteVars  == <<remote, emitted, closeSent>>
vars == <<loopVars, tableVars, socketVars, readerVars, remoteVars, hpc, buf, event>>

LoopPC    == {"absent", "receive", "close", "drop", "done", "raised"}
HandlerPC == {"start", "initiate", "answer", "start_ok", "refused", "receive",
              "forward", "close", "join", "cancel_join", "done", "crashed"}
ReaderPC  == {"none", "start", "wait", "send", "done"}
RemoteState == {"none", "asked", "open", "refused", "ended"}

Init ==
  /\ registered = {} /\ agentUp = {}
  /\ lpc = [a \in Agents |-> "absent"]
  /\ cur = [a \in Agents |-> None]
  /\ pending = [a \in Agents |-> {}]
  /\ hpc = [c \in Clients |-> "start"]
  /\ agentOf = [c \in Clients |-> None]
  /\ answers = [c \in Clients |-> "none"]
  /\ relayed = {} /\ accessClients = {}
  /\ clientUp = Clients /\ wsClosed = {}
  /\ rpc = [c \in Clients |-> "none"]
  /\ buf = [c \in Clients |-> <<>>]
  /\ hand = [c \in Clients |-> <<>>]
  /\ event = [c \in Clients |-> FALSE]
  /\ remote = [c \in Clients |-> "none"]
  /\ emitted = [c \in Clients |-> 0]
  /\ closeSent = {}
  /\ delivered = [c \in Clients |-> <<>>]

-----------------------------------------------------------------------------
(* What the actions share.                                                 *)

Goto(pc, x, l) == [pc EXCEPT ![x] = l]

\* _drop_relayed_connection without the wake-up of the parked reader.
DropWithoutWake(c) == relayed' = relayed \ {c} /\ UNCHANGED event

\* _drop_relayed_connection: remove the entry and wake the readers, if any.
Drop(c) ==
  /\ relayed' = relayed \ {c}
  /\ event' = [event EXCEPT ![c] = event[c] \/ c \in relayed]

\* A websocket send to an agent raises only when the agent is gone; it must
\* raise once the relay has received the disconnect, or has closed the socket
\* itself after the loop raised.
SendSucceeds(c) ==
  /\ agentOf[c] \in registered
  /\ lpc[agentOf[c]] = "raised" => agentOf[c] \in agentUp
SendRaises(c)   == agentOf[c] \notin agentUp

\* The close message of close_relayed_connection; what it raises is swallowed.
InformAgent(c) ==
  \/ SendSucceeds(c) /\ closeSent' = closeSent \cup {c}
  \/ SendRaises(c) /\ UNCHANGED closeSent

\* An exception leaves ws_for_access_clients: the ASGI server closes the socket.
Crash(c) ==
  /\ hpc' = Goto(hpc, c, "crashed")
  /\ wsClosed' = wsClosed \cup {c}

-----------------------------------------------------------------------------
(* The peers.                                                              *)

\* accept_ws_and_start_msg_loop_for_edge_agents up to the start of _msg_loop.
AgentJoins(a) ==
  /\ lpc[a] = "absent"
  /\ lpc' = Goto(lpc, a, "receive")
  /\ registered' = registered \cup {a}
  /\ agentUp' = agentUp \cup {a}
  /\ UNCHANGED <<cur, pending, tableVars, clientUp, wsClosed, readerVars,
                 remoteVars, hpc, buf, event>>

AgentLeaves(a) ==
  /\ a \in agentUp
  /\ agentUp' = agentUp \ {a}
  /\ UNCHANGED <<loopVars, tableVars, clientUp, wsClosed, readerVars,
                 remoteVars, hpc, buf, event>>

ClientLeaves(c) ==
  /\ c \in clientUp
  /\ clientUp' = clientUp \ {c}
  /\ UNCHANGED <<loopVars, tableVars, agentUp, wsClosed, readerVars,
                 remoteVars, hpc, buf, event>>

-----------------------------------------------------------------------------
(* ws_for_access_clients.                                                  *)

\* Not permitted, no such agent, or the client is gone before it is answered.
RejectStart(c) ==
  /\ hpc[c] = "start"
  /\ hpc' = Goto(hpc, c, "done")
  /\ wsClosed' = wsClosed \cup {c}
  /\ UNCHANGED <<loopVars, tableVars, agentUp, clientUp, readerVars,
                 remoteVars, buf, event>>

\* The connection is created for an agent that was looked up before an await.
StartWithStaleAgent(c, a) ==
  /\ hpc[c] = "start" /\ lpc[a] # "absent"
  /\ agentOf' = [agentOf EXCEPT ![c] = a]
  /\ relayed' = relayed \cup {c}
  /\ answers' = [answers EXCEPT ![c] = "empty"]
  /\ hpc' = Goto(hpc, c, "initiate")
  /\ UNCHANGED <<loopVars, accessClients, socketVars, readerVars, remoteVars,
                 buf, event>>

\* The agent is looked up and the connection is entered in the tables in one
\* stretch, which ends at the send of the initiate message.
StartAccepted(c, a) ==
  /\ hpc[c] = "start" /\ a \in registered
  /\ agentOf' = [agentOf EXCEPT ![c] = a]
  /\ relayed' = relayed \cup {c}
  /\ answers' = [answers EXCEPT ![c] = "empty"]
  /\ hpc' = Goto(hpc, c, "initiate")
  /\ UNCHANGED <<loopVars, accessClients, socketVars, readerVars, remoteVars,
                 buf, event>>

InitiateSent(c) ==
  /\ hpc[c] = "initiate" /\ SendSucceeds(c)
  /\ hpc' = Goto(hpc, c, "answer")
  /\ remote' = IF agentOf[c] \in agentUp
               THEN [remote EXCEPT ![c] = "asked"] ELSE remote
  /\ UNCHANGED <<loopVars, tableVars, socketVars, readerVars, emitted,
                 closeSent, buf, event>>

InitiateRaises(c) ==
  /\ hpc[c] = "initiate" /\ SendRaises(c)
  /\ Crash(c)
  /\ UNCHANGED <<loopVars, tableVars, agentUp, clientUp, readerVars,
                 remoteVars, buf, event>>

\* Answered that starts the reader before the client is told.
AnsweredReaderFirst(c) ==
  /\ hpc[c] = "answer" /\ answers[c] \in {"ok", "error"}
  /\ answers' = [answers EXCEPT ![c] = "none"]
  /\ hpc' = Goto(hpc, c, IF answers[c] = "ok" THEN "start_ok" ELSE "refused")
  /\ rpc' = Goto(rpc, c, IF answers[c] = "ok" THEN "start" ELSE "none")
  /\ UNCHANGED <<loopVars, agentOf, relayed, accessClients, socketVars, hand,
                 delivered, remoteVars, buf, event>>

\* response_queue.get() returns; the queue is deleted; next is a send to the
\* client, of the StartOK message or of the error.
Answered(c) ==
  /\ hpc[c] = "answer" /\ answers[c] \in {"ok", "error"}
  /\ answers' = [answers EXCEPT ![c] = "none"]
  /\ hpc' = Goto(hpc, c, IF answers[c] = "ok" THEN "start_ok" ELSE "refused")
  /\ UNCHANGED <<loopVars, agentOf, relayed, accessClients, socketVars,
                 readerVars, remoteVars, buf, event>>

\* StartOK is sent; the client is registered and its reader is started.
StartOK(c) ==
  /\ hpc[c] = "start_ok" /\ c \notin wsClosed
  /\ accessClients' = accessClients \cup {c}
  /\ rpc' = Goto(rpc, c, "start")
  /\ hpc' = Goto(hpc, c, "receive")
  /\ UNCHANGED <<loopVars, agentOf, answers, relayed, socketVars, hand,
                 delivered, remoteVars, buf, event>>

\* The client is gone: the send raises WebSocketDisconnect, which is no ValueError.
StartOKRaises(c) ==
  /\ hpc[c] = "start_ok" /\ c \notin clientUp
  /\ Crash(c)
  /\ UNCHANGED <<loopVars, tableVars, agentUp, clientUp, readerVars,
                 remoteVars, buf, event>>

\* The ValueError handler: whether or not the error reaches the client, the
\* handler ends with an exception, since "connection" was never assigned.
Refused(c) ==
  /\ hpc[c] = "refused"
  /\ Crash(c)
  /\ UNCHANGED <<loopVars, tableVars, agentUp, clientUp, readerVars,
                 remoteVars, buf, event>>

ReceiveData(c) ==
  /\ hpc[c] = "receive"
  /\ hpc' = Goto(hpc, c, "forward")
  /\ UNCHANGED <<loopVars, tableVars, socketVars, readerVars, remoteVars, buf,
                 event>>

Forwarded(c) ==
  /\ hpc[c] = "forward" /\ SendSucceeds(c)
  /\ hpc' = Goto(hpc, c, "receive")
  /\ UNCHANGED <<loopVars, tableVars, socketVars, readerVars, remoteVars, buf,
                 event>>

ForwardRaises(c) ==
  /\ hpc[c] = "forward" /\ SendRaises(c)
  /\ Crash(c)
  /\ UNCHANGED <<loopVars, tableVars, agentUp, clientUp, readerVars,
                 remoteVars, buf, event>>

\* The client's text is no message, or its data is not base64: the exception
\* leaves the handler as it is, with its reader, its entries and its target.
MessageRaises(c) ==
  /\ hpc[c] = "receive"
  /\ Crash(c)
  /\ UNCHANGED <<loopVars, tableVars, agentUp, clientUp, readerVars,
                 remoteVars, buf, event>>

\* The teardown leaves the client in active_access_client_connections.
DisconnectKeepingClient(c) ==
  /\ hpc[c] = "receive" /\ (c \notin clientUp \/ c \in wsClosed)
  /\ Drop(c)
  /\ hpc' = Goto(hpc, c, "close")
  /\ UNCHANGED <<loopVars, agentOf, answers, accessClients, socketVars,
                 readerVars, remoteVars, buf>>

\* The handler receives the disconnect, drops the connection and the client.
Disconnect(c) ==
  /\ hpc[c] = "receive" /\ (c \notin clientUp \/ c \in wsClosed)
  /\ Drop(c)
  /\ accessClients' = accessClients \ {c}
  /\ hpc' = Goto(hpc, c, "close")
  /\ UNCHANGED <<loopVars, agentOf, answers, socketVars, readerVars,
                 remoteVars, buf>>

\* connection.close() skipped because the connection is no longer active.
HandlerCloseIfActive(c) ==
  /\ hpc[c] = "close"
  /\ IF c \in relayed THEN InformAgent(c) ELSE UNCHANGED closeSent
  /\ Drop(c)
  /\ wsClosed' = wsClosed \cup {c}
  /\ hpc' = Goto(hpc, c, "join")
  /\ UNCHANGED <<loopVars, agentOf, answers, accessClients, agentUp, clientUp,
                 readerVars, remote, emitted, buf>>

\* connection.close(), the close of the client's socket, then the wait for the
\* reader.
HandlerClose(c) ==
  /\ hpc[c] = "close"
  /\ InformAgent(c)
  /\ Drop(c)
  /\ wsClosed' = wsClosed \cup {c}
  /\ hpc' = Goto(hpc, c, "join")
  /\ UNCHANGED <<loopVars, agentOf, answers, accessClients, agentUp, clientUp,
                 readerVars, remote, emitted, buf>>

\* _await_reader: the reader is not done within READER_JOIN_TIMEOUT.
JoinTimeout(c) ==
  /\ hpc[c] = "join" /\ rpc[c] # "done"
  /\ hpc' = Goto(hpc, c, "cancel_join")
  /\ UNCHANGED <<loopVars, tableVars, socketVars, readerVars, remoteVars, buf,
                 event>>

\* _await_reader returns, with or without the cancellation.
Joined(c) ==
  /\ hpc[c] \in {"join", "cancel_join"} /\ rpc[c] = "done"
  /\ hpc' = Goto(hpc, c, "done")
  /\ UNCHANGED <<loopVars, tableVars, socketVars, readerVars, remoteVars, buf,
                 event>>

-----------------------------------------------------------------------------
(* access_client_receive_thread and TcpConnectionAsync.read.               *)

\* read() hands out the first n bytes and forgets the rest.
TakeAndClear(c) ==
  LET n == IF Len(buf[c]) < ReadSize THEN Len(buf[c]) ELSE ReadSize
  IN  /\ hand' = [hand EXCEPT ![c] = SubSeq(buf[c], 1, n)]
      /\ buf' = [buf EXCEPT ![c] = <<>>]
      /\ rpc' = Goto(rpc, c, "send")

\* read() returns at most ReadSize from the front of the buffer.
Take(c) ==
  LET n == IF Len(buf[c]) < ReadSize THEN Len(buf[c]) ELSE ReadSize
  IN  /\ hand' = [hand EXCEPT ![c] = SubSeq(buf[c], 1, n)]
      /\ buf' = [buf EXCEPT ![c] = SubSeq(buf[c], n + 1, Len(buf[c]))]
      /\ rpc' = Goto(rpc, c, "send")

Park(c) ==
  /\ rpc' = Goto(rpc, c, "wait")
  /\ hand' = [hand EXCEPT ![c] = <<>>]
  /\ UNCHANGED buf

\* The reader ends; its own drop does nothing where the connection is gone.
Stop(c) ==
  /\ rpc' = Goto(rpc, c, "done")
  /\ hand' = [hand EXCEPT ![c] = <<>>]
  /\ UNCHANGED buf

\* The loop test, then read() from its start.
LoopAgain(c) ==
  \/ c \notin relayed /\ Stop(c)
  \/ c \in relayed /\ buf[c] # <<>> /\ Take(c)
  \/ c \in relayed /\ buf[c] = <<>> /\ Park(c)

ReaderStart(c) ==
  /\ rpc[c] = "start"
  /\ LoopAgain(c)
  /\ UNCHANGED <<loopVars, tableVars, socketVars, delivered, remoteVars, hpc,
                 event>>

\* The ReaderWake that takes an empty buffer for the end, as recv() of threads does.
ReaderWakeAsEnd(c) ==
  /\ rpc[c] = "wait" /\ event[c]
  /\ event' = [event EXCEPT ![c] = FALSE]
  /\ \/ buf[c] # <<>> /\ Take(c) /\ UNCHANGED relayed
     \/ buf[c] = <<>> /\ Stop(c) /\ relayed' = relayed \ {c}
  /\ UNCHANGED <<loopVars, agentOf, answers, accessClients, socketVars, delivered,
                 remoteVars, hpc>>

\* event.wait() returns inside read(), which looks at the buffer before it
\* looks at whether the connection is closed.
ReaderWake(c) ==
  /\ rpc[c] = "wait" /\ event[c]
  /\ event' = [event EXCEPT ![c] = FALSE]
  /\ \/ buf[c] # <<>> /\ Take(c)
     \/ buf[c] = <<>> /\ c \in relayed /\ Park(c)
     \/ buf[c] = <<>> /\ c \notin relayed /\ Stop(c)
  /\ UNCHANGED <<loopVars, tableVars, socketVars, delivered, remoteVars, hpc>>

ReaderSent(c) ==
  /\ rpc[c] = "send" /\ c \notin wsClosed
  /\ delivered' = [delivered EXCEPT ![c] = delivered[c] \o hand[c]]
  /\ LoopAgain(c)
  /\ UNCHANGED <<loopVars, tableVars, socketVars, remoteVars, hpc, event>>

\* The send to a client that is gone or closed raises: log, break, drop.
ReaderSendRaises(c) ==
  /\ rpc[c] = "send" /\ (c \notin clientUp \/ c \in wsClosed)
  /\ Stop(c)
  /\ Drop(c)
  /\ UNCHANGED <<loopVars, agentOf, answers, accessClients, socketVars,
                 delivered, remoteVars, hpc>>

\* reader.cancel() is forgotten.
ReaderNotCancelled(c) == FALSE /\ UNCHANGED vars

\* CancelledError at the reader's await.
ReaderCancelled(c) ==
  /\ hpc[c] = "cancel_join" /\ rpc[c] # "done"
  /\ Stop(c)
  /\ Drop(c)
  /\ UNCHANGED <<loopVars, agentOf, answers, accessClients, socketVars,
                 delivered, remoteVars, hpc>>

-----------------------------------------------------------------------------
(* _msg_loop and edge_agent_connection_close.                              *)

\* The answer is put in the queue of the handler that waits for it, if any.
RecvAnswer(a, c) ==
  /\ lpc[a] = "receive" /\ agentOf[c] = a /\ remote[c] = "asked"
  /\ \E ok \in BOOLEAN :
       /\ remote' = [remote EXCEPT ![c] = IF ok THEN "open" ELSE "refused"]
       /\ answers' = IF answers[c] = "none" THEN answers
                     ELSE [answers EXCEPT ![c] = IF ok THEN "ok" ELSE "error"]
  /\ UNCHANGED <<loopVars, agentOf, relayed, accessClients, socketVars,
                 readerVars, emitted, closeSent, hpc, buf, event>>

\* fill_recv before the client is registered is dropped.
RecvDataIfRegistered(a, c) ==
  /\ lpc[a] = "receive" /\ agentOf[c] = a /\ remote[c] = "open"
  /\ emitted[c] < MaxChunks
  /\ emitted' = [emitted EXCEPT ![c] = emitted[c] + 1]
  /\ IF c \in relayed \cap accessClients
     THEN /\ buf' = [buf EXCEPT ![c] = Append(buf[c], emitted[c] + 1)]
          /\ event' = [event EXCEPT ![c] = TRUE]
     ELSE UNCHANGED <<buf, event>>
  /\ UNCHANGED <<loopVars, tableVars, socketVars, readerVars, remote,
                 closeSent, hpc>>

\* handle_tcp_data_message, handle_tcp_binary_data: unknown ids are ignored.
RecvData(a, c) ==
  /\ lpc[a] = "receive" /\ agentOf[c] = a /\ remote[c] = "open"
  /\ emitted[c] < MaxChunks
  /\ emitted' = [emitted EXCEPT ![c] = emitted[c] + 1]
  /\ IF c \in relayed
     THEN /\ buf' = [buf EXCEPT ![c] = Append(buf[c], emitted[c] + 1)]
          /\ event' = [event EXCEPT ![c] = TRUE]
     ELSE UNCHANGED <<buf, event>>
  /\ UNCHANGED <<loopVars, tableVars, socketVars, readerVars, remote,
                 closeSent, hpc>>

\* handle_connection_reset_message: an active connection is closed.
RecvReset(a, c) ==
  /\ lpc[a] = "receive" /\ agentOf[c] = a /\ remote[c] = "open"
  /\ remote' = [remote EXCEPT ![c] = "ended"]
  /\ IF c \in relayed
     THEN lpc' = Goto(lpc, a, "close") /\ cur' = [cur EXCEPT ![a] = c]
     ELSE UNCHANGED <<lpc, cur>>
  /\ UNCHANGED <<registered, pending, tableVars, socketVars, readerVars,
                 emitted, closeSent, hpc, buf, event>>

\* The loop runs once more than there are connections to close.
CloseNextPastEnd(a, todo) ==
  \/ /\ todo = {}
     /\ lpc' = Goto(lpc, a, IF a \in registered' THEN "receive" ELSE "close")
     /\ cur' = [cur EXCEPT ![a] = None]
     /\ pending' = [pending EXCEPT ![a] = {}]
  \/ \E c \in todo :
       /\ lpc' = Goto(lpc, a, "close")
       /\ cur' = [cur EXCEPT ![a] = c]
       /\ pending' = [pending EXCEPT ![a] = todo \ {c}]

\* The loop over a copy of the active connections: close the next one in todo,
\* or go on after it.
CloseNext(a, todo) ==
  \/ /\ todo = {}
     /\ lpc' = Goto(lpc, a, IF a \in registered' THEN "receive" ELSE "done")
     /\ cur' = [cur EXCEPT ![a] = None]
     /\ pending' = [pending EXCEPT ![a] = {}]
  \/ \E c \in todo :
       /\ lpc' = Goto(lpc, a, "close")
       /\ cur' = [cur EXCEPT ![a] = c]
       /\ pending' = [pending EXCEPT ![a] = todo \ {c}]

\* The copy is not filtered by agent: every active connection is closed.
RecvDisconnectUnfiltered(a) ==
  /\ lpc[a] = "receive" /\ a \notin agentUp
  /\ registered' = registered \ {a}
  /\ CloseNext(a, relayed)
  /\ UNCHANGED <<tableVars, socketVars, readerVars, remoteVars, hpc, buf, event>>

\* The agent is unregistered and its active connections are copied.
RecvDisconnect(a) ==
  /\ lpc[a] = "receive" /\ a \notin agentUp
  /\ registered' = registered \ {a}
  /\ CloseNext(a, {c \in relayed : agentOf[c] = a})
  /\ UNCHANGED <<tableVars, socketVars, readerVars, remoteVars, hpc, buf, event>>

\* close_relayed_connection without the close of the client's socket.
LoopCloseAgentOnly(a) ==
  /\ lpc[a] = "close"
  /\ UNCHANGED registered
  /\ InformAgent(cur[a])
  /\ Drop(cur[a])
  /\ CloseNext(a, pending[a])
  /\ UNCHANGED <<agentOf, answers, accessClients, socketVars,
                 readerVars, remote, emitted, hpc, buf>>

\* close_relayed_connection: the agent is informed; a registered client's
\* socket is closed, which is awaited before the connection is dropped.
LoopClose(a) ==
  /\ lpc[a] = "close"
  /\ InformAgent(cur[a])
  /\ IF cur[a] \in accessClients
     THEN /\ wsClosed' = wsClosed \cup {cur[a]}
          /\ lpc' = Goto(lpc, a, "drop")
          /\ UNCHANGED <<registered, cur, pending, relayed, event>>
     ELSE /\ UNCHANGED <<registered, wsClosed>>
          /\ Drop(cur[a])
          /\ CloseNext(a, pending[a])
  /\ UNCHANGED <<agentOf, answers, accessClients, agentUp, clientUp,
                 readerVars, remote, emitted, hpc, buf>>

\* A binary frame without a whole id, or a text that is no message: the exception
\* leaves _msg_loop without edge_agent_connection_close.  The agent remains
\* registered, and the ASGI server closes its socket (AgentLeaves).
LoopRaises(a) ==
  /\ lpc[a] = "receive"
  /\ lpc' = Goto(lpc, a, "raised")
  /\ UNCHANGED <<registered, cur, pending, tableVars, socketVars, readerVars,
                 remoteVars, hpc, buf, event>>

LoopDrop(a) ==
  /\ lpc[a] = "drop"
  /\ UNCHANGED registered
  /\ Drop(cur[a])
  /\ CloseNext(a, pending[a])
  /\ UNCHANGED <<agentOf, answers, accessClients, socketVars, readerVars,
                 remoteVars, hpc, buf>>

-----------------------------------------------------------------------------
HandlerStep(c) ==
  \/ RejectStart(c)
  \/ \E a \in Agents : StartAccepted(c, a)
  \/ InitiateSent(c) \/ InitiateRaises(c) \/ Answered(c)
  \/ StartOK(c) \/ StartOKRaises(c) \/ Refused(c)
  \/ ReceiveData(c) \/ MessageRaises(c) \/ Forwarded(c) \/ ForwardRaises(c)
  \/ Disconnect(c) \/ HandlerClose(c) \/ JoinTimeout(c) \/ Joined(c)

ReaderStep(c) ==
  \/ ReaderStart(c) \/ ReaderWake(c) \/ ReaderSent(c)
  \/ ReaderSendRaises(c) \/ ReaderCancelled(c)

LoopStep(a) ==
  \/ \E c \in Clients : RecvAnswer(a, c) \/ RecvData(a, c) \/ RecvReset(a, c)
  \/ RecvDisconnect(a) \/ LoopRaises(a) \/ LoopClose(a) \/ LoopDrop(a)

Next ==
  \/ \E a \in Agents : AgentJoins(a) \/ AgentLeaves(a) \/ LoopStep(a)
  \/ \E c \in Clients : ClientLeaves(c) \/ HandlerStep(c) \/ ReaderStep(c)

Spec == Init /\ [][Next]_vars


-----------------------------------------------------------------------------
(* Fairness.  A task that can run does run: asyncio schedules it, and a     *)
(* send to an agent or a client ends or raises, since uvicorn's ping closes *)
(* a socket whose peer is gone.  A receive loop gets to a disconnect behind *)
(* finitely many messages, whatever it does in between, and the server      *)
(* closes the socket of a loop that raised.  Nothing is assumed of the      *)
(* peers: an agent may never answer, as a target that does not read may     *)
(* hold its main task.  A reader's send to its client may take for ever.    *)

HandlerTask(c) ==
  \/ InitiateSent(c) \/ InitiateRaises(c) \/ Answered(c)
  \/ StartOK(c) \/ StartOKRaises(c) \/ Refused(c)
  \/ Forwarded(c) \/ ForwardRaises(c)
  \/ HandlerClose(c) \/ JoinTimeout(c) \/ Joined(c)

Fairness ==
  /\ \A c \in Clients :
       /\ WF_vars(HandlerTask(c)) /\ SF_vars(Disconnect(c))
       /\ WF_vars(ReaderStart(c) \/ ReaderWake(c)) /\ WF_vars(ReaderCancelled(c))
  /\ \A a \in Agents :
       /\ WF_vars(LoopClose(a) \/ LoopDrop(a)) /\ SF_vars(RecvDisconnect(a))
       /\ WF_vars(lpc[a] = "raised" /\ AgentLeaves(a))

FairSpec == Spec /\ Fairness

-----------------------------------------------------------------------------
(* Safety.                                                                 *)

\* Every variable keeps its type, and a message loop that is closing a
\* connection has one to close.
TypeOK ==
  /\ registered \subseteq Agents /\ agentUp \subseteq Agents
  /\ lpc \in [Agents -> LoopPC]
  /\ cur \in [Agents -> Clients \cup {None}]
  /\ pending \in [Agents -> SUBSET Clients]
  /\ \A a \in Agents : lpc[a] \in {"close", "drop"} => cur[a] \in Clients
  /\ hpc \in [Clients -> HandlerPC]
  /\ agentOf \in [Clients -> Agents \cup {None}]
  /\ answers \in [Clients -> {"none", "empty", "ok", "error"}]
  /\ relayed \subseteq Clients /\ accessClients \subseteq Clients
  /\ clientUp \subseteq Clients /\ wsClosed \subseteq Clients
  /\ rpc \in [Clients -> ReaderPC]
  /\ buf \in [Clients -> Seq(Nat)] /\ hand \in [Clients -> Seq(Nat)]
  /\ event \in [Clients -> BOOLEAN]
  /\ remote \in [Clients -> RemoteState]
  /\ emitted \in [Clients -> 0 .. MaxChunks]
  /\ closeSent \subseteq Clients
  /\ delivered \in [Clients -> Seq(Nat)]

\* A reader parked in read() on a connection that was dropped, or whose buffer
\* has data, has been woken: every way of dropping a connection and every way
\* of filling its buffer sets the event after the reader last cleared it.
NoLostWakeup ==
  \A c \in Clients :
    rpc[c] = "wait" /\ (c \notin relayed \/ buf[c] # <<>>) => event[c]

\* When the message loop of an agent has ended, no connection of that agent is
\* left in active_relayed_connections, whenever its handler created it.  The one
\* exception is a loop that raised: it leaves them, and its agent registered.
AgentGoneClean ==
  \A c \in Clients, a \in Agents :
    agentOf[c] = a /\ c \in relayed /\ lpc[a] \in {"done", "raised"} =>
      lpc[a] = "raised" /\ a \in registered

\* The agent of the connection is gone, or its target is.
TargetLost(c) == agentOf[c] \notin agentUp \/ remote[c] = "ended"

\* One of the peers of the connection is gone, or its handler raised.
Cause(c) == c \notin clientUp \/ TargetLost(c) \/ hpc[c] = "crashed"

\* A connection leaves active_relayed_connections only because its own client,
\* its own agent or its own target is gone or its own handler raised: what
\* happens to one peer does not tear down the connections of another.
NoUncausedTeardown ==
  \A c \in Clients :
    agentOf[c] # None /\ c \notin relayed => Cause(c)

\* What the client is sent is a prefix of what the agent sent, in order and
\* without gaps; while the connection is active nothing has been lost, from
\* the first chunk after the target's connect on.
StreamIntact ==
  \A c \in Clients :
    /\ delivered[c] = UpTo(Len(delivered[c]))
    /\ c \in relayed => delivered[c] \o hand[c] \o buf[c] = UpTo(emitted[c])

\* A target connection that the agent still has open, and that the relay has
\* dropped, is closed by a message the agent was sent or is about to be sent
\* by a handler whose own socket is finished.  The one exception is a handler
\* that raised while its reader ran: the reader drops the connection at its next
\* send, and neither sends the close.
NoOrphanAtAgent ==
  \A c \in Clients :
    remote[c] = "open" /\ agentOf[c] \in agentUp /\ c \notin relayed =>
      \/ c \in closeSent
      \/ hpc[c] = "close"
      \/ hpc[c] \in {"receive", "forward"} /\ (c \notin clientUp \/ c \in wsClosed)
      \/ hpc[c] = "crashed" /\ rpc[c] = "done" /\ c \in accessClients

\* A handler that returned has left neither table an entry and no reader.
CleanReturn ==
  \A c \in Clients :
    hpc[c] = "done" =>
      c \notin relayed /\ c \notin accessClients /\ rpc[c] \in {"none", "done"}

-----------------------------------------------------------------------------
(* The inductive strengthening of AgentGoneClean and NoUncausedTeardown.    *)

\* An agent's loop unregisters the agent before it returns and not when it raises,
\* and has a list of connections to close only while it closes one.
LoopInv ==
  \A a \in Agents :
    /\ a \in registered => lpc[a] \notin {"absent", "done"}
    /\ lpc[a] \in {"receive", "raised"} => a \in registered
    /\ lpc[a] \notin {"close", "drop"} => pending[a] = {}

\* An active connection belongs to a registered agent, or the loop of its lost
\* agent is closing it or has it on its list.
CoverInv ==
  \A c \in relayed :
    /\ agentOf[c] \in Agents
    /\ \/ agentOf[c] \in registered
       \/ /\ lpc[agentOf[c]] \in {"close", "drop"}
          /\ c = cur[agentOf[c]] \/ c \in pending[agentOf[c]]

\* How far a handler got tells whether its connection and its reader exist.
ProgressInv ==
  \A c \in Clients :
    /\ hpc[c] = "start" => agentOf[c] = None /\ rpc[c] = "none"
    /\ hpc[c] \in {"initiate", "answer", "start_ok", "refused"} =>
         agentOf[c] # None /\ rpc[c] = "none"
    /\ hpc[c] \in {"receive", "forward", "close", "join", "cancel_join"} =>
         rpc[c] # "none"
    /\ rpc[c] # "none" => agentOf[c] # None
    /\ agentOf[c] # None => lpc[agentOf[c]] # "absent"
    /\ hpc[c] \in {"start", "initiate"} => remote[c] = "none"

\* Whoever is about to drop a connection has a cause: a loop that closes it, a
\* handler that is closing, a reader whose client's socket was closed.
CauseInv ==
  /\ NoUncausedTeardown
  /\ \A a \in Agents : \A c \in Clients :
       lpc[a] \in {"close", "drop"} /\ (c = cur[a] \/ c \in pending[a]) =>
         agentOf[c] = a /\ TargetLost(c)
  /\ \A c \in Clients :
       /\ rpc[c] # "none" /\ c \in wsClosed => Cause(c)
       /\ hpc[c] \in {"close", "join", "cancel_join"} => Cause(c)

SessionInv == LoopInv /\ CoverInv /\ ProgressInv /\ CauseInv

-----------------------------------------------------------------------------
(* Liveness, under FairSpec.                                               *)

Established(c) == c \in accessClients
LoopRaised(a) == a \in Agents /\ lpc[a] = "raised"
Ended(c) == hpc[c] \in {"done", "crashed"}

\* A handler ends once its client is gone or its socket was closed, even when
\* its reader is stuck in a send, except one that waits for an answer its agent
\* does not send: the agent is gone, or its main task is held up.
HandlerReturns ==
  \A c \in Clients :
    hpc[c] # "start" /\ (c \notin clientUp \/ c \in wsClosed) ~>
      Ended(c) \/ (hpc[c] = "answer" /\ answers[c] = "empty")

\* The client of an established, active connection is disconnected once its
\* agent or its target is gone, unless the agent's message loop raised: no one
\* tells the clients of that agent.
TargetLossReachesClient ==
  \A c \in Clients :
    c \in relayed /\ Established(c) /\ TargetLost(c) ~>
      c \in wsClosed \/ c \notin clientUp \/ LoopRaised(agentOf[c])

-----------------------------------------------------------------------------
(* What the repository's tests say of the program, and the code does not do. *)

\* tests/test_run_all.py:485-487, "await handler", "assert not
\* relay.active_relayed_connections" and "assert not
\* relay.active_access_client_connections": a handler that ended, returning or
\* raising, while its agent stays connected has left no entry behind.
NoLeakOnReturn ==
  \A c \in Clients :
    Ended(c) /\ agentOf[c] \in agentUp => c \notin relayed /\ c \notin accessClients

\* tests/test_run_all.py:206-207, "assert byte-for-byte integrity": when the
\* target ends the stream, the relay closes the socket of a client that is
\* still there, and whose messages it understood, only after it sent the client
\* everything.
TailDelivered ==
  \A c \in Clients :
    /\ c \in wsClosed /\ c \in clientUp /\ hpc[c] # "crashed"
    /\ remote[c] = "ended" /\ agentOf[c] \in agentUp
    => delivered[c] = UpTo(emitted[c])

=============================================================================

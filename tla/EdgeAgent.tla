------------------------------ MODULE EdgeAgent ------------------------------
(***************************************************************************)
(* The edge agent (http_network_relay/edge_agent.py): its sessions with    *)
(* the relay and the TCP connections to targets it opens for them.         *)
(*                                                                         *)
(* One task connects, handles the relay's messages one after another,      *)
(* cleans up and connects again; each target connection has a reader task. *)
(* A step is the stretch of a task between two awaits.  A message is sent  *)
(* when its send() is called; the task waits for send() to end.            *)
(***************************************************************************)
EXTENDS Integers, Sequences, FiniteSets

CONSTANTS
  MaxConns,     \* bound: connections the relay asks for
  MaxSessions,  \* bound: sessions with the relay
  MaxChunks     \* bound: chunks read from each target

ASSUME EdgeOK ==
  MaxConns \in Nat /\ MaxSessions \in Nat /\ MaxChunks \in Nat

\* Every request has a fresh id: connections are named by their order.
Conns == 1 .. MaxConns
NoConn == 0

VARIABLES
  mpc,      \* the main task, see MainPlaces
  cur,      \* the connection the main task deals with
  session,  \* number of the session
  ws,       \* the session's WebSocket: "up" or "broken"
  active,   \* active_connections
  born,     \* session a connection was opened in
  writer,   \* the StreamWriter of a connection; "closed": close() was called
  target,   \* the target's end, as far as the transport has noticed
  output,   \* what was written and the target has not taken, see Outputs
  rpc,      \* read_from_tcp_and_send of each connection
  reads,    \* chunks read from each target
  sent      \* messages about each connection that went to the relay

mainVars == <<mpc, cur, session>>
connVars == <<active, born, writer, target, output>>
readerVars == <<rpc, reads>>
vars == <<mainVars, ws, connVars, readerVars, sent>>

\* down: between sessions.  connect: in open_connection.  drain: in drain().
\* confirm, refuse, report: in the send of OK, Error, Reset.
\* leave: the session's block was left and its WebSocket is being closed.
MainPlaces == {"down", "receive", "connect", "confirm", "refuse", "drain",
               "report", "leave"}
\* ended: it closed.   reset, failed: reading or writing raises
\* ConnectionResetError, or another OSError such as BrokenPipeError.
TargetStates == {"none", "open", "ended", "reset", "failed"}
\* full: above the high-water mark, where drain() waits.
Outputs == {"none", "some", "full"}

Init ==
  /\ mpc = "down" /\ cur = NoConn /\ session = 0 /\ ws = "broken"
  /\ active = {}
  /\ born = [c \in Conns |-> 0]
  /\ writer = [c \in Conns |-> "none"]
  /\ target = [c \in Conns |-> "none"]
  /\ output = [c \in Conns |-> "none"]
  /\ rpc = [c \in Conns |-> "none"]
  /\ reads = [c \in Conns |-> 0]
  /\ sent = [c \in Conns |-> <<>>]

\* A send to the session of connection c; to a broken WebSocket it is lost.
Send(c, m) ==
  sent' = IF ws = "up" /\ born'[c] = session
          THEN [sent EXCEPT ![c] = Append(@, m)] ELSE sent

SendRaises(c) == ws = "broken" \/ born[c] # session

\* An exception or the end of the receive loop leaves connect_to_server, whose
\* `async with` closes the WebSocket.
LeaveSession == mpc' = "leave" /\ cur' = NoConn /\ ws' = "broken"

\* The main task is done with the message it handled.
NextMessage == mpc' = "receive" /\ cur' = NoConn

-----------------------------------------------------------------------------
(* The main task.                                                          *)

Connect ==
  /\ mpc = "down" /\ session < MaxSessions
  /\ mpc' = "receive" /\ ws' = "up" /\ session' = session + 1
  /\ UNCHANGED <<cur, connVars, readerVars, sent>>

\* The receive loop that goes on after recv() raised.
ReceiveRaisesAgain ==
  /\ mpc = "receive" /\ ws = "broken"
  /\ UNCHANGED vars

\* recv() raises ConnectionClosed.
ReceiveRaises ==
  /\ mpc = "receive" /\ ws = "broken"
  /\ LeaveSession
  /\ UNCHANGED <<session, connVars, readerVars, sent>>

\* A message that cannot be parsed, or a frame too short to decode, raises.
Unparsable ==
  /\ mpc = "receive"
  /\ LeaveSession
  /\ UNCHANGED <<session, connVars, readerVars, sent>>

\* RtEInitiateConnectionMessage.
Initiate(c) ==
  /\ mpc = "receive" /\ born[c] = 0 /\ \A d \in 1 .. c - 1 : born[d] # 0
  /\ mpc' = "connect" /\ cur' = c
  /\ born' = [born EXCEPT ![c] = session]
  /\ UNCHANGED <<session, ws, active, writer, target, output, readerVars, sent>>

Connected(c) ==
  /\ mpc = "connect" /\ cur = c
  /\ active' = active \cup {c}
  /\ writer' = [writer EXCEPT ![c] = "open"]
  /\ target' = [target EXCEPT ![c] = "open"]
  /\ UNCHANGED <<cur, session, ws, born, output, readerVars>>
  /\ mpc' = "confirm" /\ Send(c, "ok")

ConnectFails(c) ==
  /\ mpc = "connect" /\ cur = c
  /\ mpc' = "refuse"
  /\ UNCHANGED <<cur, session, ws, connVars, readerVars>>
  /\ Send(c, "error")

Confirmed(c) ==
  /\ mpc = "confirm" /\ cur = c
  /\ rpc' = [rpc EXCEPT ![c] = "read"]
  /\ NextMessage
  /\ UNCHANGED <<session, ws, connVars, reads, sent>>

Reported ==
  /\ mpc \in {"refuse", "report"}
  /\ NextMessage
  /\ UNCHANGED <<session, ws, connVars, readerVars, sent>>

\* A failed OK is followed by an Error, which fails as well.
MainSendRaises ==
  /\ mpc \in {"confirm", "refuse", "report"} /\ SendRaises(cur)
  /\ LeaveSession
  /\ UNCHANGED <<session, connVars, readerVars, sent>>

\* A connection leaves active_connections, its writer closed.
CloseWriter(c) ==
  /\ active' = active \ {c}
  /\ writer' = [writer EXCEPT ![c] = "closed"]

\* RtEConnectionCloseMessage of a connection that is active.
RelayCloses(c) ==
  /\ mpc = "receive" /\ c \in active
  /\ CloseWriter(c)
  /\ UNCHANGED <<mainVars, ws, born, target, output, readerVars, sent>>

\* write() sends at once what the socket takes, unless output is waiting already.
\* A connection that was lost takes nothing.
Write(c) ==
  \/ /\ target[c] \in {"open", "ended"}
     /\ \E o \in IF output[c] = "none" THEN Outputs ELSE {output[c], "full"} :
          output' = [output EXCEPT ![c] = o]
  \/ target[c] \in {"reset", "failed"} /\ UNCHANGED output

\* Data for a connection that is not active is answered with a reset.
WriteDataAnswered(c) ==
  /\ mpc = "receive"
  /\ cur' = c
  /\ UNCHANGED <<session, ws, active, born, writer, target, readerVars>>
  /\ \/ c \in active /\ mpc' = "drain" /\ Write(c) /\ UNCHANGED sent
     \/ c \notin active /\ mpc' = "report" /\ Send(c, "reset") /\ UNCHANGED output

\* Data for a connection that is active: write() and the await of drain().
WriteData(c) ==
  /\ mpc = "receive" /\ c \in active
  /\ mpc' = "drain" /\ cur' = c
  /\ Write(c)
  /\ UNCHANGED <<session, ws, active, born, writer, target, readerVars, sent>>

\* drain() waits while the output is above the high-water mark.
Drained(c) ==
  /\ mpc = "drain" /\ cur = c /\ output[c] # "full"
  /\ NextMessage
  /\ UNCHANGED <<session, ws, connVars, readerVars, sent>>

\* DrainReset that is over once the connection is deleted.
DrainResetUnreported(c) ==
  /\ mpc = "drain" /\ cur = c /\ target[c] = "reset"
  /\ CloseWriter(c)
  /\ mpc' = "receive"
  /\ UNCHANGED <<cur, session, ws, born, target, output, readerVars, sent>>

\* drain() raises ConnectionResetError: the connection is closed, deleted and
\* reported.  The deletion of one that is gone by now raises KeyError.
DrainReset(c) ==
  /\ mpc = "drain" /\ cur = c /\ target[c] = "reset"
  /\ CloseWriter(c)
  /\ UNCHANGED <<session, born, target, output, readerVars>>
  /\ IF c \in active
     THEN mpc' = "report" /\ Send(c, "reset") /\ UNCHANGED <<cur, ws>>
     ELSE LeaveSession /\ UNCHANGED sent

\* drain() raises another OSError, which nothing catches.
DrainFails(c) ==
  /\ mpc = "drain" /\ cur = c /\ target[c] = "failed"
  /\ LeaveSession
  /\ UNCHANGED <<session, connVars, readerVars, sent>>

\* CleanUp that leaves the connections to their readers.
CleanUpNothing ==
  /\ mpc = "leave"
  /\ mpc' = "down"
  /\ UNCHANGED <<cur, session, ws, connVars, readerVars, sent>>

\* async_main after a session: everything still active is closed at once.
CleanUp ==
  /\ mpc = "leave"
  /\ mpc' = "down"
  /\ active' = {}
  /\ writer' = [c \in Conns |-> IF c \in active THEN "closed" ELSE writer[c]]
  /\ UNCHANGED <<cur, session, ws, born, target, output, readerVars, sent>>

-----------------------------------------------------------------------------
(* The reader of connection c.                                             *)

ReaderData(c) ==
  /\ rpc[c] = "read" /\ reads[c] < MaxChunks /\ target[c] \in {"open", "ended"}
  /\ rpc' = [rpc EXCEPT ![c] = "send"]
  /\ reads' = [reads EXCEPT ![c] = @ + 1]
  /\ UNCHANGED <<mainVars, ws, connVars>>
  /\ Send(c, "data")

ReaderSent(c) ==
  /\ rpc[c] = "send"
  /\ rpc' = [rpc EXCEPT ![c] = "read"]
  /\ UNCHANGED <<mainVars, ws, connVars, reads, sent>>

\* The loop was left: the finally block up to its send.
Finally(c) ==
  /\ CloseWriter(c)
  /\ rpc' = [rpc EXCEPT ![c] = "report"]
  /\ UNCHANGED <<mainVars, ws, born, target, output, reads>>
  /\ Send(c, "reset")

\* The reader without its finally block.
ReaderEndsSilently(c) ==
  /\ rpc[c] = "read"
  /\ target[c] # "open" \/ (writer[c] = "closed" /\ output[c] = "none")
  /\ rpc' = [rpc EXCEPT ![c] = "done"]
  /\ UNCHANGED <<mainVars, ws, connVars, reads, sent>>

\* read() returns b"" or raises: the target closed, or the agent did and the
\* transport has written all there was.
ReaderEnds(c) ==
  /\ rpc[c] = "read"
  /\ target[c] # "open" \/ (writer[c] = "closed" /\ output[c] = "none")
  /\ Finally(c)

ReaderSendRaises(c) ==
  /\ rpc[c] = "send" /\ SendRaises(c)
  /\ Finally(c)

\* The send of the reset ends, or raises, which is ignored.
ReaderDone(c) ==
  /\ rpc[c] = "report"
  /\ rpc' = [rpc EXCEPT ![c] = "done"]
  /\ UNCHANGED <<mainVars, ws, connVars, reads, sent>>

-----------------------------------------------------------------------------
(* The peers.                                                              *)

\* The transport is there: a closed one lives until it has written everything.
Connection(c) == writer[c] = "open" \/ output[c] # "none"

\* A reset ends the transport with all that is still to be written.
Reset(c) ==
  /\ \E how \in {"reset", "failed"} : target' = [target EXCEPT ![c] = how]
  /\ output' = [output EXCEPT ![c] = "none"]

\* A transport that was closed reads no more: it notices no end of the stream.
TargetEnds(c) ==
  /\ target[c] = "open" /\ Connection(c)
  /\ \/ writer[c] = "open" /\ target' = [target EXCEPT ![c] = "ended"] /\ UNCHANGED output
     \/ Reset(c)
  /\ UNCHANGED <<mainVars, ws, active, born, writer, readerVars, sent>>

\* A target that closed its half may still reset the connection.
TargetResets(c) ==
  /\ target[c] = "ended" /\ Connection(c)
  /\ Reset(c)
  /\ UNCHANGED <<mainVars, ws, active, born, writer, readerVars, sent>>

\* A target may take what was written, at once or in parts, or never.
TargetReads(c) ==
  /\ target[c] \in {"open", "ended"}
  /\ \/ output[c] # "none" /\ output' = [output EXCEPT ![c] = "none"]
     \/ output[c] = "full" /\ output' = [output EXCEPT ![c] = "some"]
  /\ UNCHANGED <<mainVars, ws, active, born, writer, target, readerVars, sent>>

RelayLost ==
  /\ ws = "up"
  /\ ws' = "broken"
  /\ UNCHANGED <<mainVars, connVars, readerVars, sent>>

-----------------------------------------------------------------------------
Main ==
  \/ Connect \/ ReceiveRaises \/ Unparsable \/ Reported \/ MainSendRaises
  \/ CleanUp
  \/ \E c \in Conns :
       \/ Initiate(c) \/ Connected(c) \/ ConnectFails(c) \/ Confirmed(c)
       \/ RelayCloses(c) \/ WriteData(c)
       \/ Drained(c) \/ DrainReset(c) \/ DrainFails(c)

Reader(c) ==
  \/ ReaderData(c) \/ ReaderSent(c) \/ ReaderEnds(c) \/ ReaderSendRaises(c)
  \/ ReaderDone(c)

Next ==
  \/ Main \/ RelayLost
  \/ \E c \in Conns : Reader(c) \/ TargetEnds(c) \/ TargetResets(c) \/ TargetReads(c)

Spec == Init /\ [][Next]_vars

\* The steps of the main task after which it is back in receive() or down.
MainProceeds ==
  \/ Reported \/ MainSendRaises \/ CleanUp
  \/ \E c \in Conns :
       \/ Connected(c) \/ ConnectFails(c) \/ Confirmed(c)
       \/ Drained(c) \/ DrainReset(c) \/ DrainFails(c)

\* asyncio runs what is ready, a connect succeeds or fails, a send ends, and a
\* broken WebSocket is noticed behind finitely many messages.  Nothing is
\* assumed of the relay and of the targets: one that does not read keeps drain()
\* waiting, and a transport that was closed from ending.
FairSpec ==
  /\ Spec
  /\ \A c \in Conns : WF_vars(Reader(c))
  /\ WF_vars(MainProceeds)
  /\ SF_vars(ReceiveRaises)

-----------------------------------------------------------------------------
\* Every variable keeps its type, and the main task deals with a connection
\* exactly while it handles a message about one.
TypeOK ==
  /\ mpc \in MainPlaces /\ cur \in Conns \cup {NoConn}
  /\ cur = NoConn <=> mpc \in {"down", "receive", "leave"}
  /\ session \in 0 .. MaxSessions /\ ws \in {"up", "broken"}
  /\ active \subseteq Conns
  /\ born \in [Conns -> 0 .. MaxSessions]
  /\ writer \in [Conns -> {"none", "open", "closed"}]
  /\ target \in [Conns -> TargetStates] /\ output \in [Conns -> Outputs]
  /\ rpc \in [Conns -> {"none", "read", "send", "report", "done"}]
  /\ reads \in [Conns -> 0 .. MaxChunks]
  /\ sent \in [Conns -> Seq({"ok", "error", "data", "reset"})]

\* edge_agent.py:277, "Without this, every SSH session that ends naturally leaks
\* one fd": whichever of relay, target, main task and reader ends a connection
\* first, its close() was called exactly if the connection is not, or no more, in
\* active_connections, where CleanUp finds it; and some task will still call it.
NoLeakedWriter ==
  \A c \in Conns :
    /\ writer[c] = "open" <=> c \in active
    /\ c \in active /\ rpc[c] \in {"none", "report", "done"} =>
         mpc = "leave" \/ (mpc = "confirm" /\ cur = c)

\* No target connection outlives its session, though its reader may: between
\* sessions none is active, and in a session only its own are.
SessionOwnsConnections ==
  /\ mpc = "down" => active = {}
  /\ \A c \in active : born[c] = session

\* How many of the first n messages are of a kind.
Count(messages, kind, n) == Cardinality({i \in 1 .. n : messages[i] = kind})

\* What the relay receives about a connection: one answer before anything
\* else, nothing after a refusal, and no more than the two resets of main task
\* and reader.  RelaySession relies on this order.
AnswerComesFirst ==
  \A c \in Conns :
    LET s == sent[c]
    IN  /\ \A i \in 1 .. Len(s) : i = 1 <=> s[i] \in {"ok", "error"}
        /\ s # <<>> /\ s[1] = "error" => Len(s) = 1
        /\ Count(s, "reset", Len(s)) <= 2

\* The connection is over for its reader: its target ended it, or the relay, the
\* main task or CleanUp closed it and the target has taken what was written.
Over(c) ==
  \/ target[c] \in {"ended", "reset", "failed"}
  \/ writer[c] = "closed" /\ output[c] = "none"

\* Whoever ends a connection, its reader does not outlive it, and the relay is told
\* of the end if the session lasts.  A target that does not read keeps the reader
\* of a connection that was closed, and its descriptor.
EndReported ==
  \A c \in Conns :
    rpc[c] # "none" /\ Over(c) ~>
      /\ rpc[c] = "done"
      /\ "reset" \in {sent[c][i] : i \in 1 .. Len(sent[c])} \/ SendRaises(c)

\* A lost session is cleaned up, unless the main task is in drain() for a target
\* that has not read enough.
LossNoticed ==
  ws = "broken" ~> mpc = "down" \/ (mpc = "drain" /\ output[cur] = "full")

\* edge_agent.py:213-215, "Connection reset while writing data", "Closing active
\* connection: %s, due to connection reset": a target that fails while it is
\* written to ends its own connection, and not the session with the relay.
SessionSurvivesTarget ==
  [][mpc = "drain" /\ mpc' = "leave" /\ target[cur] = "reset" => ws = "broken"]_vars

=============================================================================

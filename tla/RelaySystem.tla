----------------------------- MODULE RelaySystem -----------------------------
(***************************************************************************)
(* One relayed connection from end to end: an access client, the relay and *)
(* an edge agent, composed of the modules AccessClient, RelaySession and   *)
(* EdgeAgent, which talk over WebSockets.                                  *)
(*                                                                         *)
(* The three modules let a peer's message arrive whenever the protocol     *)
(* allows it; here every message is one that was sent, and a WebSocket is  *)
(* a FIFO channel whose two ends see it break at different times.  Each    *)
(* step is an action of one module, or of two whose common WebSocket is    *)
(* opened or breaks, and what it does to the channels.                     *)
(* The programs send nothing that a peer cannot parse: the handlers that   *)
(* raise on such a message are in RelaySession and EdgeAgent.              *)
(***************************************************************************)
EXTENDS Integers, Sequences, Framing, Chunks

CONSTANTS
  MaxSessions,  \* bound: sessions of the agent with the relay
  MaxTyped,     \* bound: chunks the client reads from standard input
  MaxEmitted,   \* bound: chunks the agent reads from the target
  MaxEvents,    \* bound: chunks typed and read, failures and sessions, together
  ReadSize      \* READ_CHUNK_SIZE, in chunks: what one read() returns at most

ASSUME SystemOK ==
  /\ MaxSessions \in Nat \ {0} /\ MaxTyped \in Nat
  /\ MaxEmitted \in Nat /\ MaxEvents \in Nat /\ ReadSize \in Nat \ {0}

VARIABLES
  apc, aws, typed, shown,                                  \* AccessClient
  registered, agentUp, lpc, cur, pending, hpc, agentOf,         \* RelaySession
  answers, relayed, accessClients, clientUp, wsClosed, rpc, buf,
  hand, event, remote, emitted, closeSent, delivered,
  mpc, ecur, session, ws, active, born, writer, target, output, \* EdgeAgent
  erpc, reads, sent,
  fromClient,  \* messages under way from the client to the relay
  toClient,    \* and from the relay to the client
  toAgent,     \* and from the relay to the agent's session
  faults,      \* failures so far
  carried,     \* chunks the relay's handler is forwarding
  taken,       \* how many of the agent's messages, sent[1], the relay has taken
  wrote        \* chunks written to the target

\* The one connection, by its access client's number, and its id in frames; an
\* agent is a session.
C == 1
Id == [i \in 1 .. IdLength |-> 0]

\* The instances are of the modules with the components' proofs, so that what is
\* proved of a component can be cited of its part in the system.
A == INSTANCE AccessClient
R == INSTANCE RelaySessionProofs WITH
       Agents <- 1 .. MaxSessions, Clients <- {C}, None <- 0, MaxChunks <- MaxEmitted
E == INSTANCE EdgeAgentProofs WITH
       MaxConns <- C, MaxChunks <- MaxEmitted, cur <- ecur, rpc <- erpc

clientVars == <<apc, aws, typed, shown>>
relayVars == <<registered, agentUp, lpc, cur, pending, hpc, agentOf, answers,
               relayed, accessClients, clientUp, wsClosed, rpc, buf, hand, event,
               remote, emitted, closeSent, delivered>>
agentVars == <<mpc, ecur, session, ws, active, born, writer, target, output, erpc,
               reads, sent>>
channels == <<fromClient, toClient, toAgent, carried, taken, wrote>>
vars == <<clientVars, relayVars, agentVars, channels, faults>>

\* What the users, the targets and the network still do.
Budget == typed + reads[C] + faults + session <= MaxEvents

Init ==
  /\ A!Init /\ R!Init /\ E!Init
  /\ fromClient = <<>> /\ toClient = <<>> /\ toAgent = <<>>
  /\ taken = 0 /\ wrote = <<>> /\ carried = <<>> /\ faults = 0

-----------------------------------------------------------------------------
(* Channels.  A message is a kind and the chunks it carries, to the agent   *)
(* in a frame.                                                             *)

\* Where a handler will still receive from its client.
Receiving == {"start", "initiate", "answer", "start_ok", "receive", "forward"}

Message(kind, chunks) == <<kind, chunks>>
First(channel, kind) == channel # <<>> /\ Head(channel)[1] = kind
Chunks(channel) == Head(channel)[2]

\* The kind of the next message from the agent, or "none".
NextFromAgent == IF taken < Len(sent[C]) THEN sent[C][taken + 1] ELSE "none"

\* What is sent to a peer that is gone or does not receive any more is lost.
ToRelay(kind, chunks) ==
  fromClient' = IF hpc[C] \in Receiving
                THEN Append(fromClient, Message(kind, chunks)) ELSE fromClient
ToAgent(kind, chunks) ==
  toAgent' = IF agentOf[C] \in agentUp
             THEN Append(toAgent, Message(kind, chunks)) ELSE toAgent
ToClient(kind, chunks) ==
  toClient' = IF C \in clientUp
              THEN Append(toClient, Message(kind, chunks)) ELSE toClient

-----------------------------------------------------------------------------
(* The access client.                                                      *)

\* A step of the client that leaves the relay's end of its WebSocket alone, or
\* closes it.
ClientSide ==
  /\ IF aws = "up" /\ aws' = "closed" THEN R!ClientLeaves(C) ELSE UNCHANGED relayVars
  /\ UNCHANGED <<agentVars, toAgent, carried, taken, wrote>>

ClientStarts ==
  /\ A!Start
  /\ ClientSide
  /\ ToRelay("start", <<>>) /\ UNCHANGED toClient

ClientAccepted ==
  /\ First(toClient, "start_ok")
  /\ A!Accepted
  /\ ClientSide
  /\ toClient' = Tail(toClient) /\ UNCHANGED fromClient

ClientRefused ==
  /\ First(toClient, "error") \/ aws = "closed"
  /\ A!Refused
  /\ ClientSide
  /\ toClient' = <<>> /\ UNCHANGED fromClient

ClientTypes ==
  /\ Budget
  /\ A!ReadStdin
  /\ ClientSide
  /\ ToRelay("data", <<typed'>>) /\ UNCHANGED toClient

ClientShows ==
  /\ First(toClient, "data")
  /\ A!ShowData(Chunks(toClient))
  /\ ClientSide
  /\ toClient' = Tail(toClient) /\ UNCHANGED fromClient

\* The client ends: it takes nothing more from the relay.
ClientEnds ==
  /\ A!ReceiveEnds
  /\ ClientSide
  /\ toClient' = <<>> /\ UNCHANGED fromClient

ClientKilled ==
  /\ A!Killed
  /\ ClientSide
  /\ toClient' = <<>> /\ UNCHANGED fromClient

\* The close of the relay arrives.
ClientClosed ==
  /\ C \in wsClosed
  /\ A!SocketCloses
  /\ ClientSide /\ UNCHANGED <<fromClient, toClient>>

\* The network fails: what is under way arrives, or the close overtakes it.
ClientLost ==
  /\ A!SocketCloses
  /\ ClientSide /\ UNCHANGED <<fromClient, toClient>>

-----------------------------------------------------------------------------
(* The relay.                                                              *)

RelaySide == UNCHANGED <<clientVars, agentVars, carried, wrote>>

\* The start message is refused, with or without an error message, or the
\* client is gone before it came.
RelayRejects ==
  /\ First(fromClient, "start") \/ aws = "closed"
  /\ R!RejectStart(C)
  /\ RelaySide
  /\ fromClient' = <<>> /\ UNCHANGED <<toAgent, taken>>
  /\ toClient' = toClient \/ ToClient("error", <<>>)

RelayAccepts ==
  /\ First(fromClient, "start")
  /\ \E a \in 1 .. MaxSessions : R!StartAccepted(C, a)
  /\ RelaySide
  /\ fromClient' = Tail(fromClient) /\ UNCHANGED <<toClient, toAgent, taken>>

RelayInitiates ==
  /\ R!InitiateSent(C)
  /\ RelaySide
  /\ ToAgent("initiate", <<>>) /\ UNCHANGED <<fromClient, toClient, taken>>

RelayConfirms ==
  /\ R!StartOK(C)
  /\ RelaySide
  /\ ToClient("start_ok", <<>>) /\ UNCHANGED <<fromClient, toAgent, taken>>

\* The error may fail to reach the client.
RelayRefuses ==
  /\ R!Refused(C)
  /\ RelaySide
  /\ ToClient("error", <<>>) /\ UNCHANGED <<fromClient, toAgent, taken>>

RelayReceives ==
  /\ First(fromClient, "data")
  /\ R!ReceiveData(C)
  /\ UNCHANGED <<clientVars, agentVars, toClient, toAgent, taken, wrote>>
  /\ carried' = Chunks(fromClient) /\ fromClient' = Tail(fromClient)

RelayForwards ==
  /\ R!Forwarded(C)
  /\ UNCHANGED <<clientVars, agentVars, fromClient, toClient, taken, wrote>>
  /\ ToAgent("data", encode_tcp_binary_frame(Id, carried)) /\ carried' = <<>>

\* A close message is sent by the handler or by the message loop.
RelayCloses ==
  /\ R!HandlerClose(C) \/ \E a \in 1 .. MaxSessions : R!LoopClose(a)
  /\ RelaySide
  /\ IF C \in closeSent' THEN ToAgent("close", <<>>) ELSE UNCHANGED toAgent
  /\ UNCHANGED <<fromClient, toClient, taken>>

RelayDelivers ==
  /\ R!ReaderSent(C)
  /\ RelaySide
  /\ ToClient("data", hand[C]) /\ UNCHANGED <<fromClient, toAgent, taken>>

\* What the relay does without sending or receiving.
RelayInternal ==
  /\ \/ R!InitiateRaises(C) \/ R!Answered(C) \/ R!StartOKRaises(C)
     \/ R!ForwardRaises(C) \/ R!Disconnect(C) \/ R!JoinTimeout(C) \/ R!Joined(C)
     \/ R!ReaderStart(C) \/ R!ReaderWake(C) \/ R!ReaderSendRaises(C)
     \/ R!ReaderCancelled(C)
     \/ \E a \in 1 .. MaxSessions : R!RecvDisconnect(a) \/ R!LoopDrop(a)
  /\ fromClient' = IF hpc'[C] \in Receiving THEN fromClient ELSE <<>>
  /\ RelaySide /\ UNCHANGED <<toClient, toAgent, taken>>

Take ==
  /\ RelaySide
  /\ taken' = taken + 1 /\ UNCHANGED <<fromClient, toClient, toAgent>>

RelayTakesAnswer ==
  /\ NextFromAgent \in {"ok", "error"}
  /\ R!RecvAnswer(agentOf[C], C)
  /\ remote'[C] = IF NextFromAgent = "ok" THEN "open" ELSE "refused"
  /\ Take

RelayTakesData == NextFromAgent = "data" /\ R!RecvData(agentOf[C], C) /\ Take

RelayTakesReset == NextFromAgent = "reset" /\ R!RecvReset(agentOf[C], C) /\ Take

\* Only late data is ignored: a reset about a connection that is gone is not taken.
RelayTakesLateData ==
  /\ NextFromAgent = "data" /\ remote[C] = "ended"
  /\ lpc[agentOf[C]] = "receive" /\ C \notin relayed
  /\ UNCHANGED relayVars
  /\ Take

\* Data or a second reset about a connection that is not in the table.
RelayTakesLate ==
  /\ NextFromAgent \in {"data", "reset"} /\ remote[C] = "ended"
  /\ lpc[agentOf[C]] = "receive" /\ C \notin relayed
  /\ UNCHANGED relayVars
  /\ Take

-----------------------------------------------------------------------------
(* The edge agent.                                                         *)

\* A step of the agent: where it breaks the session's WebSocket, that breaks
\* for the relay; what is under way to a session that is left is lost.
AgentSide ==
  /\ IF ws = "up" /\ ws' = "broken" THEN R!AgentLeaves(session) ELSE UNCHANGED relayVars
  /\ UNCHANGED <<clientVars, fromClient, toClient, carried, taken>>

AgentConnects ==
  /\ E!Connect
  /\ R!AgentJoins(session')
  /\ UNCHANGED <<clientVars, channels>>

AgentInitiates ==
  /\ First(toAgent, "initiate") /\ agentOf[C] = session
  /\ E!Initiate(C)
  /\ AgentSide /\ toAgent' = Tail(toAgent) /\ UNCHANGED wrote

AgentWrites ==
  /\ First(toAgent, "data")
  /\ ~ TooShort(Chunks(toAgent)) /\ IdOf(Chunks(toAgent)) = Id
  /\ E!WriteData(C)
  /\ AgentSide /\ toAgent' = Tail(toAgent)
  /\ wrote' = wrote \o PayloadOf(Chunks(toAgent))

AgentCloses ==
  /\ First(toAgent, "close")
  /\ E!RelayCloses(C)
  /\ AgentSide /\ toAgent' = Tail(toAgent) /\ UNCHANGED wrote

\* Data or a close for a connection that is not active.
AgentTakesLate ==
  /\ First(toAgent, "data") \/ First(toAgent, "close")
  /\ mpc = "receive" /\ C \notin active
  /\ UNCHANGED agentVars
  /\ AgentSide /\ toAgent' = Tail(toAgent) /\ UNCHANGED wrote

\* What the agent does without receiving; what it sends is in sent[C].
AgentInternal ==
  /\ \/ E!Connected(C) \/ E!ConnectFails(C) \/ E!Confirmed(C) \/ E!Reported
     \/ E!Drained(C) \/ E!DrainReset(C) \/ E!DrainFails(C) \/ E!MainSendRaises
     \/ E!ReceiveRaises \/ E!CleanUp
     \/ E!ReaderSent(C) \/ E!ReaderEnds(C)
     \/ E!ReaderSendRaises(C) \/ E!ReaderDone(C)
  /\ AgentSide
  /\ toAgent' = IF mpc' = "leave" THEN <<>> ELSE toAgent
  /\ UNCHANGED wrote

AgentReads ==
  /\ Budget
  /\ E!ReaderData(C)
  /\ AgentSide /\ UNCHANGED <<toAgent, wrote>>

\* The target ends or the session's WebSocket breaks.
AgentPeers ==
  /\ E!TargetEnds(C) \/ E!TargetResets(C) \/ E!RelayLost
  /\ AgentSide /\ UNCHANGED <<toAgent, wrote>>

\* The target takes what was written to it.
AgentFlushes ==
  /\ E!TargetReads(C)
  /\ AgentSide /\ UNCHANGED <<toAgent, wrote>>

-----------------------------------------------------------------------------
\* What the programs do once they can.
Progress ==
  /\ \/ ClientStarts \/ ClientAccepted \/ ClientRefused \/ ClientShows
     \/ ClientEnds \/ ClientClosed
     \/ RelayRejects \/ RelayAccepts \/ RelayInitiates \/ RelayConfirms
     \/ RelayRefuses \/ RelayReceives \/ RelayForwards \/ RelayCloses
     \/ RelayDelivers \/ RelayInternal
     \/ RelayTakesAnswer \/ RelayTakesData \/ RelayTakesReset \/ RelayTakesLate
     \/ AgentConnects \/ AgentInitiates \/ AgentWrites \/ AgentCloses
     \/ AgentTakesLate \/ AgentInternal
  /\ UNCHANGED faults

Failure == ClientKilled \/ ClientLost \/ AgentPeers

Next ==
  \/ Progress
  \/ (ClientTypes \/ AgentReads \/ AgentFlushes) /\ UNCHANGED faults
  \/ Budget /\ Failure /\ faults' = faults + 1

Spec == Init /\ [][Next]_vars

-----------------------------------------------------------------------------
\* What the messages of a channel carry, in the channel to the agent in frames.
Contents(channel) == [i \in 1 .. Len(channel) |-> channel[i][2]]
Framed(channel) ==
  [i \in 1 .. Len(channel) |->
     IF channel[i][1] = "data" THEN PayloadOf(channel[i][2]) ELSE <<>>]

\* How many of the first n messages from the agent are data.
DataIn(n) == E!Count(sent[C], "data", n)

\* The channels hold messages, and both ends of a WebSocket agree on whether it
\* is up, whichever of them broke it.
TypeOK ==
  /\ A!TypeOK /\ R!TypeOK /\ E!TypeOK
  /\ \A channel \in {fromClient, toClient, toAgent} :
       \A i \in 1 .. Len(channel) : Len(channel[i]) = 2
  /\ taken \in 0 .. Len(sent[C])
  /\ carried # <<>> => hpc[C] \in {"forward", "crashed"}
  /\ agentUp = IF ws = "up" THEN {session} ELSE {}
  /\ C \in clientUp <=> aws # "closed"

\* What RelaySession and AccessClient assume of their peers holds of the real
\* ones, whoever ended the connection first: an answer arrives only while it
\* was asked for and before any data; data carries the number the relay counts
\* to; whatever comes after a reset is about a connection that the table has
\* lost by then; and the client's first message is its answer.
PeersKeepProtocol ==
  /\ NextFromAgent \in {"ok", "error"} => remote[C] = "asked"
  /\ NextFromAgent \in {"data", "reset"} =>
       \/ remote[C] = "open" /\ emitted[C] = DataIn(taken)
       \/ remote[C] = "ended" /\ (lpc[agentOf[C]] = "receive" => C \notin relayed)
  /\ toClient # <<>> =>
       CASE apc = "answer" -> Head(toClient)[1] \in {"start_ok", "error"}
         [] apc = "pump" -> Head(toClient)[1] = "data"
         [] OTHER -> FALSE
  /\ First(toAgent, "initiate") => born[C] = 0

\* No byte is lost between two ends that are up: as long as the client, the
\* relay's entry and the target connection exist, what entered at one end has
\* come out of the other or is in one of the buffers between, in order.
BytesConserved ==
  /\ C \in active /\ hpc[C] \in Receiving /\ aws = "up" /\ ws = "up" =>
       EndToEnd(<<wrote>> \o Framed(toAgent) \o <<carried>> \o Contents(fromClient),
                0, typed)
  /\ C \in relayed /\ aws = "up" =>
       EndToEnd(<<shown>> \o Contents(toClient) \o <<hand[C], buf[C]>>, 0, emitted[C])
  /\ C \in active /\ ws = "up" => DataIn(Len(sent[C])) = reads[C]

\* The three programs implement the tunnel: Tunnel!Spec.
T == INSTANCE Tunnel WITH
       asked <- apc # "start", opened <- writer[C] # "none", emitted <- reads[C],
       left <- apc = "done", hungUp <- writer[C] = "closed"
Tunnels == T!Spec

-----------------------------------------------------------------------------
(* Rest.  What is still to happen then is up to the user, the target and    *)
(* failures: every task waits, and no message is under way to a task that   *)
(* receives.                                                               *)

ClientRests ==
  \/ apc = "done"
  \/ apc # "start" /\ aws = "up" /\ C \notin wsClosed /\ toClient = <<>>

HandlerRests ==
  \/ hpc[C] \in {"done", "crashed"}
  \/ hpc[C] = "start" /\ aws # "closed" /\ fromClient = <<>>
  \/ hpc[C] = "answer" /\ answers[C] = "empty"
  \/ hpc[C] = "receive" /\ C \in clientUp \ wsClosed /\ fromClient = <<>>

ReaderRests == rpc[C] \in {"none", "done"} \/ (rpc[C] = "wait" /\ ~ event[C])

LoopRests(a) ==
  \/ lpc[a] \in {"absent", "done"}
  \/ lpc[a] = "receive" /\ a \in agentUp /\ (a = agentOf[C] => NextFromAgent = "none")

\* The main task waits in drain() for a target that does not read.
Held == mpc = "drain" /\ output[C] = "full" /\ target[C] \in {"open", "ended"}

AgentRests ==
  \/ mpc = "down" /\ session = MaxSessions
  \/ mpc = "receive" /\ ws = "up" /\ toAgent = <<>>
  \/ Held

AgentReaderRests ==
  \/ erpc[C] \in {"none", "done"}
  \/ /\ erpc[C] = "read" /\ target[C] = "open"
     /\ writer[C] # "closed" \/ output[C] # "none"

AtRest ==
  /\ ClientRests /\ HandlerRests /\ ReaderRests /\ AgentRests /\ AgentReaderRests
  /\ \A a \in 1 .. MaxSessions : LoopRests(a)

\* The programs stop only at rest: none of them waits for another one that waits
\* for it, and no message reaches a task in a place where it does not take it.
StopsOnlyAtRest == AtRest <=> ~ ENABLED Progress

\* The end of a client closes the connection to its target, unless the handler
\* raised when it wanted to confirm the connection to the client, or the agent
\* waits for the target to read and does not take the relay's close.
ClientEndClosesTarget ==
  apc = "done" /\ writer[C] = "open" /\ AtRest =>
    Held \/ (hpc[C] = "crashed" /\ rpc[C] = "none")

\* The end of a target connection reaches the relay, which drops its entry, and
\* a client whose WebSocket the relay has closed ends.
TargetEndReachesClient ==
  target[C] \notin {"none", "open"} /\ AtRest =>
    /\ C \notin relayed
    /\ C \in wsClosed => apc \in {"start", "done"}

\* A registered client is told: its connection is dropped only once its
\* WebSocket is closed or broken.  One that is not registered yet is not told.
DropTellsClient ==
  [][(C \in accessClients \cap relayed /\ C \notin relayed')
        => (C \in wsClosed' \/ aws' = "closed")]_vars

\* A chunk that entered comes out at the other end, unless an end is gone, or the
\* agent waits for the target to read: that keeps back only what is for the target.
ChunksArrive ==
  apc = "pump" /\ writer[C] = "open" /\ AtRest =>
    /\ Len(wrote) >= typed \/ Held
    /\ Len(shown) >= reads[C]

=============================================================================

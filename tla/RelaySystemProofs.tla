-------------------------- MODULE RelaySystemProofs --------------------------
(***************************************************************************)
(* Proofs about RelaySystem, for any number of sessions and chunks, any    *)
(* length of an id and any size of a read.                                 *)
(*                                                                         *)
(* Every step of the system is a step, or none, of each of its components, *)
(* so what is proved of a component holds of its part in the system; on    *)
(* top of that come invariants that relate the components to each other    *)
(* and to the messages under way between them.                             *)
(***************************************************************************)
EXTENDS RelaySystem, FramingProofs, ChunkLemmas, FiniteSetTheorems, TLAPS

\* The bounds of the system satisfy what its components assume of theirs.
LEMMA RelayConstants == R!ConstantsOK
BY SystemOK DEF R!ConstantsOK, C

LEMMA AgentConstants == E!EdgeOK
BY SystemOK DEF E!EdgeOK, C

LEMMA OneConnection == E!Conns = {C} /\ C \in E!Conns /\ C \in {C} /\ E!NoConn # C
BY DEF E!Conns, C, E!NoConn

-----------------------------------------------------------------------------
(* The components.                                                         *)

\* What is proved of the relay and of the agent alone.
RelayInv ==
  /\ R!TypeOK /\ R!SessionInv /\ R!ReturnInv /\ R!StreamInv
  /\ R!NoLostWakeup /\ R!OrphanInv /\ R!WaitInv
AgentInv == E!EdgeInv /\ E!AnswersInv /\ E!EndInv

\* Both ends of a WebSocket agree on whether it is up, a client's socket follows
\* its program, and the relay knows only sessions that there were.
MeetInv ==
  /\ agentUp = IF ws = "up" THEN {session} ELSE {}
  /\ ws = "up" => session > 0 /\ mpc \notin {"down", "leave"}
  /\ C \in clientUp <=> aws # "closed"
  /\ aws = "none" <=> apc = "start"
  /\ apc = "done" => aws = "closed"
  /\ remote[C] # "none" => agentOf[C] # 0
  /\ \A a \in 1 .. MaxSessions : lpc[a] # "absent" => a <= session

ComponentInv == A!TypeOK /\ RelayInv /\ AgentInv /\ MeetInv

-----------------------------------------------------------------------------
(* The messages under way.                                                 *)

\* A message is a kind and what it carries: one chunk of data to the target, in a
\* frame on its way to the agent, or as many as the relay read of those to the
\* client; the other messages carry nothing.
OneChunk == {s \in Seq(Nat) : Len(s) = 1}
Frames == {frame \in Seq(Nat) :
             ~ TooShort(frame) /\ IdOf(frame) = Id /\ PayloadOf(frame) \in OneChunk}

ToRelayMessages == ({"start"} \X {<<>>}) \cup ({"data"} \X OneChunk)
ToClientMessages == ({"start_ok", "error"} \X {<<>>}) \cup ({"data"} \X Seq(Nat))
ToAgentMessages == ({"initiate", "close"} \X {<<>>}) \cup ({"data"} \X Frames)

MessagesInv ==
  /\ fromClient \in Seq(ToRelayMessages) /\ toClient \in Seq(ToClientMessages)
  /\ toAgent \in Seq(ToAgentMessages)
  /\ carried \in Seq(Nat)
  /\ hpc[C] = "forward" => carried \in OneChunk
  /\ carried # <<>> => hpc[C] \in {"forward", "crashed"}
  /\ taken \in 0 .. Len(sent[C])

\* Where the relay has not answered its client yet.
BeforeAnswer == {"start", "initiate", "answer", "start_ok", "refused"}

\* The order of the messages to the client: the answer, then data.
ClientInv ==
  /\ apc = "start" => hpc[C] = "start" /\ fromClient = <<>>
  /\ apc \in {"start", "done"} => toClient = <<>>
  /\ hpc[C] \in BeforeAnswer => toClient = <<>> /\ apc # "pump"
  /\ apc = "answer" /\ aws = "up" /\ rpc[C] # "none" => toClient # <<>>
  /\ \A i \in 1 .. Len(toClient) :
       IF apc = "answer" /\ i = 1 THEN toClient[i][1] \in {"start_ok", "error"}
                                  ELSE toClient[i][1] = "data"

\* The request comes first: nothing goes to the agent before it, and it leaves the
\* agent's end asked for a connection.
AskedInv ==
  /\ hpc[C] \in {"start", "initiate"} => toAgent = <<>> /\ born[C] = 0
  /\ \A i \in 1 .. Len(toAgent) : toAgent[i][1] = "initiate" => i = 1 /\ born[C] = 0
  /\ toAgent # <<>> \/ born[C] # 0 => remote[C] # "none"
  /\ agentOf[C] \in agentUp /\ hpc[C] \notin {"start", "initiate"} => remote[C] # "none"

\* The agent's first message is its answer; once its end was reset, the loop that
\* took the reset is dropping the connection.
AnsweredInv ==
  /\ taken = 0 <=> remote[C] \in {"none", "asked"}
  /\ taken > 0 => (remote[C] = "refused" <=> sent[C][1] = "error")
  /\ remote[C] = "ended" /\ C \in relayed => lpc[agentOf[C]] \in {"close", "drop"}

RequestInv == AskedInv /\ AnsweredInv

\* Whoever goes by the target's connection being open is right.
OpenInv ==
  writer[C] = "none" =>
    /\ answers[C] # "ok" /\ hpc[C] \notin {"start_ok", "receive", "forward"}
    /\ rpc[C] = "none" /\ apc # "pump"
    /\ \A i \in 1 .. Len(toClient) : toClient[i][1] = "error"
    /\ \A i \in 1 .. Len(toAgent) : toAgent[i][1] # "data"

\* What the reader, the buffer and the client have together.
Piped == Len(delivered[C]) + Len(hand[C]) + Len(buf[C])

\* No end has more of the target's chunks than the one before it.
CountInv ==
  /\ Piped <= emitted[C]
  /\ emitted[C] <= DataIn(taken) /\ (remote[C] # "ended" => emitted[C] = DataIn(taken))
  /\ DataIn(Len(sent[C])) <= reads[C]
  /\ born[C] = 0 \/ (ws = "up" /\ born[C] = session) => DataIn(Len(sent[C])) = reads[C]

\* The chunks on their way to the target: those up to m are in the channel to the
\* agent, those up to n the handler has.  What was under way to an agent that is
\* gone is lost, and so is what a handler that has stopped receiving has not got.
Reaching == agentOf[C] \in agentUp \/ hpc[C] = "start"

Underway(m, n) ==
  /\ m <= n /\ n <= typed
  /\ EndToEnd(Framed(toAgent), Len(wrote), m)
  /\ Reaching =>
       /\ carried = Block(m, n)
       /\ hpc[C] \in Receiving => EndToEnd(Contents(fromClient), n, typed)

WriteInv ==
  /\ wrote \in Seq(Nat) /\ wrote = UpTo(Len(wrote))
  /\ writer[C] # "closed" => \E m, n \in Nat : Underway(m, n)

\* The chunks on their way to the client: those up to k are in its channel, all
\* that the reader has sent while the WebSocket is up.
Arriving(k) ==
  /\ EndToEnd(Contents(toClient), Len(shown), k)
  /\ k <= Len(delivered[C]) /\ (aws # "closed" => k = Len(delivered[C]))

ShowInv ==
  /\ shown = UpTo(Len(shown))
  /\ apc # "done" => \E k \in Nat : Arriving(k)

\* A loop drops a client's connection after it has closed the client's socket.
CloseInv == \A a \in 1 .. MaxSessions : lpc[a] = "drop" => cur[a] \in wsClosed

-----------------------------------------------------------------------------
(* Whose step it is, and what it leaves alone.                             *)

\* Whose step it is.
ClientActs ==
  \/ ClientStarts \/ ClientAccepted \/ ClientRefused \/ ClientTypes \/ ClientShows
  \/ ClientEnds \/ ClientKilled \/ ClientClosed \/ ClientLost

RelayActs ==
  \/ RelayRejects \/ RelayAccepts \/ RelayInitiates \/ RelayConfirms \/ RelayRefuses
  \/ RelayReceives \/ RelayForwards \/ RelayCloses \/ RelayDelivers \/ RelayInternal
  \/ RelayTakesAnswer \/ RelayTakesData \/ RelayTakesReset \/ RelayTakesLate

AgentActs ==
  \/ AgentInitiates \/ AgentWrites \/ AgentCloses \/ AgentTakesLate
  \/ AgentInternal \/ AgentReads \/ AgentPeers \/ AgentFlushes

LEMMA WhoseStep ==
  Next => ClientActs \/ RelayActs \/ AgentConnects \/ AgentActs
BY DEF Next, Progress, Failure, ClientActs, RelayActs, AgentActs

\* What is the relay's own: a client and an agent may only cut their sockets.
relayOwn == <<registered, lpc, cur, pending, hpc, agentOf, answers, relayed,
              accessClients, wsClosed, rpc, buf, hand, event, remote, emitted,
              closeSent, delivered>>

\* A step of the client leaves everything else alone but its socket and the
\* channels it uses.
LEMMA ClientSteps ==
  ASSUME ClientActs
  PROVE  /\ IF aws = "up" /\ aws' = "closed" THEN R!ClientLeaves(C) ELSE UNCHANGED clientUp
         /\ UNCHANGED <<relayOwn, agentUp, agentVars, toAgent, carried, taken, wrote>>
<1>1. ClientSide
  BY DEF ClientActs, ClientStarts, ClientAccepted, ClientRefused, ClientTypes,
         ClientShows, ClientEnds, ClientKilled, ClientClosed, ClientLost
<1>2. CASE aws = "up" /\ aws' = "closed"
  BY <1>1, <1>2 DEF ClientSide, relayOwn, R!ClientLeaves, R!loopVars, R!tableVars,
     R!readerVars, R!remoteVars
<1>3. CASE ~(aws = "up" /\ aws' = "closed")
  BY <1>1, <1>3 DEF ClientSide, relayOwn, relayVars
<1> QED BY <1>2, <1>3

\* The relay does not open or break the sockets of its peers.
LEMMA HandlerSockets == R!HandlerStep(C) => UNCHANGED <<agentUp, clientUp>>
BY DEF R!HandlerStep, R!RejectStart, R!StartAccepted, R!InitiateSent, R!InitiateRaises,
   R!Answered, R!StartOK, R!StartOKRaises, R!Refused, R!ReceiveData, R!MessageRaises,
   R!Forwarded, R!ForwardRaises, R!Disconnect, R!HandlerClose, R!JoinTimeout, R!Joined,
   R!socketVars

LEMMA ReaderSockets == R!ReaderStep(C) => UNCHANGED <<agentUp, clientUp>>
BY DEF R!ReaderStep, R!ReaderStart, R!ReaderWake, R!ReaderSent, R!ReaderSendRaises,
  R!ReaderCancelled, R!socketVars

LEMMA LoopSockets ==
  ASSUME NEW a \in 1 .. MaxSessions, R!LoopStep(a)
  PROVE  UNCHANGED <<agentUp, clientUp>>
BY DEF R!LoopStep, R!RecvAnswer, R!RecvData, R!RecvReset, R!RecvDisconnect, R!LoopRaises,
   R!LoopClose, R!LoopDrop, R!socketVars

\* A step of the relay is one of its handler, its reader or its message loops, or
\* takes a late message.
LEMMA RelayStep ==
  ASSUME RelayInv, MeetInv, RelayActs
  PROVE  /\ \/ R!HandlerStep(C) \/ R!ReaderStep(C)
            \/ \E a \in 1 .. MaxSessions : R!LoopStep(a)
            \/ UNCHANGED relayVars
         /\ UNCHANGED <<agentVars, clientVars, wrote, agentUp, clientUp>>
<1>1. CASE RelayRejects \/ RelayAccepts \/ RelayInitiates \/ RelayConfirms \/ RelayRefuses
           \/ RelayReceives \/ RelayForwards
  <2>1. R!HandlerStep(C)
    BY <1>1 DEF RelayRejects, RelayAccepts, RelayInitiates, RelayConfirms, RelayRefuses,
     RelayReceives, RelayForwards, R!HandlerStep
  <2>2. UNCHANGED <<agentVars, clientVars, wrote>>
    BY <1>1 DEF RelayRejects, RelayAccepts, RelayInitiates, RelayConfirms, RelayRefuses,
     RelayReceives, RelayForwards, RelaySide
  <2> QED BY <2>1, <2>2, HandlerSockets
<1>2. CASE RelayDelivers
  BY <1>2, ReaderSockets DEF RelayDelivers, R!ReaderStep, RelaySide
<1>3. CASE RelayCloses
  BY <1>3, HandlerSockets, LoopSockets DEF RelayCloses, R!HandlerStep, R!LoopStep, RelaySide
<1>4. CASE RelayInternal
  <2>1. \/ R!HandlerStep(C) \/ R!ReaderStep(C)
        \/ \E a \in 1 .. MaxSessions : R!LoopStep(a)
    BY <1>4 DEF RelayInternal, R!HandlerStep, R!ReaderStep, R!LoopStep
  <2>2. UNCHANGED <<agentVars, clientVars, wrote>>
    BY <1>4 DEF RelayInternal, RelaySide
  <2> QED BY <2>1, <2>2, HandlerSockets, ReaderSockets, LoopSockets
<1>5. CASE RelayTakesAnswer \/ RelayTakesData \/ RelayTakesReset
  <2>1. \/ R!RecvAnswer(agentOf[C], C) \/ R!RecvData(agentOf[C], C)
        \/ R!RecvReset(agentOf[C], C)
    BY <1>5 DEF RelayTakesAnswer, RelayTakesData, RelayTakesReset
  <2>2. remote[C] # "none"
    BY <2>1 DEF R!RecvAnswer, R!RecvData, R!RecvReset
  <2>3. agentOf[C] \in 1 .. MaxSessions
    BY <2>2 DEF MeetInv, RelayInv, R!TypeOK
  <2>4. R!LoopStep(agentOf[C])
    BY <2>1 DEF R!LoopStep
  <2>5. UNCHANGED <<agentVars, clientVars, wrote>>
    BY <1>5 DEF RelayTakesAnswer, RelayTakesData, RelayTakesReset, Take, RelaySide
  <2> QED BY <2>3, <2>4, <2>5, LoopSockets
<1>6. CASE RelayTakesLate
  BY <1>6 DEF RelayTakesLate, Take, RelaySide, relayVars
<1> QED BY <1>1, <1>2, <1>3, <1>4, <1>5, <1>6 DEF RelayActs

\* A step of the agent in a session leaves everything else alone but its socket
\* and the channel it reads.
LEMMA AgentStep ==
  ASSUME AgentActs
  PROVE  /\ E!Next \/ UNCHANGED agentVars
         /\ IF ws = "up" /\ ws' = "broken" THEN R!AgentLeaves(session) ELSE UNCHANGED agentUp
         /\ UNCHANGED <<relayOwn, clientUp, clientVars, fromClient, toClient, carried, taken>>
<1>1. AgentSide
  BY DEF AgentActs, AgentInitiates, AgentWrites, AgentCloses, AgentTakesLate,
     AgentInternal, AgentReads, AgentPeers, AgentFlushes
<1>2. UNCHANGED <<relayOwn, clientUp, clientVars, fromClient, toClient, carried, taken>>
  <2>1. CASE R!AgentLeaves(session)
    BY <1>1, <2>1 DEF AgentSide, relayOwn, R!AgentLeaves, R!loopVars, R!tableVars,
       R!readerVars, R!remoteVars
  <2>2. CASE UNCHANGED relayVars
    BY <1>1, <2>2 DEF AgentSide, relayOwn, relayVars
  <2> QED BY <1>1, <2>1, <2>2 DEF AgentSide
<1>3. IF ws = "up" /\ ws' = "broken" THEN R!AgentLeaves(session) ELSE UNCHANGED agentUp
  BY <1>1 DEF AgentSide, relayVars
<1>4. \/ E!Next
      \/ UNCHANGED agentVars
  BY OneConnection DEF AgentActs, AgentInitiates, AgentWrites, AgentCloses,
     AgentTakesLate, AgentInternal, AgentReads, AgentPeers, AgentFlushes, E!Next, E!Main,
     E!Reader
<1> QED BY <1>2, <1>3, <1>4

\* A step of the system is a step of the relay or leaves it alone.
LEMMA RelaySteps == ComponentInv /\ [Next]_vars => [R!Next]_(R!vars)
<1> SUFFICES ASSUME ComponentInv, [Next]_vars PROVE [R!Next]_(R!vars)
  OBVIOUS
<1>0. ASSUME UNCHANGED relayVars PROVE UNCHANGED R!vars
  BY <1>0 DEF relayVars, R!vars, R!loopVars, R!tableVars, R!socketVars, R!readerVars,
              R!remoteVars
<1>1. CASE ClientActs
  <2>1. ClientSide
    BY <1>1 DEF ClientActs, ClientStarts, ClientAccepted, ClientRefused, ClientTypes,
           ClientShows, ClientEnds, ClientKilled, ClientClosed, ClientLost
  <2> QED BY <1>0, <2>1 DEF ClientSide, R!Next
<1>2. CASE RelayActs
  BY <1>0, <1>2, RelayStep DEF ComponentInv, R!Next
<1>3. CASE AgentConnects
  <2>1. session' \in 1 .. MaxSessions
    BY <1>3, SystemOK DEF AgentConnects, E!Connect, ComponentInv, AgentInv, E!EdgeInv,
                          E!TypeOK
  <2> QED BY <1>3, <2>1 DEF AgentConnects, R!Next
<1>4. CASE AgentActs
  <2>1. AgentSide
    BY <1>4 DEF AgentActs, AgentInitiates, AgentWrites, AgentCloses, AgentTakesLate,
       AgentInternal, AgentReads, AgentPeers, AgentFlushes
  <2>2. CASE UNCHANGED relayVars
    BY <1>0, <2>2
  <2>3. CASE ws = "up" /\ R!AgentLeaves(session)
    <3>1. session \in 1 .. MaxSessions
      BY <2>3, SystemOK DEF ComponentInv, MeetInv, AgentInv, E!EdgeInv, E!TypeOK
    <3> QED BY <2>3, <3>1 DEF R!Next
  <2> QED BY <2>1, <2>2, <2>3 DEF AgentSide
<1>5. CASE UNCHANGED vars
  BY <1>5, <1>0 DEF vars
<1> QED BY <1>1, <1>2, <1>3, <1>4, <1>5, WhoseStep

\* A step of the system is a step of the agent or leaves it alone.
LEMMA AgentSteps == ComponentInv /\ [Next]_vars => [E!Next]_(E!vars)
<1> SUFFICES ASSUME ComponentInv, [Next]_vars PROVE [E!Next]_(E!vars)
  OBVIOUS
<1>0. ASSUME UNCHANGED agentVars PROVE UNCHANGED E!vars
  BY <1>0 DEF agentVars, E!vars, E!mainVars, E!connVars, E!readerVars
<1>1. CASE ClientActs
  BY <1>0, <1>1, ClientSteps
<1>2. CASE RelayActs
  BY <1>0, <1>2, RelayStep DEF ComponentInv
<1>3. CASE AgentConnects
  BY <1>3 DEF AgentConnects, E!Next, E!Main
<1>4. CASE AgentActs
  BY <1>0, <1>4, AgentStep
<1>5. CASE UNCHANGED vars
  BY <1>0, <1>5 DEF vars
<1> QED BY <1>1, <1>2, <1>3, <1>4, <1>5, WhoseStep

-----------------------------------------------------------------------------
(* What the relay knows of its peers.                                      *)

\* A handler and a reader leave the message loops alone; a loop only moves itself.
LEMMA LoopsKnown ==
  ASSUME RelayInv, MeetInv, RelayActs
  PROVE  \A a \in 1 .. MaxSessions : lpc'[a] # "absent" => lpc[a] # "absent"
<1>1. CASE R!HandlerStep(C) \/ R!ReaderStep(C)
  <2>1. lpc' = lpc
    BY <1>1 DEF R!loopVars, R!HandlerStep, R!RejectStart, R!StartAccepted, R!InitiateSent,
       R!InitiateRaises, R!Answered, R!StartOK, R!StartOKRaises, R!Refused, R!ReceiveData,
       R!MessageRaises, R!Forwarded, R!ForwardRaises, R!Disconnect, R!HandlerClose,
       R!JoinTimeout, R!Joined, R!ReaderStep, R!ReaderStart, R!ReaderWake, R!ReaderSent,
       R!ReaderSendRaises, R!ReaderCancelled
  <2> QED BY <2>1
<1>2. ASSUME NEW b \in 1 .. MaxSessions, R!LoopStep(b)
      PROVE  \A a \in 1 .. MaxSessions : lpc'[a] # "absent" => lpc[a] # "absent"
  <2>1. lpc[b] # "absent"
    BY <1>2 DEF R!LoopStep, R!RecvAnswer, R!RecvData, R!RecvReset, R!RecvDisconnect,
       R!LoopRaises, R!LoopClose, R!LoopDrop
  <2>2. lpc' = lpc \/ \E l : lpc' = [lpc EXCEPT ![b] = l]
    BY <1>2 DEF R!LoopStep, R!RecvAnswer, R!RecvData, R!RecvReset, R!RecvDisconnect,
       R!LoopRaises, R!LoopClose, R!LoopDrop, R!CloseNext, R!Goto, R!loopVars
  <2> QED BY <2>1, <2>2 DEF RelayInv, R!TypeOK
<1>3. CASE UNCHANGED relayVars
  BY <1>3 DEF relayVars
<1> QED BY <1>1, <1>2, <1>3, RelayStep

\* The agent's end is there only for a connection that was given to an agent.
LEMMA RemoteKnown ==
  ASSUME RelayInv, MeetInv, RelayActs, remote'[C] # "none"
  PROVE  agentOf[C] # 0
<1>1. CASE remote' = remote
  BY <1>1 DEF MeetInv
<1>2. CASE R!InitiateSent(C)
  BY <1>2 DEF R!InitiateSent, RelayInv, R!SessionInv, R!ProgressInv, C
<1>3. CASE R!HandlerStep(C) /\ ~ R!InitiateSent(C)
  BY <1>1, <1>3 DEF R!remoteVars, R!HandlerStep, R!RejectStart, R!StartAccepted,
     R!InitiateRaises, R!Answered, R!StartOK, R!StartOKRaises, R!Refused, R!ReceiveData,
     R!MessageRaises, R!Forwarded, R!ForwardRaises, R!Disconnect, R!HandlerClose,
     R!JoinTimeout, R!Joined
<1>4. CASE R!ReaderStep(C)
  BY <1>1, <1>4 DEF R!remoteVars, R!ReaderStep, R!ReaderStart,
       R!ReaderWake, R!ReaderSent, R!ReaderSendRaises, R!ReaderCancelled
<1>5. ASSUME NEW a \in 1 .. MaxSessions, R!LoopStep(a) PROVE agentOf[C] # 0
  <2>1. CASE R!RecvAnswer(a, C) \/ R!RecvData(a, C) \/ R!RecvReset(a, C)
    BY <2>1 DEF R!RecvAnswer, R!RecvData, R!RecvReset
  <2>2. CASE R!RecvDisconnect(a) \/ R!LoopRaises(a) \/ R!LoopClose(a) \/ R!LoopDrop(a)
    BY <1>1, <2>2 DEF R!RecvDisconnect, R!LoopRaises, R!LoopClose, R!LoopDrop,
       R!remoteVars
  <2> QED BY <1>5, <2>1, <2>2 DEF R!LoopStep
<1>6. CASE UNCHANGED relayVars
  BY <1>1, <1>6 DEF relayVars
<1> QED BY <1>2, <1>3, <1>4, <1>5, <1>6, RelayStep

\* In a session the agent's WebSocket can only break.
LEMMA SessionLasts ==
  ASSUME AgentInv, MeetInv, AgentActs
  PROVE  /\ session' = session /\ ws' \in {ws, "broken"}
         /\ ws' = "up" => mpc' \notin {"down", "leave"}
<1> USE DEF E!mainVars, E!LeaveSession, E!NextMessage, MeetInv
<1>1. CASE AgentInitiates \/ AgentWrites \/ AgentCloses \/ AgentTakesLate \/ AgentReads
           \/ AgentPeers \/ AgentFlushes
  BY <1>1 DEF AgentInitiates, AgentWrites, AgentCloses, AgentTakesLate, AgentReads,
     AgentPeers, AgentFlushes, E!Initiate, E!WriteData, E!RelayCloses, E!ReaderData,
     E!TargetEnds,
     E!TargetResets, E!TargetReads, E!RelayLost, agentVars
<1>2. CASE AgentInternal
  <2>1. CASE E!Connected(C) \/ E!ConnectFails(C) \/ E!Confirmed(C) \/ E!Reported
             \/ E!Drained(C) \/ E!DrainReset(C) \/ E!DrainFails(C)
    BY <2>1 DEF E!Connected, E!ConnectFails, E!Confirmed, E!Reported, E!Drained,
       E!DrainReset, E!DrainFails
  <2>2. CASE E!MainSendRaises \/ E!ReceiveRaises \/ E!CleanUp
    BY <2>2 DEF E!MainSendRaises, E!ReceiveRaises, E!CleanUp
  <2>3. CASE E!ReaderSent(C) \/ E!ReaderEnds(C) \/ E!ReaderSendRaises(C) \/ E!ReaderDone(C)
    BY <2>3 DEF E!ReaderSent, E!ReaderEnds, E!ReaderSendRaises, E!ReaderDone, E!Finally
  <2> QED BY <1>2, <2>1, <2>2, <2>3 DEF AgentInternal
<1> QED BY <1>1, <1>2 DEF AgentActs

\* A connection stays with the agent it was given to.
LEMMA AgentStays ==
  ASSUME RelayInv, MeetInv, RelayActs, agentOf[C] # 0
  PROVE  agentOf'[C] = agentOf[C]
<1>1. [R!Next]_(R!vars)
  <2>1. ASSUME UNCHANGED relayVars PROVE UNCHANGED R!vars
    BY <2>1 DEF relayVars, R!vars, R!loopVars, R!tableVars, R!socketVars, R!readerVars,
                R!remoteVars
  <2> QED BY <2>1, RelayStep DEF R!Next
<1> QED BY <1>1, R!CauseStable, RelayConstants DEF RelayInv, R!SessionInv, C

LEMMA MeetStep ==
  ASSUME RelayInv, AgentInv, MeetInv, A!TypeOK, [Next]_vars
  PROVE  MeetInv'
<1> USE DEF MeetInv
<1>1. CASE ClientActs
  <2>1. /\ (C \in clientUp)' <=> aws' # "closed"
        /\ aws' = "none" <=> apc' = "start"
        /\ apc' = "done" => aws' = "closed"
    <3>1. /\ aws' = "none" <=> apc' = "start"
          /\ apc' = "done" => aws' = "closed"
          /\ aws' = "closed" => aws # "none"
          /\ aws = "closed" => aws' = "closed"
      BY <1>1 DEF ClientActs, ClientStarts, ClientAccepted, ClientRefused, ClientTypes,
         ClientShows, ClientEnds, ClientKilled, ClientClosed, ClientLost, A!Start,
         A!Accepted, A!Refused, A!ReadStdin, A!ShowData, A!ReceiveEnds, A!Killed,
         A!SocketCloses, A!Exit
    <3> QED BY <1>1, <3>1, ClientSteps DEF R!ClientLeaves, A!TypeOK
  <2>2. UNCHANGED <<agentUp, ws, session, mpc, remote, agentOf, lpc>>
    BY <1>1, ClientSteps DEF agentVars, relayOwn
  <2> QED BY <2>1, <2>2
<1>2. CASE RelayActs
  <2>1. UNCHANGED <<agentUp, ws, session, mpc, clientUp, apc, aws>>
    BY <1>2, RelayStep DEF agentVars, clientVars
  <2>2. remote'[C] # "none" => agentOf'[C] # 0
    <3>1. agentOf[C] # 0 => agentOf'[C] = agentOf[C]
      BY <1>2, AgentStays
    <3> QED BY <1>2, <3>1, RemoteKnown
  <2> QED BY <1>2, <2>1, <2>2, LoopsKnown
<1>3. CASE AgentConnects
  <2>1. /\ mpc = "down" /\ ws' = "up" /\ session' = session + 1 /\ mpc' = "receive"
        /\ session \in Nat /\ session' \in 1 .. MaxSessions
    BY <1>3, SystemOK DEF AgentConnects, E!Connect, AgentInv, E!EdgeInv, E!TypeOK
  <2>2. /\ agentUp' = agentUp \cup {session'}
        /\ UNCHANGED <<remote, agentOf, clientUp, apc, aws>>
        /\ lpc' = [lpc EXCEPT ![session'] = "receive"]
    BY <1>3 DEF AgentConnects, R!AgentJoins, R!Goto, clientVars, R!tableVars, R!remoteVars
  <2>3. agentUp = {}
    BY <2>1
  <2>4. \A a \in 1 .. MaxSessions : lpc'[a] # "absent" => a <= session'
    BY <2>1, <2>2 DEF RelayInv, R!TypeOK
  <2> QED BY <2>1, <2>2, <2>3, <2>4
<1>4. CASE AgentActs
  <2>1. UNCHANGED <<remote, agentOf, clientUp, apc, aws, lpc>>
    BY <1>4, AgentStep DEF clientVars, relayOwn
  <2>2. agentUp' = IF ws' = "up" THEN {session'} ELSE {}
    BY <1>4, AgentStep, SessionLasts DEF R!AgentLeaves, AgentInv, E!EdgeInv, E!TypeOK
  <2> QED BY <1>4, <2>1, <2>2, SessionLasts
<1>5. CASE UNCHANGED vars
  BY <1>5 DEF vars, clientVars, relayVars, agentVars
<1> QED BY <1>1, <1>2, <1>3, <1>4, <1>5, WhoseStep

-----------------------------------------------------------------------------
(* The messages under way.                                                 *)

LEMMA ChannelAppend ==
  ASSUME NEW M, NEW ch \in Seq(M), NEW m \in M
  PROVE  /\ Append(ch, m) \in Seq(M) /\ Append(ch, m) # <<>>
         /\ Len(ch) \in Nat /\ Len(Append(ch, m)) = Len(ch) + 1
         /\ \A i \in 1 .. Len(ch) : Append(ch, m)[i] = ch[i]
         /\ Append(ch, m)[Len(ch) + 1] = m
OBVIOUS

LEMMA ChannelTail ==
  ASSUME NEW M, NEW ch \in Seq(M), ch # <<>>
  PROVE  /\ Head(ch) = ch[1] /\ Head(ch) \in M /\ Tail(ch) \in Seq(M)
         /\ Len(ch) \in Nat /\ Len(ch) >= 1 /\ Len(Tail(ch)) = Len(ch) - 1
         /\ \A i \in 1 .. Len(ch) - 1 : Tail(ch)[i] = ch[i + 1]
OBVIOUS

LEMMA EmptyChannel == ASSUME NEW M PROVE <<>> \in Seq(M) /\ Len(<<>>) = 0
OBVIOUS

LEMMA ChunkOfOne ==
  /\ \A k \in Nat : <<k>> \in OneChunk
  /\ \A s \in OneChunk : s \in Seq(Nat) /\ Len(s) = 1 /\ s # <<>>
<1>1. ASSUME NEW k \in Nat PROVE <<k>> \in OneChunk
  <2>1. <<k>> \in Seq(Nat) /\ Len(<<k>>) = 1
    OBVIOUS
  <2> QED BY <2>1 DEF OneChunk
<1>2. ASSUME NEW s \in OneChunk PROVE s \in Seq(Nat) /\ Len(s) = 1 /\ s # <<>>
  <2>1. s \in Seq(Nat) /\ Len(s) = 1 /\ Len(<<>>) = 0 /\ 1 # 0
    BY <1>2 DEF OneChunk
  <2>2. s # <<>>
    BY <2>1, Zenon
  <2> QED BY <2>1, <2>2
<1> QED BY <1>1, <1>2

\* A chunk that is sent in a frame comes out of it.
LEMMA FrameOfChunk ==
  ASSUME NEW s \in OneChunk
  PROVE  /\ encode_tcp_binary_frame(Id, s) \in Frames
         /\ PayloadOf(encode_tcp_binary_frame(Id, s)) = s
<1>1. Id \in Seq(Nat) /\ Len(Id) = IdLength
  BY IdLengthOK DEF Id
<1>2. s \in Seq(Nat)
  BY ChunkOfOne
<1> DEFINE f == encode_tcp_binary_frame(Id, s)
<1>3. f \in Seq(Nat)
  BY <1>1, <1>2 DEF encode_tcp_binary_frame
<1>4. ~ TooShort(f) /\ IdOf(f) = Id /\ PayloadOf(f) = s
  BY <1>1, <1>2, DecodeUndoesEncode
<1> QED BY <1>3, <1>4 DEF Frames

\* What a step of the client does to its channels.
LEMMA ClientChannels ==
  ASSUME A!TypeOK, MessagesInv, ClientActs
  PROVE  /\ fromClient' \in Seq(ToRelayMessages) /\ toClient' \in Seq(ToClientMessages)
         /\ A!TypeOK'
<1> USE DEF MessagesInv, A!TypeOK
<1>1. CASE ClientStarts
  <2>1. Message("start", <<>>) \in ToRelayMessages
    BY DEF Message, ToRelayMessages
  <2> QED BY <1>1, <2>1, ChannelAppend DEF ClientStarts, ToRelay, A!Start
<1>2. CASE ClientTypes
  <2>1. typed' \in Nat /\ typed' \in 0 .. MaxTyped
    BY <1>2, SystemOK DEF ClientTypes, A!ReadStdin
  <2>2. Message("data", <<typed'>>) \in ToRelayMessages
    BY <2>1, ChunkOfOne DEF Message, ToRelayMessages
  <2> QED BY <1>2, <2>1, <2>2, ChannelAppend DEF ClientTypes, ToRelay, A!ReadStdin
<1>3. CASE ClientAccepted
  BY <1>3, ChannelTail DEF ClientAccepted, First, A!Accepted
<1>4. CASE ClientShows
  <2>1. toClient # <<>> /\ Head(toClient)[1] = "data"
    BY <1>4 DEF ClientShows, First
  <2>2. Head(toClient) \in ToClientMessages /\ Tail(toClient) \in Seq(ToClientMessages)
    BY <2>1, ChannelTail
  <2>3. Chunks(toClient) \in Seq(Nat)
    BY <2>1, <2>2 DEF Chunks, ToClientMessages
  <2>4. shown \o Chunks(toClient) \in Seq(Nat)
    BY <2>3
  <2> QED BY <1>4, <2>2, <2>4 DEF ClientShows, A!ShowData
<1>5. CASE ClientRefused \/ ClientEnds \/ ClientKilled
  BY <1>5, EmptyChannel DEF ClientRefused, ClientEnds, ClientKilled, A!Refused,
     A!ReceiveEnds, A!Killed, A!Exit
<1>6. CASE ClientClosed \/ ClientLost
  BY <1>6 DEF ClientClosed, ClientLost, A!SocketCloses
<1> QED BY <1>1, <1>2, <1>3, <1>4, <1>5, <1>6 DEF ClientActs


\* What a step of the relay does to the channels.
LEMMA RelayChannels ==
  ASSUME RelayInv, MeetInv, MessagesInv, RelayActs
  PROVE  MessagesInv'
<1> USE DEF MessagesInv, R!Goto, RelaySide
<1>t. /\ hpc \in [{C} -> R!HandlerPC] /\ hand[C] \in Seq(Nat)
      /\ UNCHANGED <<sent, wrote>>
  BY RelayStep, OneConnection DEF RelayInv, R!TypeOK, agentVars
<1>c. ASSUME NEW kind \in {"start_ok", "error"}, ToClient(kind, <<>>)
      PROVE  toClient' \in Seq(ToClientMessages)
  <2>1. Message(kind, <<>>) \in ToClientMessages
    BY DEF Message, ToClientMessages
  <2> QED BY <1>c, <2>1, ChannelAppend DEF ToClient
<1>a. ASSUME NEW kind \in {"initiate", "close"}, ToAgent(kind, <<>>)
      PROVE  toAgent' \in Seq(ToAgentMessages)
  <2>1. Message(kind, <<>>) \in ToAgentMessages
    BY DEF Message, ToAgentMessages
  <2> QED BY <1>a, <2>1, ChannelAppend DEF ToAgent
<1>h. ASSUME UNCHANGED carried, hpc'[C] = hpc[C] \/ hpc'[C] = "crashed"
             \/ (hpc[C] # "forward" /\ hpc[C] # "crashed" /\ hpc'[C] # "forward")
      PROVE  /\ carried' \in Seq(Nat) /\ (hpc'[C] = "forward" => carried' \in OneChunk)
             /\ carried' # <<>> => hpc'[C] \in {"forward", "crashed"}
  BY <1>h
<1>1. CASE RelayRejects
  <2>1. hpc[C] = "start" /\ hpc'[C] = "done"
    BY <1>1, <1>t DEF RelayRejects, R!RejectStart
  <2>2. toClient' \in Seq(ToClientMessages)
    BY <1>1, <1>c DEF RelayRejects
  <2> QED BY <1>1, <1>t, <1>h, <2>1, <2>2, EmptyChannel DEF RelayRejects
<1>2. CASE RelayAccepts
  <2>1. hpc[C] = "start" /\ hpc'[C] = "initiate"
    BY <1>2, <1>t DEF RelayAccepts, R!StartAccepted
  <2> QED BY <1>2, <1>t, <1>h, <2>1, ChannelTail DEF RelayAccepts, First
<1>3. CASE RelayInitiates
  <2>1. hpc[C] = "initiate" /\ hpc'[C] = "answer"
    BY <1>3, <1>t DEF RelayInitiates, R!InitiateSent
  <2> QED BY <1>3, <1>t, <1>h, <1>a, <2>1 DEF RelayInitiates
<1>4. CASE RelayConfirms
  <2>1. hpc[C] = "start_ok" /\ hpc'[C] = "receive"
    BY <1>4, <1>t DEF RelayConfirms, R!StartOK
  <2> QED BY <1>4, <1>t, <1>h, <1>c, <2>1 DEF RelayConfirms
<1>5. CASE RelayRefuses
  <2>1. hpc[C] = "refused" /\ hpc'[C] = "crashed"
    BY <1>5, <1>t DEF RelayRefuses, R!Refused, R!Crash
  <2> QED BY <1>5, <1>t, <1>h, <1>c, <2>1 DEF RelayRefuses
<1>6. CASE RelayReceives
  <2>1. hpc'[C] = "forward"
    BY <1>6, <1>t DEF RelayReceives, R!ReceiveData
  <2>2. fromClient # <<>> /\ Head(fromClient)[1] = "data"
    BY <1>6 DEF RelayReceives, First
  <2>3. Head(fromClient) \in ToRelayMessages /\ Tail(fromClient) \in Seq(ToRelayMessages)
    BY <2>2, ChannelTail
  <2>4. Chunks(fromClient) \in OneChunk
    BY <2>2, <2>3 DEF Chunks, ToRelayMessages
  <2> QED BY <1>6, <1>t, <2>1, <2>3, <2>4, ChunkOfOne DEF RelayReceives
<1>7. CASE RelayForwards
  <2>1. hpc[C] = "forward" /\ hpc'[C] = "receive"
    BY <1>7, <1>t DEF RelayForwards, R!Forwarded
  <2>2. Message("data", encode_tcp_binary_frame(Id, carried)) \in ToAgentMessages
    BY <2>1, FrameOfChunk DEF Message, ToAgentMessages
  <2> QED BY <1>7, <1>t, <2>1, <2>2, ChannelAppend, EmptyChannel DEF RelayForwards, ToAgent
<1>8. CASE RelayCloses
  <2>1. hpc'[C] = hpc[C] \/ (hpc[C] = "close" /\ hpc'[C] = "join")
    BY <1>8, <1>t DEF RelayCloses, R!HandlerClose, R!LoopClose
  <2>2. toAgent' \in Seq(ToAgentMessages)
    BY <1>8, <1>a DEF RelayCloses
  <2> QED BY <1>8, <1>t, <1>h, <2>1, <2>2 DEF RelayCloses
<1>9. CASE RelayDelivers
  <2>1. hpc' = hpc
    BY <1>9 DEF RelayDelivers, R!ReaderSent
  <2>2. Message("data", hand[C]) \in ToClientMessages
    BY <1>t DEF Message, ToClientMessages
  <2> QED BY <1>9, <1>t, <1>h, <2>1, <2>2, ChannelAppend DEF RelayDelivers, ToClient
<1>10. CASE RelayInternal
  <2>1. hpc'[C] = hpc[C] \/ hpc'[C] = "crashed"
        \/ (hpc[C] # "forward" /\ hpc[C] # "crashed" /\ hpc'[C] # "forward")
    BY <1>10, <1>t DEF RelayInternal, R!InitiateRaises, R!Answered, R!StartOKRaises,
       R!ForwardRaises, R!Disconnect, R!JoinTimeout, R!Joined, R!ReaderStart,
       R!ReaderWake, R!ReaderSendRaises, R!ReaderCancelled, R!RecvDisconnect, R!LoopDrop,
       R!Crash
  <2>2. fromClient' \in Seq(ToRelayMessages)
    BY <1>10, EmptyChannel DEF RelayInternal
  <2> QED BY <1>10, <1>t, <1>h, <2>1, <2>2 DEF RelayInternal
<1>11. CASE RelayTakesAnswer \/ RelayTakesData \/ RelayTakesReset \/ RelayTakesLate
  <2>1. hpc' = hpc
    BY <1>11 DEF RelayTakesAnswer, RelayTakesData, RelayTakesReset, RelayTakesLate,
       relayVars, R!RecvAnswer, R!RecvData, R!RecvReset
  <2>2. NextFromAgent # "none" /\ Take
    BY <1>11 DEF RelayTakesAnswer, RelayTakesData, RelayTakesReset, RelayTakesLate
  <2>3. taken < Len(sent[C])
    BY <2>2 DEF NextFromAgent
  <2>4. Len(sent[C]) \in Nat
    OBVIOUS
  <2>5. taken' \in 0 .. Len(sent[C])
    BY <2>2, <2>3, <2>4 DEF Take
  <2> QED BY <1>t, <1>h, <2>1, <2>2, <2>5 DEF Take
<1> QED BY <1>1, <1>2, <1>3, <1>4, <1>5, <1>6, <1>7, <1>8, <1>9, <1>10, <1>11 DEF RelayActs

\* What the agent has sent about the connection only grows: by an answer when it
\* was connected to or refused, by data that was read, by the resets of main task
\* and reader.
LEMMA AgentSends ==
  ASSUME AgentInv, AgentActs
  PROVE  \/ sent'[C] = sent[C]
         \/ /\ E!Connected(C) /\ sent'[C] = Append(sent[C], "ok")
         \/ /\ E!ConnectFails(C) /\ sent'[C] = Append(sent[C], "error")
         \/ /\ E!ReaderData(C) /\ sent'[C] = Append(sent[C], "data")
         \/ sent'[C] = Append(sent[C], "reset")
<1> USE OneConnection DEF AgentInv, E!EdgeInv, E!TypeOK
<1>0. ASSUME NEW m, E!Send(C, m)
      PROVE  sent'[C] = sent[C] \/ sent'[C] = Append(sent[C], m)
  BY <1>0 DEF E!Send
<1>1. CASE AgentInitiates \/ AgentWrites \/ AgentCloses \/ AgentTakesLate \/ AgentPeers
           \/ AgentFlushes
  BY <1>1 DEF AgentInitiates, AgentWrites, AgentCloses, AgentTakesLate, AgentPeers,
     AgentFlushes, E!Initiate, E!WriteData, E!RelayCloses, E!TargetEnds,
     E!TargetResets, E!TargetReads, E!RelayLost, agentVars
<1>2. CASE AgentReads
  BY <1>0, <1>2 DEF AgentReads, E!ReaderData
<1>3. CASE AgentInternal
  <2>1. CASE E!Connected(C) \/ E!ConnectFails(C)
    BY <1>0, <2>1 DEF E!Connected, E!ConnectFails
  <2>2. CASE E!DrainReset(C)
    BY <1>0, <2>2 DEF E!DrainReset
  <2>3. CASE E!Confirmed(C) \/ E!Reported \/ E!Drained(C) \/ E!DrainFails(C)
             \/ E!MainSendRaises \/ E!ReceiveRaises \/ E!CleanUp
             \/ E!ReaderSent(C) \/ E!ReaderDone(C)
    BY <2>3 DEF E!Confirmed, E!Reported, E!Drained, E!DrainFails, E!MainSendRaises,
       E!ReceiveRaises, E!CleanUp, E!ReaderSent, E!ReaderDone
  <2>4. CASE E!ReaderEnds(C) \/ E!ReaderSendRaises(C)
    BY <1>0, <2>4 DEF E!ReaderEnds, E!ReaderSendRaises, E!Finally
  <2> QED BY <1>3, <2>1, <2>2, <2>3, <2>4 DEF AgentInternal
<1> QED BY <1>1, <1>2, <1>3 DEF AgentActs

LEMMA SentGrows ==
  ASSUME AgentInv, AgentActs \/ AgentConnects
  PROVE  Len(sent[C]) \in Nat /\ Len(sent'[C]) \in Nat /\ Len(sent'[C]) >= Len(sent[C])
<1>1. sent[C] \in Seq({"ok", "error", "data", "reset"})
  BY OneConnection DEF AgentInv, E!EdgeInv, E!TypeOK
<1>2. CASE sent'[C] = sent[C]
  BY <1>1, <1>2
<1>3. ASSUME NEW m \in {"ok", "error", "data", "reset"}, sent'[C] = Append(sent[C], m)
      PROVE  Len(sent[C]) \in Nat /\ Len(sent'[C]) \in Nat /\ Len(sent'[C]) >= Len(sent[C])
  BY <1>1, <1>3, ChannelAppend
<1>4. CASE AgentConnects
  BY <1>1, <1>4 DEF AgentConnects, E!Connect
<1> QED BY <1>2, <1>3, <1>4, AgentSends

\* The messages under way keep their types.
LEMMA MessagesStep ==
  ASSUME ComponentInv, MessagesInv, [Next]_vars
  PROVE  MessagesInv' /\ A!TypeOK'
<1> USE DEF ComponentInv
<1>1. CASE ClientActs
  <2>1. UNCHANGED <<hpc, sent, toAgent, carried, taken>>
    BY <1>1, ClientSteps DEF relayOwn, agentVars
  <2> QED BY <1>1, <2>1, ClientChannels DEF MessagesInv
<1>2. CASE RelayActs
  BY <1>2, RelayStep, RelayChannels DEF A!TypeOK, clientVars
<1>3. CASE AgentConnects
  <2>1. UNCHANGED <<clientVars, channels, hpc>>
    BY <1>3 DEF AgentConnects, R!AgentJoins
  <2> QED BY <1>3, <2>1, SentGrows DEF MessagesInv, A!TypeOK, clientVars, channels
<1>4. CASE AgentActs
  <2>1. UNCHANGED <<clientVars, fromClient, toClient, carried, taken, hpc>>
    BY <1>4, AgentStep DEF relayOwn
  <2>2. toAgent' \in Seq(ToAgentMessages)
    BY <1>4, ChannelTail, EmptyChannel DEF AgentActs, AgentInitiates, AgentWrites,
       AgentCloses, AgentTakesLate, AgentInternal, AgentReads, AgentPeers, AgentFlushes,
       First, MessagesInv
  <2> QED BY <1>4, <2>1, <2>2, SentGrows DEF MessagesInv, A!TypeOK, clientVars
<1>5. CASE UNCHANGED vars
  BY <1>5 DEF vars, clientVars, relayVars, agentVars, channels, MessagesInv, A!TypeOK
<1> QED BY <1>1, <1>2, <1>3, <1>4, <1>5, WhoseStep


-----------------------------------------------------------------------------
(* The types, and what carries over from the components.                   *)

\* The components as they are proved alone, and well-formed messages between them.
CoreInv == ComponentInv /\ MessagesInv

LEMMA CoreInit == Init => CoreInv
<1> SUFFICES ASSUME Init PROVE CoreInv
  OBVIOUS
<1>1. RelayInv
  BY R!InitType, R!SessionInit, R!ReturnInit, R!StreamInit, R!WakeupInit, R!OrphanInit,
     R!WaitInit, RelayConstants DEF Init, RelayInv
<1>2. AgentInv
  BY E!EdgeInit, E!AnswersInit, E!EndInit, AgentConstants DEF Init, AgentInv
<1>3. A!TypeOK /\ MeetInv
  BY SystemOK DEF Init, A!Init, R!Init, E!Init, A!TypeOK, MeetInv, C
<1>4. MessagesInv
  BY EmptyChannel, OneConnection DEF Init, MessagesInv, E!Init, R!Init
<1> QED BY <1>1, <1>2, <1>3, <1>4 DEF CoreInv, ComponentInv

LEMMA CoreStep == CoreInv /\ [Next]_vars => CoreInv'
<1> SUFFICES ASSUME CoreInv, [Next]_vars PROVE CoreInv'
  OBVIOUS
<1>1. RelayInv'
  <2>1. [R!Next]_(R!vars) /\ RelayInv
    BY RelaySteps DEF CoreInv, ComponentInv
  <2> QED BY <2>1, RelayConstants, R!TypeInductive, R!SessionInductive,
             R!ReturnInductive, R!StreamInductive, R!WakeupInductive,
             R!OrphanInductive, R!WaitInductive DEF RelayInv, R!SessionInv
<1>2. AgentInv'
  <2>1. [E!Next]_(E!vars) /\ AgentInv
    BY AgentSteps DEF CoreInv, ComponentInv
  <2> QED BY <2>1, AgentConstants, E!EdgeStep, E!AnswerStep, E!EndStep DEF AgentInv
<1>3. MessagesInv' /\ A!TypeOK' /\ MeetInv'
  BY MessagesStep, MeetStep DEF CoreInv, ComponentInv
<1> QED BY <1>1, <1>2, <1>3 DEF CoreInv, ComponentInv

LEMMA CoreHolds == Spec => []CoreInv
<1> QED BY CoreInit, CoreStep, PTL DEF Spec

\* All variables keep their types, the channels hold messages, and both ends of a
\* WebSocket agree on whether it is up.
THEOREM TypeCorrect == Spec => []TypeOK
<1>1. CoreInv => TypeOK
  <2> SUFFICES ASSUME CoreInv PROVE TypeOK
    OBVIOUS
  <2>1. ASSUME NEW M, NEW K, M \subseteq K \X Seq(Nat), NEW ch \in Seq(M),
               NEW i \in 1 .. Len(ch)
        PROVE  Len(ch[i]) = 2
    <3>1. ch[i] \in K \X Seq(Nat)
      BY <2>1
    <3> QED BY <3>1
  <2>2. OneChunk \subseteq Seq(Nat) /\ Frames \subseteq Seq(Nat) /\ <<>> \in Seq(Nat)
    BY DEF OneChunk, Frames
  <2>3. /\ ToRelayMessages \subseteq {"start", "data"} \X Seq(Nat)
        /\ ToClientMessages \subseteq {"start_ok", "error", "data"} \X Seq(Nat)
        /\ ToAgentMessages \subseteq {"initiate", "close", "data"} \X Seq(Nat)
    BY <2>2 DEF ToRelayMessages, ToClientMessages, ToAgentMessages
  <2>4. \A channel \in {fromClient, toClient, toAgent} :
          \A i \in 1 .. Len(channel) : Len(channel[i]) = 2
    BY <2>1, <2>3 DEF CoreInv, MessagesInv
  <2> QED BY <2>4 DEF TypeOK, CoreInv, ComponentInv, RelayInv, AgentInv, E!EdgeInv,
                      MeetInv, MessagesInv
<1> QED BY <1>1, CoreHolds, PTL

\* Composed with real peers, the relay and the agent do only what their own
\* modules allow: a safety property of a module holds of its part in the system.
THEOREM ComponentsImplemented == Spec => R!Spec /\ E!Spec
<1>1. Init => R!Init /\ E!Init
  BY DEF Init
<1>2. CoreInv /\ [Next]_vars => [R!Next]_(R!vars) /\ [E!Next]_(E!vars)
  BY RelaySteps, AgentSteps DEF CoreInv
<1> QED BY <1>1, <1>2, CoreHolds, PTL DEF Spec, R!Spec, E!Spec

-----------------------------------------------------------------------------
(* Telling the client.                                                     *)

\* A loop drops a connection after it has closed the client's socket.
LEMMA CloseStep ==
  ASSUME CoreInv, CloseInv, [Next]_vars
  PROVE  CloseInv'
<1>1. ASSUME UNCHANGED <<lpc, cur>>, wsClosed \subseteq wsClosed' PROVE CloseInv'
  BY <1>1 DEF CloseInv
<1>2. ASSUME NEW a \in 1 .. MaxSessions, wsClosed \subseteq wsClosed',
             \A b \in 1 .. MaxSessions \ {a} : lpc'[b] = lpc[b] /\ cur'[b] = cur[b],
             lpc'[a] # "drop" \/ cur'[a] \in wsClosed'
      PROVE  CloseInv'
  BY <1>2 DEF CloseInv
<1>t. /\ lpc \in [1 .. MaxSessions -> R!LoopPC]
      /\ cur \in [1 .. MaxSessions -> {C} \cup {0}]
  BY DEF CoreInv, ComponentInv, RelayInv, R!TypeOK
<1>3. CASE R!HandlerStep(C)
  BY <1>1, <1>3 DEF R!loopVars, R!socketVars, R!HandlerStep, R!RejectStart,
     R!StartAccepted, R!InitiateSent, R!InitiateRaises, R!Answered, R!StartOK,
     R!StartOKRaises, R!Refused, R!ReceiveData, R!MessageRaises, R!Forwarded,
     R!ForwardRaises, R!Disconnect, R!HandlerClose, R!JoinTimeout, R!Joined, R!Crash
<1>4. CASE R!ReaderStep(C)
  BY <1>1, <1>4 DEF R!loopVars, R!socketVars, R!ReaderStep, R!ReaderStart,
       R!ReaderWake, R!ReaderSent, R!ReaderSendRaises, R!ReaderCancelled
<1>5. ASSUME NEW a \in 1 .. MaxSessions, R!LoopStep(a) PROVE CloseInv'
  <2>0. ASSUME NEW todo, R!CloseNext(a, todo), wsClosed \subseteq wsClosed' PROVE CloseInv'
    <3>1. \E l, c : /\ lpc' = [lpc EXCEPT ![a] = l] /\ cur' = [cur EXCEPT ![a] = c]
                    /\ l # "drop"
      BY <2>0 DEF R!CloseNext, R!Goto
    <3> QED BY <1>2, <1>t, <2>0, <3>1
  <2>1. CASE R!RecvAnswer(a, C) \/ R!RecvData(a, C)
    BY <1>1, <2>1 DEF R!RecvAnswer, R!RecvData, R!loopVars, R!socketVars
  <2>6. CASE R!LoopRaises(a)
    <3>1. lpc' = [lpc EXCEPT ![a] = "raised"] /\ UNCHANGED <<cur, wsClosed>>
      BY <2>6 DEF R!LoopRaises, R!Goto, R!socketVars
    <3> QED BY <1>2, <1>t, <3>1
  <2>2. CASE R!RecvReset(a, C)
    <3>1. CASE C \in relayed
      <4>1. /\ wsClosed' = wsClosed /\ lpc' = [lpc EXCEPT ![a] = "close"]
            /\ cur' = [cur EXCEPT ![a] = C]
        BY <2>2, <3>1 DEF R!RecvReset, R!socketVars, R!Goto
      <4> QED BY <1>2, <1>t, <4>1
    <3>2. CASE C \notin relayed
      BY <1>1, <2>2, <3>2 DEF R!RecvReset, R!socketVars
    <3> QED BY <3>1, <3>2
  <2>3. CASE R!RecvDisconnect(a)
    BY <2>0, <2>3 DEF R!RecvDisconnect, R!socketVars
  <2>4. CASE R!LoopClose(a)
    <3>1. CASE cur[a] \in accessClients
      <4>1. /\ wsClosed' = wsClosed \cup {cur[a]} /\ cur' = cur
            /\ lpc' = [lpc EXCEPT ![a] = "drop"]
        BY <2>4, <3>1 DEF R!LoopClose, R!Goto
      <4> QED BY <1>2, <1>t, <4>1
    <3>2. CASE cur[a] \notin accessClients
      BY <2>0, <2>4, <3>2 DEF R!LoopClose
    <3> QED BY <3>1, <3>2
  <2>5. CASE R!LoopDrop(a)
    BY <2>0, <2>5 DEF R!LoopDrop, R!socketVars
  <2> QED BY <1>5, <2>1, <2>2, <2>3, <2>4, <2>5, <2>6 DEF R!LoopStep
<1>6. CASE RelayActs
  <2>1. CASE UNCHANGED relayVars
    BY <1>1, <2>1 DEF relayVars
  <2> QED BY <1>3, <1>4, <1>5, <1>6, <2>1, RelayStep DEF CoreInv, ComponentInv
<1>7. CASE AgentConnects
  <2>1. session' \in 1 .. MaxSessions
    BY <1>7, SystemOK DEF AgentConnects, E!Connect, CoreInv, ComponentInv, AgentInv,
                          E!EdgeInv, E!TypeOK
  <2>2. /\ wsClosed' = wsClosed /\ cur' = cur
        /\ lpc' = [lpc EXCEPT ![session'] = "receive"]
    BY <1>7 DEF AgentConnects, R!AgentJoins, R!Goto
  <2> QED BY <1>2, <1>t, <2>1, <2>2
<1>8. CASE ClientActs \/ AgentActs
  BY <1>1, <1>8, ClientSteps, AgentStep DEF relayOwn
<1>9. CASE UNCHANGED vars
  BY <1>1, <1>9 DEF vars, relayVars
<1> QED BY <1>6, <1>7, <1>8, <1>9, WhoseStep

\* Whatever drops a registered client's connection, the client's own socket is
\* closed or broken by then.
LEMMA DropTold ==
  ASSUME CoreInv, CloseInv, Next, C \in accessClients, C \in relayed, C \notin relayed'
  PROVE  C \in wsClosed' \/ aws' = "closed"
<1>0. RelayInv /\ MeetInv
  BY DEF CoreInv, ComponentInv
<1>1. RelayActs
  <2>1. AgentConnects => UNCHANGED relayed
    BY DEF AgentConnects, R!AgentJoins, R!tableVars
  <2>2. ClientActs \/ AgentActs => UNCHANGED relayed
    BY ClientSteps, AgentStep DEF relayOwn
  <2> QED BY <2>1, <2>2, WhoseStep
<1>2. aws' = aws /\ (C \notin clientUp => aws = "closed")
  BY <1>0, <1>1, RelayStep DEF clientVars, MeetInv
<1>3. CASE R!HandlerStep(C)
  <2>1. R!Disconnect(C) \/ R!HandlerClose(C)
    BY <1>3 DEF R!HandlerStep, R!tableVars, R!RejectStart, R!StartAccepted, R!InitiateSent,
       R!InitiateRaises, R!Answered, R!StartOK, R!StartOKRaises, R!Refused, R!ReceiveData,
       R!MessageRaises, R!Forwarded, R!ForwardRaises, R!JoinTimeout, R!Joined
  <2> QED BY <1>2, <2>1 DEF R!Disconnect, R!HandlerClose, R!socketVars
<1>4. CASE R!ReaderStep(C)
  <2>1. R!ReaderSendRaises(C) \/ R!ReaderCancelled(C)
    BY <1>4 DEF R!ReaderStep, R!tableVars, R!ReaderStart, R!ReaderWake, R!ReaderSent
  <2>2. ~ R!ReaderCancelled(C)
    BY <1>0, OneConnection DEF R!ReaderCancelled, RelayInv, R!ReturnInv
  <2> QED BY <1>2, <2>1, <2>2 DEF R!ReaderSendRaises, R!socketVars
<1>5. ASSUME NEW a \in 1 .. MaxSessions, R!LoopStep(a) PROVE C \in wsClosed'
  <2>1. R!LoopDrop(a)
    BY <1>5 DEF R!LoopStep, R!tableVars, R!RecvAnswer, R!RecvData, R!RecvReset,
       R!RecvDisconnect, R!LoopRaises, R!LoopClose, R!Drop
  <2>2. lpc[a] = "drop" /\ C = cur[a] /\ wsClosed' = wsClosed
    BY <2>1 DEF R!LoopDrop, R!Drop, R!socketVars
  <2> QED BY <2>2 DEF CloseInv
<1>6. CASE UNCHANGED relayVars
  BY <1>6 DEF relayVars
<1> QED BY <1>0, <1>1, <1>3, <1>4, <1>5, <1>6, RelayStep

\* Whatever drops a registered client's connection, the client's own socket is
\* closed or broken by then.
THEOREM DropTellsClientHolds == Spec => DropTellsClient
<1>1. Init => CloseInv
  BY DEF Init, R!Init, CloseInv
<1> DEFINE Told == (C \in accessClients \cap relayed /\ C \notin relayed')
                     => (C \in wsClosed' \/ aws' = "closed")
<1>2. CoreInv /\ CloseInv /\ [Next]_vars => [Told]_vars
  BY DropTold DEF Told
<1>3. CoreInv /\ CloseInv /\ [Next]_vars => CloseInv'
  BY CloseStep
<1> QED BY <1>1, <1>2, <1>3, CoreHolds, PTL DEF Spec, DropTellsClient, Told

-----------------------------------------------------------------------------
(* The order of the messages to the client.                                *)

\* The ways of the handler.
LEMMA HandlerMoves ==
  ASSUME RelayInv, MeetInv, RelayActs
  PROVE  \/ hpc'[C] = hpc[C]
         \/ RelayRejects /\ hpc[C] = "start" /\ hpc'[C] = "done"
         \/ RelayAccepts /\ hpc[C] = "start" /\ hpc'[C] = "initiate"
         \/ RelayInitiates /\ hpc[C] = "initiate" /\ hpc'[C] = "answer"
         \/ /\ hpc[C] = "answer"
            /\ \/ answers[C] = "ok" /\ hpc'[C] = "start_ok"
               \/ answers[C] = "error" /\ hpc'[C] = "refused"
         \/ RelayConfirms /\ hpc[C] = "start_ok" /\ hpc'[C] = "receive"
         \/ RelayReceives /\ hpc[C] = "receive" /\ hpc'[C] = "forward"
         \/ RelayForwards /\ hpc[C] = "forward" /\ hpc'[C] = "receive"
         \/ hpc[C] \in {"initiate", "start_ok", "refused", "forward"} /\ hpc'[C] = "crashed"
         \/ /\ hpc[C] \in {"receive", "close", "join", "cancel_join"}
            /\ hpc'[C] \in {"close", "join", "cancel_join", "done"}
<1> USE DEF R!Goto
<1>t. hpc \in [{C} -> R!HandlerPC] /\ C \in {C}
  BY OneConnection DEF RelayInv, R!TypeOK
<1>1. CASE RelayRejects
  BY <1>1, <1>t DEF RelayRejects, R!RejectStart
<1>2. CASE RelayAccepts
  BY <1>2, <1>t DEF RelayAccepts, R!StartAccepted
<1>3. CASE RelayInitiates
  BY <1>3, <1>t DEF RelayInitiates, R!InitiateSent
<1>4. CASE RelayConfirms
  BY <1>4, <1>t DEF RelayConfirms, R!StartOK
<1>5. CASE RelayRefuses
  BY <1>5, <1>t DEF RelayRefuses, R!Refused, R!Crash
<1>6. CASE RelayReceives
  BY <1>6, <1>t DEF RelayReceives, R!ReceiveData
<1>7. CASE RelayForwards
  BY <1>7, <1>t DEF RelayForwards, R!Forwarded
<1>8. CASE RelayCloses
  BY <1>8, <1>t DEF RelayCloses, R!HandlerClose, R!LoopClose
<1>9. CASE RelayDelivers
  BY <1>9 DEF RelayDelivers, R!ReaderSent
<1>10. CASE RelayInternal
  <2>1. CASE R!Answered(C)
    BY <2>1, <1>t DEF R!Answered
  <2>2. CASE R!InitiateRaises(C) \/ R!StartOKRaises(C) \/ R!ForwardRaises(C)
    BY <2>2, <1>t DEF R!InitiateRaises, R!StartOKRaises, R!ForwardRaises, R!Crash
  <2>3. CASE R!Disconnect(C) \/ R!JoinTimeout(C) \/ R!Joined(C)
    BY <2>3, <1>t DEF R!Disconnect, R!JoinTimeout, R!Joined
  <2>4. CASE R!ReaderStart(C) \/ R!ReaderWake(C) \/ R!ReaderSendRaises(C)
             \/ R!ReaderCancelled(C)
    BY <2>4 DEF R!ReaderStart, R!ReaderWake, R!ReaderSendRaises, R!ReaderCancelled
  <2>5. CASE \E a \in 1 .. MaxSessions : R!RecvDisconnect(a) \/ R!LoopDrop(a)
    BY <2>5 DEF R!RecvDisconnect, R!LoopDrop
  <2> QED BY <1>10, <2>1, <2>2, <2>3, <2>4, <2>5 DEF RelayInternal
<1>11. CASE RelayTakesAnswer \/ RelayTakesData \/ RelayTakesReset \/ RelayTakesLate
  BY <1>11 DEF RelayTakesAnswer, RelayTakesData, RelayTakesReset, RelayTakesLate,
     relayVars, R!RecvAnswer, R!RecvData, R!RecvReset
<1> QED BY <1>1, <1>2, <1>3, <1>4, <1>5, <1>6, <1>7, <1>8, <1>9, <1>10, <1>11 DEF RelayActs

\* A reader is started when the client is told, and by nothing else.
LEMMA ReaderMoves ==
  ASSUME RelayInv, MeetInv, RelayActs, rpc'[C] # "none"
  PROVE  rpc[C] # "none" \/ RelayConfirms
<1>1. CASE R!ReaderStep(C)
  BY <1>1 DEF R!ReaderStep, R!ReaderStart, R!ReaderWake, R!ReaderSent, R!ReaderSendRaises,
     R!ReaderCancelled, RelayInv, R!SessionInv, R!ProgressInv, C
<1>2. ASSUME NEW a \in 1 .. MaxSessions, R!LoopStep(a) PROVE rpc' = rpc
  BY <1>2 DEF R!LoopStep, R!RecvAnswer, R!RecvData, R!RecvReset, R!RecvDisconnect,
     R!LoopRaises, R!LoopClose, R!LoopDrop, R!readerVars
<1>3. CASE RelayConfirms
  BY <1>3
<1>4. CASE R!HandlerStep(C) /\ ~ R!StartOK(C)
  BY <1>4 DEF R!readerVars, R!HandlerStep, R!RejectStart, R!StartAccepted, R!InitiateSent,
     R!InitiateRaises, R!Answered, R!StartOKRaises, R!Refused, R!ReceiveData,
     R!MessageRaises, R!Forwarded, R!ForwardRaises, R!Disconnect, R!HandlerClose,
     R!JoinTimeout, R!Joined
<1>5. CASE UNCHANGED relayVars
  BY <1>5 DEF relayVars
<1>6. CASE R!StartOK(C) /\ ~ RelayConfirms
  <2>1. hpc[C] = "start_ok" /\ hpc'[C] = "receive"
    BY <1>6, OneConnection DEF R!StartOK, R!Goto, RelayInv, R!TypeOK
  <2> QED BY <1>6, <2>1, HandlerMoves
<1> QED BY <1>1, <1>2, <1>3, <1>4, <1>5, <1>6, RelayStep


\* The client's steps keep the order of what it receives.
LEMMA OrderClient ==
  ASSUME CoreInv, ClientInv, ClientActs
  PROVE  ClientInv'
<1> USE DEF ClientInv
<1>r. UNCHANGED <<hpc, rpc>> /\ (hpc[C] = "start" => rpc[C] = "none")
  BY ClientSteps, OneConnection DEF relayOwn, CoreInv, ComponentInv, RelayInv, R!SessionInv,
     R!ProgressInv
<1>m. MeetInv
  BY DEF CoreInv, ComponentInv
<1>1. CASE ClientStarts
  BY <1>1, <1>r DEF ClientStarts, A!Start
<1>2. CASE ClientTypes
  BY <1>2, <1>r DEF ClientTypes, A!ReadStdin
<1>3. CASE ClientAccepted \/ ClientShows
  <2>1. /\ toClient # <<>> /\ toClient' = Tail(toClient) /\ apc' = "pump"
        /\ apc \in {"answer", "pump"}
    BY <1>3 DEF ClientAccepted, ClientShows, First, A!Accepted, A!ShowData
  <2>2. /\ Len(toClient) \in Nat /\ Len(toClient') = Len(toClient) - 1
        /\ \A i \in 1 .. Len(toClient) - 1 : toClient'[i] = toClient[i + 1]
    BY <2>1, ChannelTail DEF CoreInv, MessagesInv
  <2>3. ASSUME NEW i \in 1 .. Len(toClient') PROVE toClient'[i][1] = "data"
    <3>1. i + 1 \in 1 .. Len(toClient) /\ i + 1 # 1 /\ toClient'[i] = toClient[i + 1]
      BY <2>2
    <3> QED BY <3>1
  <2> QED BY <1>r, <2>1, <2>3
<1>4. CASE ClientRefused \/ ClientEnds \/ ClientKilled
  <2>1. apc' = "done" /\ toClient' = <<>>
    BY <1>4 DEF ClientRefused, ClientEnds, ClientKilled, A!Refused, A!ReceiveEnds, A!Killed,
       A!Exit
  <2> QED BY <1>r, <2>1
<1>5. CASE ClientClosed \/ ClientLost
  BY <1>5, <1>r DEF ClientClosed, ClientLost, A!SocketCloses
<1> QED BY <1>1, <1>2, <1>3, <1>4, <1>5 DEF ClientActs

\* The relay answers once, and sends data only after it.
LEMMA OrderRelay ==
  ASSUME CoreInv, ClientInv, RelayActs
  PROVE  ClientInv'
<1> USE DEF ClientInv, BeforeAnswer
<1>c. RelayInv /\ MeetInv /\ toClient \in Seq(ToClientMessages) /\ Len(toClient) \in Nat
  BY DEF CoreInv, ComponentInv, MessagesInv
<1>u. UNCHANGED <<apc, aws>>
  BY <1>c, RelayStep DEF clientVars
<1>p. /\ hpc[C] \in BeforeAnswer => rpc[C] = "none"
      /\ apc = "start" => aws = "none"
      /\ apc = "done" => aws = "closed"
      /\ C \in clientUp <=> aws # "closed"
      /\ apc \in {"start", "answer", "pump", "done"}
      /\ aws \in {"none", "up", "closed"}
      /\ aws = "none" => apc = "start"
  BY OneConnection DEF CoreInv, ComponentInv, RelayInv, R!SessionInv, R!ProgressInv,
     MeetInv, A!TypeOK
<1>b. hpc'[C] \in BeforeAnswer => hpc[C] \in BeforeAnswer
  BY <1>c, HandlerMoves
<1>s. apc = "start" => hpc'[C] = "start" /\ fromClient' = <<>>
  <2> SUFFICES ASSUME apc = "start" PROVE hpc'[C] = "start" /\ fromClient' = <<>>
    OBVIOUS
  <2>1. hpc[C] = "start" /\ fromClient = <<>> /\ aws # "closed"
    BY <1>p
  <2>2. ~ RelayRejects /\ ~ RelayAccepts /\ ~ RelayReceives
    BY <2>1 DEF RelayRejects, RelayAccepts, RelayReceives, First
  <2>3. hpc'[C] = "start"
    BY <1>c, <2>1, <2>2, HandlerMoves
  <2>4. fromClient' = fromClient
    BY <2>2, <2>3 DEF RelayActs, RelayInitiates, RelayConfirms, RelayRefuses, RelayForwards,
       RelayCloses, RelayDelivers, RelayInternal, RelayTakesAnswer, RelayTakesData,
       RelayTakesReset, RelayTakesLate, Take, Receiving
  <2> QED BY <2>1, <2>3, <2>4
<1>1. CASE toClient' = toClient /\ ~ RelayConfirms
  BY <1>c, <1>u, <1>b, <1>s, <1>1, ReaderMoves
<1>2. ASSUME NEW kind \in {"start_ok", "error"}, ToClient(kind, <<>>),
             hpc[C] \in BeforeAnswer, hpc'[C] \notin BeforeAnswer, apc # "start"
      PROVE  ClientInv'
  <2>1. toClient = <<>> /\ apc # "pump"
    BY <1>2
  <2>2. Message(kind, <<>>)[1] = kind
    BY DEF Message
  <2>3. CASE aws = "closed"
    BY <1>p, <1>u, <1>2, <2>1, <2>3 DEF ToClient
  <2>4. CASE aws # "closed"
    <3>1. apc = "answer" /\ toClient' = Append(<<>>, Message(kind, <<>>))
      BY <1>p, <1>2, <2>1, <2>4 DEF ToClient
    <3>2. toClient' # <<>> /\ Len(toClient') = 1 /\ toClient'[1] = Message(kind, <<>>)
      BY <3>1
    <3> QED BY <1>u, <1>2, <2>2, <3>1, <3>2
  <2> QED BY <2>3, <2>4
<1>3. CASE RelayRejects
  <2>1. hpc[C] = "start" /\ hpc'[C] = "done"
    BY <1>3, OneConnection DEF RelayRejects, R!RejectStart, R!Goto, CoreInv, ComponentInv,
       RelayInv, R!TypeOK
  <2>2. apc # "start"
    BY <1>3, <1>p DEF RelayRejects, First
  <2>3. CASE toClient' = toClient
    BY <1>1, <2>1, <2>3 DEF RelayConfirms, R!StartOK
  <2>4. CASE ToClient("error", <<>>)
    BY <1>2, <2>1, <2>2, <2>4
  <2> QED BY <1>3, <2>3, <2>4 DEF RelayRejects
<1>4. CASE RelayConfirms \/ RelayRefuses
  <2>1. hpc[C] \in {"start_ok", "refused"} /\ hpc'[C] \in {"receive", "crashed"}
    BY <1>4, OneConnection DEF RelayConfirms, RelayRefuses, R!StartOK, R!Refused, R!Crash,
       R!Goto, CoreInv, ComponentInv, RelayInv, R!TypeOK
  <2> QED BY <1>2, <1>4, <2>1 DEF RelayConfirms, RelayRefuses
<1>5. CASE RelayDelivers
  <2>1. rpc[C] = "send" /\ hpc' = hpc /\ ToClient("data", hand[C])
    BY <1>5 DEF RelayDelivers, R!ReaderSent
  <2>2. hpc[C] \notin BeforeAnswer /\ apc # "start"
    BY <1>p, <2>1
  <2>3. CASE aws = "closed"
    BY <1>p, <1>u, <2>1, <2>2, <2>3 DEF ToClient
  <2>4. CASE aws # "closed"
    <3> DEFINE m == Message("data", hand[C])
    <3>1. /\ apc = "answer" => toClient # <<>>
          /\ apc \in {"answer", "pump"} /\ toClient' = Append(toClient, m)
      BY <1>p, <2>1, <2>2, <2>4 DEF ToClient
    <3>2. m \in ToClientMessages /\ m[1] = "data"
      BY OneConnection DEF Message, ToClientMessages, CoreInv, ComponentInv, RelayInv,
                           R!TypeOK
    <3> HIDE DEF m
    <3>3. /\ toClient' # <<>> /\ Len(toClient') = Len(toClient) + 1
          /\ \A i \in 1 .. Len(toClient) : toClient'[i] = toClient[i]
          /\ toClient'[Len(toClient) + 1] = m
      BY <1>c, <3>1, <3>2, ChannelAppend
    <3>4. ASSUME NEW i \in 1 .. Len(toClient')
          PROVE  IF apc = "answer" /\ i = 1 THEN toClient'[i][1] \in {"start_ok", "error"}
                                            ELSE toClient'[i][1] = "data"
      <4>1. CASE i \in 1 .. Len(toClient)
        BY <3>3, <4>1
      <4>2. CASE i = Len(toClient) + 1
        <5>1. apc = "answer" => i # 1
          <6>1. Len(toClient) = 0 => toClient = <<>>
            BY <1>c
          <6> QED BY <1>c, <3>1, <4>2, <6>1
        <5> QED BY <3>2, <3>3, <4>2, <5>1
      <4> QED BY <1>c, <3>3, <4>1, <4>2
    <3> QED BY <1>u, <2>1, <2>2, <3>1, <3>3, <3>4
  <2> QED BY <2>3, <2>4
<1>6. CASE ~(RelayRejects \/ RelayConfirms \/ RelayRefuses \/ RelayDelivers)
  <2>1. toClient' = toClient
    BY <1>6 DEF RelayActs, RelayAccepts, RelayInitiates, RelayReceives, RelayForwards,
       RelayCloses, RelayInternal, RelayTakesAnswer, RelayTakesData,
       RelayTakesReset, RelayTakesLate, Take
  <2> QED BY <1>1, <1>6, <2>1
<1> QED BY <1>3, <1>4, <1>5, <1>6

LEMMA OrderStep ==
  ASSUME CoreInv, ClientInv, [Next]_vars
  PROVE  ClientInv'
<1>1. CASE AgentConnects
  BY <1>1 DEF AgentConnects, R!AgentJoins, R!readerVars, clientVars, channels, ClientInv
<1>2. CASE AgentActs
  BY <1>2, AgentStep DEF relayOwn, clientVars, ClientInv
<1>3. CASE UNCHANGED vars
  BY <1>3 DEF vars, clientVars, relayVars, channels, ClientInv
<1> QED BY <1>1, <1>2, <1>3, OrderClient, OrderRelay, WhoseStep


-----------------------------------------------------------------------------
(* The order of the messages to and from the agent.                        *)

\* The agent's end of the connection goes one way.
LEMMA RemoteMoves ==
  ASSUME RelayInv, MeetInv, RelayActs
  PROVE  \/ UNCHANGED <<remote, emitted>>
            /\ ~(RelayTakesAnswer \/ RelayTakesData \/ RelayTakesReset)
         \/ /\ RelayInitiates /\ remote[C] = "none" /\ UNCHANGED emitted
            /\ IF agentOf[C] \in agentUp THEN remote'[C] = "asked" ELSE UNCHANGED remote
         \/ /\ RelayTakesAnswer /\ remote[C] = "asked" /\ UNCHANGED emitted
            /\ remote'[C] = IF NextFromAgent = "ok" THEN "open" ELSE "refused"
         \/ /\ RelayTakesData /\ remote[C] = "open" /\ UNCHANGED remote
            /\ emitted'[C] = emitted[C] + 1
         \/ /\ RelayTakesReset /\ remote[C] = "open" /\ remote'[C] = "ended"
            /\ UNCHANGED emitted
<1>t. /\ remote \in [{C} -> R!RemoteState] /\ C \in {C}
      /\ emitted \in [{C} -> 0 .. MaxEmitted]
  BY OneConnection DEF RelayInv, R!TypeOK
<1>1. CASE RelayRejects \/ RelayAccepts \/ RelayConfirms \/ RelayRefuses \/ RelayReceives
           \/ RelayForwards \/ RelayCloses \/ RelayDelivers \/ RelayInternal
           \/ RelayTakesLate
  <2>1. UNCHANGED <<remote, emitted>>
    <3>1. CASE RelayRejects \/ RelayAccepts \/ RelayConfirms \/ RelayRefuses
               \/ RelayReceives \/ RelayForwards
      BY <3>1 DEF RelayRejects, RelayAccepts, RelayConfirms, RelayRefuses, RelayReceives,
         RelayForwards, R!RejectStart, R!StartAccepted, R!StartOK, R!Refused, R!ReceiveData,
         R!Forwarded, R!remoteVars
    <3>2. CASE RelayCloses \/ RelayDelivers \/ RelayTakesLate
      BY <3>2 DEF RelayCloses, RelayDelivers, RelayTakesLate, R!HandlerClose, R!LoopClose,
         R!ReaderSent, R!remoteVars, relayVars
    <3>3. CASE RelayInternal
      BY <3>3 DEF RelayInternal, R!InitiateRaises, R!Answered, R!StartOKRaises,
         R!ForwardRaises, R!Disconnect, R!JoinTimeout, R!Joined, R!ReaderStart,
         R!ReaderWake, R!ReaderSendRaises, R!ReaderCancelled, R!RecvDisconnect,
         R!LoopDrop, R!remoteVars
    <3> QED BY <1>1, <3>1, <3>2, <3>3
  <2>2. CASE ~(RelayTakesAnswer \/ RelayTakesData \/ RelayTakesReset)
    BY <2>1, <2>2
  <2>3. ~(RelayTakesAnswer \/ RelayTakesReset \/ RelayTakesData)
    <3>1. RelayTakesAnswer => remote'[C] # remote[C]
      BY DEF RelayTakesAnswer, R!RecvAnswer
    <3>2. RelayTakesReset => remote'[C] # remote[C]
      BY <1>t DEF RelayTakesReset, R!RecvReset
    <3>3. RelayTakesData => emitted'[C] # emitted[C]
      <4>1. RelayTakesData => emitted'[C] = emitted[C] + 1
        BY <1>t DEF RelayTakesData, R!RecvData
      <4>2. emitted[C] \in Nat
        BY <1>t, SystemOK
      <4> QED BY <4>1, <4>2
    <3> QED BY <2>1, <3>1, <3>2, <3>3
  <2> QED BY <2>1, <2>3
<1>2. CASE RelayInitiates
  <2>1. hpc[C] = "initiate"
    BY <1>2 DEF RelayInitiates, R!InitiateSent
  <2>2. remote[C] = "none"
    BY <2>1, <1>t DEF RelayInv, R!SessionInv, R!ProgressInv
  <2> QED BY <1>2, <1>t, <2>2 DEF RelayInitiates, R!InitiateSent
<1>3. CASE RelayTakesAnswer
  BY <1>3, <1>t DEF RelayTakesAnswer, R!RecvAnswer
<1>4. CASE RelayTakesData
  BY <1>4, <1>t DEF RelayTakesData, R!RecvData
<1>5. CASE RelayTakesReset
  BY <1>5, <1>t DEF RelayTakesReset, R!RecvReset
<1> QED BY <1>1, <1>2, <1>3, <1>4, <1>5 DEF RelayActs

\* A connection is opened in a session once, for the request.
LEMMA BornMoves ==
  ASSUME AgentActs
  PROVE  \/ AgentInitiates /\ born[C] = 0 /\ sent' = sent
         \/ born' = born /\ ~ AgentInitiates
<1>1. CASE AgentInitiates
  BY <1>1 DEF AgentInitiates, E!Initiate
<1>2. CASE AgentWrites \/ AgentCloses \/ AgentTakesLate \/ AgentReads
           \/ AgentPeers \/ AgentFlushes
  <2>1. born' = born
    BY <1>2 DEF AgentWrites, AgentCloses, AgentTakesLate, AgentReads, AgentPeers,
       AgentFlushes, E!WriteData, E!RelayCloses, E!ReaderData, E!TargetEnds,
     E!TargetResets, E!TargetReads, E!RelayLost, agentVars, E!connVars
  <2> QED BY <1>1, <2>1
<1>3. CASE AgentInternal
  <2>1. born' = born
    BY <1>3 DEF AgentInternal, E!connVars, E!Connected, E!ConnectFails, E!Confirmed,
       E!Reported, E!Drained, E!DrainReset, E!DrainFails, E!MainSendRaises, E!ReceiveRaises,
       E!CleanUp, E!ReaderSent, E!ReaderEnds, E!ReaderSendRaises, E!ReaderDone, E!Finally
  <2> QED BY <1>1, <2>1
<1> QED BY <1>1, <1>2, <1>3 DEF AgentActs

\* An agent that is there was never another: its number is the session's.
LEMMA AgentKnown ==
  ASSUME CoreInv, agentOf[C] # 0
  PROVE  agentOf[C] \in 1 .. MaxSessions /\ agentOf[C] <= session
<1>1. agentOf[C] \in 1 .. MaxSessions /\ lpc[agentOf[C]] # "absent"
  BY OneConnection DEF CoreInv, ComponentInv, RelayInv, R!TypeOK, R!SessionInv, R!ProgressInv
<1> QED BY <1>1 DEF CoreInv, ComponentInv, MeetInv


\* Where the relay sends a message to the agent, and what it finds there.
LEMMA ToAgentMoves ==
  ASSUME CoreInv, RequestInv, RelayActs
  PROVE  \/ toAgent' = toAgent
         \/ /\ RelayInitiates /\ toAgent = <<>> /\ born[C] = 0 /\ agentOf[C] \in agentUp
            /\ toAgent' = Append(toAgent, Message("initiate", <<>>))
         \/ /\ RelayForwards /\ remote[C] # "none" /\ agentOf[C] \in agentUp
            /\ toAgent' = Append(toAgent, Message("data", encode_tcp_binary_frame(Id, carried)))
         \/ /\ RelayCloses /\ remote[C] # "none" /\ agentOf[C] \in agentUp
            /\ hpc[C] \notin {"start", "initiate"}
            /\ toAgent' = Append(toAgent, Message("close", <<>>))
<1> USE DEF AskedInv, RequestInv
<1>1. CASE RelayInitiates
  BY <1>1 DEF RelayInitiates, R!InitiateSent, ToAgent
<1>2. CASE RelayForwards
  BY <1>2 DEF RelayForwards, R!Forwarded, ToAgent
<1>3. CASE RelayCloses
  <2>1. CASE toAgent' = toAgent
    BY <2>1
  <2>2. CASE toAgent' # toAgent
    <3>1. C \in closeSent' /\ agentOf[C] \in agentUp
          /\ toAgent' = Append(toAgent, Message("close", <<>>))
      BY <1>3, <2>2 DEF RelayCloses, ToAgent
    <3>2. hpc[C] \notin {"start", "initiate"}
      <4>1. CASE R!HandlerClose(C)
        BY <4>1 DEF R!HandlerClose
      <4>2. ASSUME NEW a \in 1 .. MaxSessions, R!LoopClose(a)
            PROVE  hpc[C] \notin {"start", "initiate"}
        <5>1. lpc[a] = "close" /\ cur[a] = C
          BY <4>2, OneConnection DEF R!LoopClose, CoreInv, ComponentInv, RelayInv, R!TypeOK
        <5>2. agentOf[C] = a /\ R!TargetLost(C)
          BY <5>1, OneConnection DEF CoreInv, ComponentInv, RelayInv, R!SessionInv, R!CauseInv
        <5>3. remote[C] = "ended"
          BY <3>1, <5>2 DEF R!TargetLost
        <5> QED BY <5>3, OneConnection DEF CoreInv, ComponentInv, RelayInv, R!SessionInv,
                                            R!ProgressInv
      <4> QED BY <1>3, <4>1, <4>2 DEF RelayCloses
    <3> QED BY <1>3, <3>1, <3>2
  <2> QED BY <2>1, <2>2
<1>4. CASE ~(RelayInitiates \/ RelayForwards \/ RelayCloses)
  BY <1>4 DEF RelayActs, RelayRejects, RelayAccepts, RelayConfirms, RelayRefuses,
     RelayReceives, RelayDelivers, RelayInternal, RelayTakesAnswer, RelayTakesData,
     RelayTakesReset, RelayTakesLate, Take
<1> QED BY <1>1, <1>2, <1>3, <1>4

\* The next message from the agent is one it has sent.
LEMMA NextIsSent ==
  ASSUME CoreInv, NextFromAgent # "none"
  PROVE  /\ taken \in Nat /\ taken + 1 \in 1 .. Len(sent[C])
         /\ NextFromAgent = sent[C][taken + 1]
         /\ sent[C] = <<"error">> \/ sent[C][1] = "ok"
         /\ taken > 0 => NextFromAgent \in {"data", "reset"} /\ sent[C][1] = "ok"
<1>1. /\ taken \in Nat /\ Len(sent[C]) \in Nat /\ taken < Len(sent[C])
      /\ NextFromAgent = sent[C][taken + 1]
  BY OneConnection DEF NextFromAgent, CoreInv, ComponentInv, MessagesInv, AgentInv, E!EdgeInv,
     E!TypeOK
<1>2. E!AnswerInv(C) /\ sent[C] # <<>>
  BY <1>1, OneConnection DEF CoreInv, ComponentInv, AgentInv, E!AnswersInv
<1>3. sent[C] = <<"error">> \/ sent[C][1] = "ok"
  BY <1>2 DEF E!AnswerInv
<1>4. ASSUME taken > 0 PROVE NextFromAgent \in {"data", "reset"} /\ sent[C][1] = "ok"
  <2>1. taken + 1 \in 2 .. Len(sent[C])
    BY <1>1, <1>4
  <2>2. sent[C] # <<"error">>
    BY <1>1, <1>4
  <2> QED BY <1>1, <1>2, <1>3, <2>1, <2>2 DEF E!AnswerInv
<1>5. taken + 1 \in 1 .. Len(sent[C])
  BY <1>1
<1> QED BY <1>1, <1>3, <1>4, <1>5

\* A connection is given to an agent, and entered in the table, when it is accepted.
LEMMA GivenOnce ==
  ASSUME RelayInv, MeetInv, RelayActs
  PROVE  \/ agentOf' = agentOf /\ relayed' \subseteq relayed
         \/ RelayAccepts /\ hpc[C] = "start" /\ hpc'[C] = "initiate"
<1> USE DEF R!Drop
<1>1. CASE R!ReaderStep(C)
  BY <1>1 DEF R!ReaderStep, R!tableVars, R!ReaderStart, R!ReaderWake, R!ReaderSent,
     R!ReaderSendRaises, R!ReaderCancelled
<1>2. ASSUME NEW a \in 1 .. MaxSessions, R!LoopStep(a)
      PROVE  agentOf' = agentOf /\ relayed' \subseteq relayed
  BY <1>2 DEF R!LoopStep, R!tableVars, R!RecvAnswer, R!RecvData, R!RecvReset,
     R!RecvDisconnect, R!LoopRaises, R!LoopClose, R!LoopDrop
<1>3. CASE UNCHANGED relayVars
  BY <1>3 DEF relayVars
<1>4. CASE R!HandlerStep(C)
  <2>1. CASE hpc[C] = "start" /\ hpc'[C] = "initiate"
    <3>1. ~ (RelayRejects /\ hpc'[C] = "done") /\ ~(RelayInitiates /\ hpc[C] = "initiate")
      BY <2>1
    <3>2. RelayAccepts
      BY <2>1, HandlerMoves
    <3> QED BY <2>1, <3>2
  <2>2. CASE ~(hpc[C] = "start" /\ hpc'[C] = "initiate")
    <3>1. ASSUME NEW a \in 1 .. MaxSessions PROVE ~ R!StartAccepted(C, a)
      BY <2>2, OneConnection DEF R!StartAccepted, R!Goto, RelayInv, R!TypeOK
    <3> QED BY <1>4, <3>1 DEF R!tableVars, R!HandlerStep, R!RejectStart, R!InitiateSent,
       R!InitiateRaises, R!Answered, R!StartOK, R!StartOKRaises, R!Refused, R!ReceiveData,
       R!MessageRaises, R!Forwarded, R!ForwardRaises, R!Disconnect, R!HandlerClose,
       R!JoinTimeout, R!Joined
  <2> QED BY <2>1, <2>2
<1> QED BY <1>1, <1>2, <1>3, <1>4, RelayStep

\* What the relay takes from the agent.
LEMMA TakenMoves ==
  ASSUME CoreInv, RelayActs
  PROVE  /\ taken' = IF RelayTakesAnswer \/ RelayTakesData \/ RelayTakesReset
                        \/ RelayTakesLate
                     THEN taken + 1 ELSE taken
         /\ RelayTakesLate => UNCHANGED relayVars /\ remote[C] = "ended"
  BY DEF RelayActs, RelayRejects, RelayAccepts, RelayInitiates, RelayConfirms,
     RelayRefuses, RelayReceives, RelayForwards, RelayCloses, RelayDelivers, RelayInternal,
     RelayTakesAnswer, RelayTakesData, RelayTakesReset, RelayTakesLate, Take

\* The relay's steps keep the request first.
LEMMA AskedRelay ==
  ASSUME CoreInv, RequestInv, RelayActs
  PROVE  AskedInv'
<1>c. RelayInv /\ MeetInv /\ toAgent \in Seq(ToAgentMessages) /\ Len(toAgent) \in Nat
  BY DEF CoreInv, ComponentInv, MessagesInv
<1>u. UNCHANGED <<born, agentUp>>
  BY <1>c, RelayStep DEF agentVars
<1>t. /\ hpc \in [{C} -> R!HandlerPC] /\ C \in {C} /\ remote \in [{C} -> R!RemoteState]
      /\ hpc[C] \in {"start", "initiate"} => remote[C] = "none"
      /\ hpc[C] = "start" => agentOf[C] = 0
      /\ 0 \notin agentUp
  BY <1>c, OneConnection DEF RelayInv, R!TypeOK, R!SessionInv, R!ProgressInv
<1>r. remote[C] # "none" => remote'[C] # "none"
  BY <1>c, RemoteMoves
<1>i. RelayInitiates => hpc'[C] = "answer" /\ (toAgent' # toAgent => remote'[C] # "none")
  BY <1>t DEF RelayInitiates, R!InitiateSent, R!Goto, ToAgent
<1>1. hpc'[C] \in {"start", "initiate"} => toAgent' = <<>> /\ born'[C] = 0
  <2> SUFFICES ASSUME hpc'[C] \in {"start", "initiate"}
               PROVE  toAgent' = <<>> /\ born'[C] = 0
    OBVIOUS
  <2>1. hpc[C] \in {"start", "initiate"}
    BY <1>c, HandlerMoves
  <2>2. toAgent' = toAgent
    BY <1>t, <1>i, <2>1, ToAgentMoves
  <2> QED BY <1>u, <2>1, <2>2 DEF AskedInv, RequestInv
<1>2. \A i \in 1 .. Len(toAgent') : toAgent'[i][1] = "initiate" => i = 1 /\ born'[C] = 0
  <2>1. CASE toAgent' = toAgent
    BY <1>u, <2>1 DEF AskedInv, RequestInv
  <2>2. CASE toAgent = <<>> /\ born[C] = 0 /\ toAgent' = Append(toAgent, Message("initiate", <<>>))
    <3>1. Len(toAgent') = 1
      BY <2>2
    <3> QED BY <1>u, <2>2, <3>1
  <2>3. ASSUME NEW m, m[1] # "initiate", toAgent' = Append(toAgent, m)
        PROVE  \A i \in 1 .. Len(toAgent') : toAgent'[i][1] = "initiate" => i = 1 /\ born'[C] = 0
    <3>1. /\ Len(toAgent') = Len(toAgent) + 1 /\ toAgent'[Len(toAgent) + 1] = m
          /\ \A i \in 1 .. Len(toAgent) : toAgent'[i] = toAgent[i]
      BY <1>c, <2>3
    <3>2. ASSUME NEW i \in 1 .. Len(toAgent'), toAgent'[i][1] = "initiate"
          PROVE  i = 1 /\ born'[C] = 0
      <4>1. i \in 1 .. Len(toAgent) \/ i = Len(toAgent) + 1
        BY <1>c, <3>1
      <4>2. i \in 1 .. Len(toAgent) /\ toAgent[i][1] = "initiate"
        BY <2>3, <3>1, <3>2, <4>1
      <4> QED BY <1>u, <4>2 DEF AskedInv, RequestInv
    <3> QED BY <3>2
  <2>4. /\ Message("data", encode_tcp_binary_frame(Id, carried))[1] # "initiate"
        /\ Message("close", <<>>)[1] # "initiate"
    BY DEF Message
  <2> QED BY <2>1, <2>2, <2>3, <2>4, ToAgentMoves
<1>3. toAgent' # <<>> \/ born'[C] # 0 => remote'[C] # "none"
  <2>1. toAgent' # toAgent => remote[C] # "none" \/ remote'[C] # "none"
    BY <1>i, ToAgentMoves
  <2> QED BY <1>u, <1>r, <2>1 DEF AskedInv, RequestInv
<1>4. agentOf'[C] \in agentUp' /\ hpc'[C] \notin {"start", "initiate"} => remote'[C] # "none"
  <2> SUFFICES ASSUME agentOf'[C] \in agentUp', hpc'[C] \notin {"start", "initiate"}
               PROVE  remote'[C] # "none"
    OBVIOUS
  <2>1. agentOf'[C] = agentOf[C]
    BY <1>c, GivenOnce
  <2>2. hpc[C] # "start"
    BY <1>t, <1>u, <2>1
  <2>3. CASE hpc[C] = "initiate"
    <3>1. CASE RelayInitiates
      BY <1>t, <1>u, <2>1, <2>3, <3>1, <1>c DEF RelayInitiates, R!InitiateSent, RelayInv, R!TypeOK
    <3>2. CASE ~ RelayInitiates
      <4>1. hpc'[C] = "crashed"
        BY <1>c, <2>3, <3>2, HandlerMoves
      <4>2. RelayInternal /\ R!InitiateRaises(C)
        BY <1>t, <2>3, <3>2, <4>1 DEF RelayActs, RelayInternal, R!Goto, R!Crash,
           RelayRejects, RelayAccepts, RelayConfirms,
           RelayRefuses, RelayReceives, RelayForwards, RelayCloses, RelayDelivers,
           RelayTakesAnswer, RelayTakesData, RelayTakesReset, RelayTakesLate, relayVars,
           R!RejectStart, R!StartAccepted, R!Answered, R!StartOK, R!StartOKRaises,
           R!Refused, R!ReceiveData, R!MessageRaises, R!Forwarded, R!ForwardRaises,
           R!Disconnect,
           R!HandlerClose, R!JoinTimeout, R!Joined, R!ReaderStart, R!ReaderWake,
           R!ReaderSent, R!ReaderSendRaises, R!ReaderCancelled, R!RecvAnswer,
           R!RecvData, R!RecvReset, R!RecvDisconnect, R!LoopRaises, R!LoopClose,
           R!LoopDrop
      <4> QED BY <1>u, <2>1, <4>2 DEF R!InitiateRaises, R!SendRaises
    <3> QED BY <3>1, <3>2
  <2>4. CASE hpc[C] \notin {"start", "initiate"}
    BY <1>u, <1>r, <2>1, <2>4 DEF AskedInv, RequestInv
  <2> QED BY <2>2, <2>3, <2>4
<1> QED BY <1>1, <1>2, <1>3, <1>4 DEF AskedInv

\* The agent takes the request from its channel before anything else.
LEMMA AskedAgent ==
  ASSUME CoreInv, RequestInv, AgentActs
  PROVE  AskedInv'
<1>c. toAgent \in Seq(ToAgentMessages) /\ Len(toAgent) \in Nat
  BY DEF CoreInv, MessagesInv
<1>u. UNCHANGED <<hpc, remote, agentOf>> /\ agentUp' \subseteq agentUp
  BY AgentStep DEF relayOwn, R!AgentLeaves
<1>1. \/ toAgent' = toAgent /\ born' = born
      \/ toAgent # <<>> /\ toAgent' = Tail(toAgent)
      \/ toAgent' = <<>> /\ born' = born
  BY BornMoves DEF AgentActs, AgentInitiates, AgentWrites, AgentCloses, AgentTakesLate,
     AgentInternal, AgentReads, AgentPeers, AgentFlushes, First
<1>2. CASE toAgent' = toAgent /\ born' = born
  BY <1>u, <1>2 DEF AskedInv, RequestInv
<1>3. CASE toAgent' = <<>> /\ born' = born
  BY <1>u, <1>3, EmptyChannel DEF AskedInv, RequestInv
<1>4. CASE toAgent # <<>> /\ toAgent' = Tail(toAgent)
  <2>1. /\ Len(toAgent') = Len(toAgent) - 1
        /\ \A i \in 1 .. Len(toAgent) - 1 : toAgent'[i] = toAgent[i + 1]
    BY <1>c, <1>4, ChannelTail
  <2>2. ASSUME NEW i \in 1 .. Len(toAgent') PROVE toAgent'[i][1] # "initiate"
    <3>1. i + 1 \in 1 .. Len(toAgent) /\ i + 1 # 1 /\ toAgent'[i] = toAgent[i + 1]
      BY <1>c, <2>1
    <3> QED BY <3>1 DEF AskedInv, RequestInv
  <2> QED BY <1>u, <1>4, <2>2 DEF AskedInv, RequestInv
<1> QED BY <1>1, <1>2, <1>3, <1>4

\* The agent's first message is its answer.
LEMMA AnsweredRelay ==
  ASSUME CoreInv, RequestInv, RelayActs
  PROVE  AnsweredInv'
<1>c. RelayInv /\ MeetInv
  BY DEF CoreInv, ComponentInv
<1>u. sent' = sent /\ taken \in Nat
  BY <1>c, RelayStep DEF agentVars, CoreInv, MessagesInv
<1>t. /\ remote \in [{C} -> R!RemoteState] /\ C \in {C}
      /\ lpc \in [1 .. MaxSessions -> R!LoopPC]
      /\ hpc[C] = "start" => remote[C] = "none"
      /\ remote[C] # "none" => agentOf[C] \in 1 .. MaxSessions
  BY <1>c, OneConnection DEF RelayInv, R!TypeOK, R!SessionInv, R!ProgressInv, MeetInv
<1>k. ASSUME NextFromAgent # "none", taken = 0 PROVE NextFromAgent = sent[C][1]
  <2>1. taken + 1 = 1
    BY <1>k
  <2> QED BY <1>k, <2>1, NextIsSent
<1> USE DEF RequestInv, AnsweredInv
<1>e. remote'[C] = "ended" /\ C \in relayed' => lpc'[agentOf'[C]] \in {"close", "drop"}
  <2> SUFFICES ASSUME remote'[C] = "ended", C \in relayed'
               PROVE  lpc'[agentOf'[C]] \in {"close", "drop"}
    OBVIOUS
  <2>0. remote[C] \in {"open", "ended"}
    BY <1>c, <1>t, RemoteMoves
  <2>1. agentOf' = agentOf /\ C \in relayed
    BY <1>c, <1>t, <2>0, GivenOnce
  <2> DEFINE a == agentOf[C]
  <2>a. a \in 1 .. MaxSessions
    BY <1>t, <2>0
  <2>2. CASE R!RecvReset(a, C)
    <3>1. lpc' = [lpc EXCEPT ![a] = "close"]
      BY <2>1, <2>2 DEF R!RecvReset, R!Goto
    <3> QED BY <1>t, <2>1, <2>a, <3>1
  <2>3. CASE remote[C] = "ended"
    <3>1. lpc[a] \in {"close", "drop"} /\ cur[a] = C
      BY <1>c, <2>1, <2>3, <2>a DEF RelayInv, R!TypeOK
    <3>2. CASE R!HandlerStep(C)
      BY <2>1, <3>1, <3>2 DEF R!loopVars, R!HandlerStep, R!RejectStart, R!StartAccepted,
         R!InitiateSent, R!InitiateRaises, R!Answered, R!StartOK, R!StartOKRaises,
         R!Refused, R!ReceiveData, R!MessageRaises, R!Forwarded, R!ForwardRaises,
         R!Disconnect, R!HandlerClose, R!JoinTimeout, R!Joined, R!Crash
    <3>3. CASE R!ReaderStep(C)
      BY <2>1, <3>1, <3>3 DEF R!loopVars, R!ReaderStep, R!ReaderStart,
       R!ReaderWake, R!ReaderSent, R!ReaderSendRaises, R!ReaderCancelled
    <3>4. CASE UNCHANGED relayVars
      BY <2>1, <3>1, <3>4 DEF relayVars
    <3>5. ASSUME NEW b \in 1 .. MaxSessions, R!LoopStep(b)
          PROVE  lpc'[a] \in {"close", "drop"}
      <4>1. lpc' = lpc \/ \E l : lpc' = [lpc EXCEPT ![b] = l]
        BY <3>5 DEF R!LoopStep, R!RecvAnswer, R!RecvData, R!RecvReset, R!RecvDisconnect,
           R!LoopRaises, R!LoopClose, R!LoopDrop, R!CloseNext, R!Goto, R!loopVars
      <4>2. CASE b # a
        BY <1>t, <2>a, <3>1, <4>1, <4>2
      <4>3. CASE b = a
        <5>1. R!LoopClose(a) \/ R!LoopDrop(a)
          BY <3>1, <3>5, <4>3 DEF R!LoopStep, R!RecvAnswer, R!RecvData, R!RecvReset,
             R!RecvDisconnect, R!LoopRaises
        <5>2. lpc' = [lpc EXCEPT ![a] = "drop"]
          BY <2>1, <3>1, <5>1 DEF R!LoopClose, R!LoopDrop, R!Drop, R!Goto
        <5> QED BY <1>t, <2>a, <5>2
      <4> QED BY <4>2, <4>3
    <3> QED BY <1>c, <2>1, <3>2, <3>3, <3>4, <3>5, RelayStep
  <2>4. CASE RelayTakesReset
    BY <2>2, <2>4 DEF RelayTakesReset
  <2> QED BY <1>c, <1>t, <2>0, <2>3, <2>4, RemoteMoves
<1>1. CASE RelayTakesAnswer
  <2>1. taken = 0 /\ taken' = taken + 1 /\ remote[C] = "asked"
    BY <1>1, TakenMoves DEF RelayTakesAnswer, R!RecvAnswer
  <2>2. NextFromAgent \in {"ok", "error"} /\ NextFromAgent = sent[C][1]
    BY <1>1, <1>k, <2>1 DEF RelayTakesAnswer
  <2>3. remote'[C] = IF NextFromAgent = "ok" THEN "open" ELSE "refused"
    BY <1>1 DEF RelayTakesAnswer
  <2>4. taken' # 0
    BY <2>1
  <2> QED BY <1>u, <1>e, <2>2, <2>3, <2>4
<1>2. CASE RelayTakesData \/ RelayTakesReset \/ RelayTakesLate
  <2>1. taken' = taken + 1 /\ remote[C] \in {"open", "ended"} /\ remote'[C] \in {"open", "ended"}
    BY <1>2, <1>c, <1>t, TakenMoves, RemoteMoves DEF RelayTakesData, RelayTakesReset,
       R!RecvData, R!RecvReset, relayVars
  <2>2. taken > 0 /\ taken' > 0 /\ taken' # 0
    BY <1>u, <2>1
  <2> QED BY <1>u, <1>e, <2>1, <2>2
<1>3. CASE ~ (RelayTakesAnswer \/ RelayTakesData \/ RelayTakesReset \/ RelayTakesLate)
  <2>1. taken' = taken
    BY <1>3, TakenMoves
  <2>2. remote'[C] = remote[C] \/ (remote[C] = "none" /\ remote'[C] \in {"none", "asked"})
    BY <1>3, <1>c, RemoteMoves
  <2> QED BY <1>u, <1>e, <2>1, <2>2
<1> QED BY <1>1, <1>2, <1>3

LEMMA RequestStep ==
  ASSUME CoreInv, RequestInv, [Next]_vars
  PROVE  RequestInv'
<1>1. CASE ClientActs
  <2>1. UNCHANGED <<hpc, remote, agentOf, agentUp, relayed, lpc, toAgent, born, taken, sent>>
    BY <1>1, ClientSteps DEF relayOwn, agentVars
  <2> QED BY <2>1 DEF RequestInv, AskedInv, AnsweredInv
<1>2. CASE RelayActs
  BY <1>2, AskedRelay, AnsweredRelay DEF RequestInv
<1>3. CASE AgentConnects
  <2>1. /\ UNCHANGED <<hpc, remote, agentOf, relayed, toAgent, born, taken, sent>>
        /\ session' = session + 1 /\ session \in Nat
        /\ agentUp' = agentUp \cup {session'} /\ lpc[session'] = "absent"
        /\ lpc' = [lpc EXCEPT ![session'] = "receive"]
    BY <1>3, SystemOK DEF AgentConnects, E!Connect, R!AgentJoins, R!tableVars, R!remoteVars,
       E!connVars, channels, R!Goto, CoreInv, ComponentInv, AgentInv, E!EdgeInv, E!TypeOK
  <2>2. agentOf[C] # session'
    <3>1. CASE agentOf[C] = 0
      BY <2>1, <3>1
    <3>2. CASE agentOf[C] # 0
      <4>1. agentOf[C] \in Nat /\ agentOf[C] <= session
        BY <3>2, AgentKnown
      <4> QED BY <2>1, <4>1
    <3> QED BY <3>1, <3>2
  <2>3. AskedInv'
    BY <2>1, <2>2 DEF RequestInv, AskedInv
  <2>4. lpc'[agentOf[C]] = lpc[agentOf[C]] \/ agentOf[C] \notin 1 .. MaxSessions
    BY <2>1, <2>2 DEF CoreInv, ComponentInv, RelayInv, R!TypeOK
  <2>5. remote[C] = "ended" => agentOf[C] \in 1 .. MaxSessions
    BY OneConnection DEF CoreInv, ComponentInv, RelayInv, R!TypeOK, MeetInv
  <2> QED BY <2>1, <2>3, <2>4, <2>5 DEF RequestInv, AnsweredInv
<1>4. CASE AgentActs
  <2>1. UNCHANGED <<remote, agentOf, relayed, lpc, taken>>
    BY <1>4, AgentStep DEF relayOwn
  <2>2. taken > 0 => sent'[C][1] = sent[C][1]
    <3> SUFFICES ASSUME taken > 0 PROVE sent'[C][1] = sent[C][1]
      OBVIOUS
    <3>1. /\ sent[C] \in Seq({"ok", "error", "data", "reset"})
          /\ 1 \in 1 .. Len(sent[C])
      BY OneConnection DEF CoreInv, ComponentInv, MessagesInv, AgentInv, E!EdgeInv, E!TypeOK
    <3>2. ASSUME NEW m, sent'[C] = Append(sent[C], m) PROVE sent'[C][1] = sent[C][1]
      BY <3>1, <3>2
    <3> QED BY <1>4, <3>2, AgentSends DEF CoreInv, ComponentInv
  <2> QED BY <1>4, <2>1, <2>2, AskedAgent DEF RequestInv, AnsweredInv
<1>5. CASE UNCHANGED vars
  BY <1>5 DEF vars, clientVars, relayVars, agentVars, channels, RequestInv, AskedInv,
     AnsweredInv
<1> QED BY <1>1, <1>2, <1>3, <1>4, <1>5, WhoseStep


-----------------------------------------------------------------------------
(* Whether the target is connected to.                                     *)

\* A connection to a target is opened once.
LEMMA WriterMoves ==
  ASSUME AgentInv, AgentActs
  PROVE  writer'[C] = "none" => writer[C] = "none"
<1> USE OneConnection DEF AgentInv, E!EdgeInv, E!TypeOK, E!CloseWriter
<1>1. CASE AgentInitiates \/ AgentWrites \/ AgentCloses \/ AgentTakesLate \/ AgentReads
           \/ AgentPeers \/ AgentFlushes
  BY <1>1 DEF AgentInitiates, AgentWrites, AgentCloses, AgentTakesLate, AgentReads,
     AgentPeers, AgentFlushes, E!Initiate, E!WriteData, E!RelayCloses, E!ReaderData,
     E!TargetEnds,
     E!TargetResets, E!TargetReads, E!RelayLost, agentVars, E!connVars
<1>2. CASE AgentInternal
  <2>1. CASE E!Connected(C) \/ E!ConnectFails(C) \/ E!Confirmed(C) \/ E!Reported
             \/ E!Drained(C) \/ E!DrainReset(C) \/ E!DrainFails(C)
    BY <2>1 DEF E!Connected, E!ConnectFails, E!Confirmed, E!Reported, E!Drained,
       E!DrainReset, E!DrainFails, E!connVars
  <2>2. CASE E!MainSendRaises \/ E!ReceiveRaises \/ E!CleanUp
    BY <2>2 DEF E!MainSendRaises, E!ReceiveRaises, E!CleanUp, E!connVars
  <2>3. CASE E!ReaderSent(C) \/ E!ReaderEnds(C) \/ E!ReaderSendRaises(C) \/ E!ReaderDone(C)
    BY <2>3 DEF E!ReaderSent, E!ReaderEnds, E!ReaderSendRaises, E!ReaderDone, E!Finally,
       E!connVars
  <2> QED BY <1>2, <2>1, <2>2, <2>3 DEF AgentInternal
<1> QED BY <1>1, <1>2 DEF AgentActs

\* A property of all messages of a channel is kept by taking messages from it.
LEMMA LessMessages ==
  ASSUME NEW M, NEW ch \in Seq(M), NEW after, NEW Kinds,
         after \in {ch, <<>>} \/ (ch # <<>> /\ after = Tail(ch)),
         \A i \in 1 .. Len(ch) : ch[i][1] \in Kinds
  PROVE  \A i \in 1 .. Len(after) : after[i][1] \in Kinds
<1>1. CASE after = ch
  BY <1>1
<1>2. CASE after = <<>>
  BY <1>2
<1>3. CASE ch # <<>> /\ after = Tail(ch)
  <2>1. /\ Len(ch) \in Nat /\ Len(after) = Len(ch) - 1
        /\ \A i \in 1 .. Len(ch) - 1 : after[i] = ch[i + 1]
    BY <1>3, ChannelTail
  <2>2. \A i \in 1 .. Len(after) : i + 1 \in 1 .. Len(ch)
    BY <2>1
  <2> QED BY <2>1, <2>2
<1> QED BY <1>1, <1>2, <1>3

\* And by adding one that has it.
LEMMA MoreMessages ==
  ASSUME NEW M, NEW ch \in Seq(M), NEW m \in M, NEW Kinds, m[1] \in Kinds,
         \A i \in 1 .. Len(ch) : ch[i][1] \in Kinds
  PROVE  \A i \in 1 .. Len(Append(ch, m)) : Append(ch, m)[i][1] \in Kinds
<1>1. ASSUME NEW i \in 1 .. Len(Append(ch, m)) PROVE Append(ch, m)[i][1] \in Kinds
  <2>1. i \in 1 .. Len(ch) \/ i = Len(ch) + 1
    BY ChannelAppend
  <2> QED BY <2>1, ChannelAppend
<1> QED BY <1>1

\* What the relay sends to its client.
LEMMA ToClientMoves ==
  ASSUME CoreInv, RelayActs
  PROVE  \/ toClient' = toClient
         \/ \E kind \in {"start_ok", "error"} :
              /\ RelayConfirms \/ kind = "error"
              /\ toClient' = Append(toClient, Message(kind, <<>>))
         \/ /\ RelayDelivers /\ rpc[C] = "send" /\ C \in clientUp
            /\ toClient' = Append(toClient, Message("data", hand[C]))
<1>1. CASE RelayRejects \/ RelayRefuses
  BY <1>1 DEF RelayRejects, RelayRefuses, ToClient
<1>2. CASE RelayConfirms
  BY <1>2 DEF RelayConfirms, ToClient
<1>3. CASE RelayDelivers
  BY <1>3 DEF RelayDelivers, ToClient, R!ReaderSent
<1>4. CASE ~ (RelayRejects \/ RelayRefuses \/ RelayConfirms \/ RelayDelivers)
  BY <1>4 DEF RelayActs, RelayAccepts, RelayInitiates, RelayReceives, RelayForwards,
     RelayCloses, RelayInternal, RelayTakesAnswer, RelayTakesData,
     RelayTakesReset, RelayTakesLate, Take
<1> QED BY <1>1, <1>2, <1>3, <1>4

\* The kinds that are left where one is excluded.
LEMMA OtherKinds ==
  ASSUME NEW ch \in Seq(ToAgentMessages)
  PROVE  (\A i \in 1 .. Len(ch) : ch[i][1] # "data") <=>
           (\A i \in 1 .. Len(ch) : ch[i][1] \in {"initiate", "close"})
<1>1. ASSUME NEW i \in 1 .. Len(ch) PROVE ch[i][1] \in {"initiate", "close", "data"}
  <2>1. ch[i] \in ToAgentMessages
    OBVIOUS
  <2> QED BY <2>1 DEF ToAgentMessages
<1> QED BY <1>1

\* An answer "ok" says that the target was connected to.
LEMMA OpenAnswer ==
  ASSUME CoreInv, RelayActs, writer[C] = "none", answers'[C] = "ok"
  PROVE  answers[C] = "ok"
<1>c. RelayInv /\ MeetInv
  BY DEF CoreInv, ComponentInv
<1>t. answers \in [{C} -> {"none", "empty", "ok", "error"}] /\ C \in {C}
      /\ remote \in [{C} -> R!RemoteState]
  BY <1>c, OneConnection DEF RelayInv, R!TypeOK
<1>1. CASE RelayTakesAnswer
  <2>1. NextFromAgent # "ok"
    <3>1. sent[C] \in {<<>>, <<"error">>}
      BY OneConnection DEF CoreInv, ComponentInv, AgentInv, E!AnswersInv, E!AnswerInv
    <3>2. ASSUME NextFromAgent = "ok" PROVE FALSE
      <4>1. /\ taken + 1 \in 1 .. Len(sent[C]) /\ sent[C][taken + 1] = "ok"
            /\ taken \in Nat
        BY <3>2, NextIsSent
      <4> QED BY <3>1, <4>1
    <3> QED BY <3>2
  <2>2. PICK ok \in BOOLEAN :
          /\ remote' = [remote EXCEPT ![C] = IF ok THEN "open" ELSE "refused"]
          /\ answers' = IF answers[C] = "none" THEN answers
                        ELSE [answers EXCEPT ![C] = IF ok THEN "ok" ELSE "error"]
    BY <1>1 DEF RelayTakesAnswer, R!RecvAnswer
  <2>3. remote'[C] = "refused"
    BY <1>1, <2>1 DEF RelayTakesAnswer
  <2>4. ~ ok
    BY <1>t, <2>2, <2>3
  <2> QED BY <1>t, <2>2, <2>4
<1>2. CASE RelayRejects \/ RelayAccepts \/ RelayInitiates \/ RelayConfirms \/ RelayRefuses
           \/ RelayReceives \/ RelayForwards
  BY <1>2, <1>t DEF RelayRejects, RelayAccepts, RelayInitiates, RelayConfirms, RelayRefuses,
     RelayReceives, RelayForwards, R!RejectStart, R!StartAccepted, R!InitiateSent, R!StartOK,
     R!Refused, R!ReceiveData, R!Forwarded, R!tableVars
<1>3. CASE RelayCloses \/ RelayDelivers \/ RelayTakesLate \/ RelayTakesData
           \/ RelayTakesReset
  BY <1>3 DEF RelayCloses, RelayDelivers, RelayTakesLate, RelayTakesData, RelayTakesReset,
     R!HandlerClose, R!LoopClose, R!ReaderSent, R!RecvData, R!RecvReset, R!tableVars,
     relayVars
<1>4. CASE RelayInternal
  BY <1>4, <1>t DEF RelayInternal, R!InitiateRaises, R!Answered, R!StartOKRaises,
     R!ForwardRaises, R!Disconnect, R!JoinTimeout, R!Joined, R!ReaderStart, R!ReaderWake,
     R!ReaderSendRaises, R!ReaderCancelled, R!RecvDisconnect, R!LoopDrop, R!tableVars
<1> QED BY <1>1, <1>2, <1>3, <1>4 DEF RelayActs

LEMMA OpenStep ==
  ASSUME CoreInv, RequestInv, OpenInv, [Next]_vars
  PROVE  OpenInv'
<1>c. /\ RelayInv /\ MeetInv /\ AgentInv
      /\ toAgent \in Seq(ToAgentMessages) /\ toClient \in Seq(ToClientMessages)
      /\ toAgent' \in Seq(ToAgentMessages)
  BY CoreStep DEF CoreInv, ComponentInv, MessagesInv
<1>w. writer'[C] = "none" => writer[C] = "none"
  <2>1. ClientActs => UNCHANGED writer
    BY ClientSteps DEF agentVars
  <2>2. RelayActs => UNCHANGED writer
    BY <1>c, RelayStep DEF agentVars
  <2>3. AgentConnects \/ UNCHANGED vars => UNCHANGED writer
    BY DEF AgentConnects, E!Connect, E!connVars, vars, agentVars
  <2> QED BY <1>c, <2>1, <2>2, <2>3, WriterMoves, WhoseStep
<1> SUFFICES ASSUME writer[C] = "none"
             PROVE  /\ answers'[C] # "ok" /\ hpc'[C] \notin {"start_ok", "receive", "forward"}
                    /\ rpc'[C] = "none" /\ apc' # "pump"
                    /\ \A i \in 1 .. Len(toClient') : toClient'[i][1] \in {"error"}
                    /\ \A i \in 1 .. Len(toAgent') : toAgent'[i][1] \in {"initiate", "close"}
  BY <1>c, <1>w, OtherKinds DEF OpenInv
<1>h. /\ answers[C] # "ok" /\ hpc[C] \notin {"start_ok", "receive", "forward"}
      /\ rpc[C] = "none" /\ apc # "pump"
      /\ \A i \in 1 .. Len(toClient) : toClient[i][1] \in {"error"}
      /\ \A i \in 1 .. Len(toAgent) : toAgent[i][1] \in {"initiate", "close"}
  BY <1>c, OtherKinds DEF OpenInv
<1>1. CASE ClientActs
  <2>1. UNCHANGED <<answers, hpc, rpc, toAgent>>
    BY <1>1, ClientSteps DEF relayOwn
  <2>2. ~ ClientAccepted /\ ~ ClientShows
    BY <1>c, <1>h, ChannelTail DEF ClientAccepted, ClientShows, First, A!ShowData
  <2>3. apc' # "pump" /\ toClient' \in {toClient, <<>>}
    BY <1>1, <1>h, <2>2 DEF ClientActs, ClientStarts, ClientRefused, ClientTypes,
       ClientEnds, ClientKilled, ClientClosed, ClientLost, A!Start, A!Refused, A!ReadStdin,
       A!ReceiveEnds, A!Killed, A!SocketCloses, A!Exit
  <2> QED BY <1>c, <1>h, <2>1, <2>3, LessMessages
<1>2. CASE RelayActs
  <2>1. apc' = apc
    BY <1>c, <1>2, RelayStep DEF clientVars
  <2>2. hpc'[C] \notin {"start_ok", "receive", "forward"}
    BY <1>c, <1>h, <1>2, HandlerMoves
  <2>3. ~ RelayConfirms /\ ~ RelayForwards
    BY <1>h DEF RelayConfirms, RelayForwards, R!StartOK, R!Forwarded
  <2>4. rpc'[C] = "none"
    BY <1>c, <1>h, <1>2, <2>3, ReaderMoves
  <2>5. answers'[C] # "ok"
    BY <1>h, <1>2, OpenAnswer
  <2>6. \A i \in 1 .. Len(toClient') : toClient'[i][1] \in {"error"}
    <3>1. toClient' = toClient \/ toClient' = Append(toClient, Message("error", <<>>))
      BY <1>h, <1>2, <2>3, ToClientMoves
    <3>2. Message("error", <<>>) \in ToClientMessages /\ Message("error", <<>>)[1] = "error"
      BY DEF Message, ToClientMessages
    <3> DEFINE K == {"error"}
               m == Message("error", <<>>)
    <3>3. m[1] \in K /\ \A i \in 1 .. Len(toClient) : toClient[i][1] \in K
      BY <1>h, <3>2
    <3> HIDE DEF K, m
    <3>4. \A i \in 1 .. Len(Append(toClient, m)) : Append(toClient, m)[i][1] \in K
      BY <1>c, <3>2, <3>3, MoreMessages DEF m
    <3>5. CASE toClient' = toClient
      BY <1>h, <3>5
    <3>6. CASE toClient' = Append(toClient, m)
      BY <3>4, <3>6 DEF K
    <3> QED BY <3>1, <3>5, <3>6 DEF m
  <2>7. \A i \in 1 .. Len(toAgent') : toAgent'[i][1] \in {"initiate", "close"}
    <3>1. \/ toAgent' = toAgent
          \/ \E kind \in {"initiate", "close"} : toAgent' = Append(toAgent, Message(kind, <<>>))
      BY <1>2, <2>3, ToAgentMoves
    <3>2. ASSUME NEW kind \in {"initiate", "close"}
          PROVE  Message(kind, <<>>) \in ToAgentMessages /\ Message(kind, <<>>)[1] = kind
      BY DEF Message, ToAgentMessages
    <3>3. ASSUME NEW kind \in {"initiate", "close"},
                 toAgent' = Append(toAgent, Message(kind, <<>>))
          PROVE  \A i \in 1 .. Len(toAgent') : toAgent'[i][1] \in {"initiate", "close"}
      BY <1>c, <1>h, <3>2, <3>3, MoreMessages
    <3> QED BY <1>h, <3>1, <3>3
  <2> QED BY <1>h, <2>1, <2>2, <2>4, <2>5, <2>6, <2>7
<1>3. CASE AgentConnects
  BY <1>3, <1>h DEF AgentConnects, R!AgentJoins, R!tableVars, R!readerVars, clientVars, channels
<1>4. CASE AgentActs
  <2>1. UNCHANGED <<answers, hpc, rpc, apc, toClient>>
    BY <1>4, AgentStep DEF relayOwn, clientVars
  <2>2. toAgent' \in {toAgent, <<>>} \/ (toAgent # <<>> /\ toAgent' = Tail(toAgent))
    BY <1>4 DEF AgentActs, AgentInitiates, AgentWrites, AgentCloses, AgentTakesLate,
       AgentInternal, AgentReads, AgentPeers, AgentFlushes, First
  <2>3. \A i \in 1 .. Len(toAgent') : toAgent'[i][1] \in {"initiate", "close"}
    BY <1>c, <1>h, <2>2, LessMessages
  <2> QED BY <1>h, <2>1, <2>3
<1>5. CASE UNCHANGED vars
  BY <1>5, <1>h DEF vars, clientVars, relayVars, channels
<1> QED BY <1>1, <1>2, <1>3, <1>4, <1>5, WhoseStep


-----------------------------------------------------------------------------
(* Counting the chunks from the target.                                    *)

\* The agent reads one chunk at a time.
LEMMA ReadsMoves ==
  ASSUME AgentInv, AgentActs
  PROVE  \/ reads' = reads /\ ~ E!ReaderData(C)
         \/ E!ReaderData(C) /\ reads'[C] = reads[C] + 1
<1>t. reads \in [E!Conns -> 0 .. MaxEmitted] /\ reads[C] \in Nat
  BY OneConnection, SystemOK DEF AgentInv, E!EdgeInv, E!TypeOK
<1>1. CASE E!ReaderData(C)
  BY <1>t, <1>1, OneConnection DEF E!ReaderData
<1>2. CASE ~ E!ReaderData(C)
  <2>1. CASE AgentInitiates \/ AgentWrites \/ AgentCloses \/ AgentTakesLate \/ AgentReads
             \/ AgentPeers \/ AgentFlushes
    BY <1>2, <2>1 DEF AgentInitiates, AgentWrites, AgentCloses, AgentTakesLate,
       AgentReads, AgentPeers, AgentFlushes, E!Initiate, E!WriteData, E!RelayCloses,
       E!TargetEnds,
       E!TargetResets, E!TargetReads, E!RelayLost, agentVars, E!readerVars
  <2>2. CASE AgentInternal
    <3>1. ASSUME E!Connected(C) \/ E!ConnectFails(C) \/ E!Confirmed(C) \/ E!Reported
               \/ E!Drained(C) \/ E!DrainReset(C) \/ E!DrainFails(C)
          PROVE  reads' = reads
      BY <3>1 DEF E!Connected, E!ConnectFails, E!Confirmed, E!Reported, E!Drained,
         E!DrainReset, E!DrainFails, E!readerVars
    <3>2. ASSUME E!MainSendRaises \/ E!ReceiveRaises \/ E!CleanUp PROVE reads' = reads
      BY <3>2 DEF E!MainSendRaises, E!ReceiveRaises, E!CleanUp, E!readerVars
    <3>3. ASSUME E!ReaderSent(C) \/ E!ReaderEnds(C) \/ E!ReaderSendRaises(C) \/ E!ReaderDone(C)
          PROVE  reads' = reads
      BY <3>3 DEF E!ReaderSent, E!ReaderEnds, E!ReaderSendRaises, E!ReaderDone, E!Finally
    <3> QED BY <1>2, <2>2, <3>1, <3>2, <3>3 DEF AgentInternal
  <2> QED BY <1>2, <2>1, <2>2 DEF AgentActs
<1> QED BY <1>1, <1>2

\* What is piped grows only by what the relay takes from the agent.
LEMMA PipeMoves ==
  ASSUME CoreInv, RelayActs, [Next]_vars
  PROVE  /\ Piped \in Nat /\ Piped' \in Nat
         /\ Piped' <= Piped \/ (RelayTakesData /\ Piped' <= Piped + 1)
<1>c. RelayInv /\ MeetInv /\ RelayInv'
  BY CoreStep DEF CoreInv, ComponentInv
<1>t. /\ delivered[C] \in Seq(Nat) /\ hand[C] \in Seq(Nat) /\ buf[C] \in Seq(Nat)
      /\ delivered'[C] \in Seq(Nat) /\ hand'[C] \in Seq(Nat) /\ buf'[C] \in Seq(Nat)
      /\ delivered \in [{C} -> Seq(Nat)] /\ hand \in [{C} -> Seq(Nat)]
      /\ buf \in [{C} -> Seq(Nat)]
      /\ Len(<<>>) = 0 /\ C \in {C} /\ emitted[C] + 1 \in Nat
  BY <1>c, OneConnection, SystemOK DEF RelayInv, R!TypeOK
<1> DEFINE d == Len(delivered[C])
           h == Len(hand[C])
           b == Len(buf[C])
<1>n. d \in Nat /\ h \in Nat /\ b \in Nat /\ d' \in Nat /\ h' \in Nat /\ b' \in Nat
  BY <1>t
<1>p. Piped = d + h + b /\ Piped' = d' + h' + b'
  BY DEF Piped
<1>q. Piped \in Nat /\ Piped' \in Nat
  <2> HIDE DEF d, h, b
  <2>0. ASSUME NEW x \in Nat, NEW y \in Nat, NEW z \in Nat PROVE x + y + z \in Nat
    OBVIOUS
  <2>1. d + h + b \in Nat /\ d' + h' + b' \in Nat
    BY <1>n, <2>0
  <2> QED BY <1>p, <2>1
<1>0. ASSUME UNCHANGED <<delivered, hand, buf>> PROVE UNCHANGED <<d, h, b>>
  BY <1>0
<1>m. Len(delivered[C] \o hand[C]) = d + h
  BY <1>t, ConcatNat
<1>1. CASE R!HandlerStep(C)
  <2>1. UNCHANGED <<delivered, hand, buf>>
    BY <1>1 DEF R!readerVars, R!HandlerStep, R!RejectStart, R!StartAccepted,
       R!InitiateSent, R!InitiateRaises, R!Answered, R!StartOK, R!StartOKRaises,
       R!Refused, R!ReceiveData, R!MessageRaises, R!Forwarded, R!ForwardRaises,
       R!Disconnect, R!HandlerClose, R!JoinTimeout, R!Joined
  <2>2. UNCHANGED <<d, h, b>>
    BY <1>0, <2>1
  <2> HIDE DEF d, h, b
  <2> QED BY <1>n, <1>p, <2>2
<1>2. CASE R!ReaderStep(C)
  <2>1. R!Take(C) \/ R!Park(C) \/ R!Stop(C)
    BY <1>2 DEF R!ReaderStep, R!ReaderStart, R!ReaderWake, R!ReaderSent,
       R!ReaderSendRaises, R!ReaderCancelled, R!LoopAgain
  <2>2. /\ delivered'[C] = delivered[C] \/ delivered'[C] = delivered[C] \o hand[C]
        /\ delivered'[C] = delivered[C] \/ rpc[C] = "send"
    <3>1. delivered' \in {delivered, [delivered EXCEPT ![C] = delivered[C] \o hand[C]]}
          /\ (delivered' = delivered \/ rpc[C] = "send")
      BY <1>2 DEF R!ReaderStep, R!ReaderStart, R!ReaderWake, R!ReaderSent,
         R!ReaderSendRaises, R!ReaderCancelled
    <3> QED BY <1>t, <3>1
  <2>3. d' = d \/ d' = d + h
    BY <1>m, <2>2
  <2>4. CASE R!Park(C) \/ R!Stop(C)
    <3>1. h' = 0 /\ b' = b
      BY <1>t, <2>4 DEF R!Park, R!Stop
    <3> HIDE DEF d, h, b
    <3>2. CASE d' = d
      BY <1>n, <1>p, <3>1, <3>2
    <3>3. CASE d' = d + h
      BY <1>n, <1>p, <3>1, <3>3
    <3> QED BY <2>3, <3>2, <3>3
  <2>5. CASE R!Take(C)
    <3>1. hand'[C] \o buf'[C] = buf[C]
      BY <1>c, <2>5, R!TakeSplits, RelayConstants, OneConnection DEF RelayInv
    <3>2. Len(hand'[C] \o buf'[C]) = h' + b'
      BY <1>t, ConcatNat
    <3>3. h' + b' = b
      BY <3>1, <3>2
    <3> HIDE DEF d, h, b
    <3>0. ASSUME NEW d1 \in Nat, NEW d2 \in Nat, NEW h1 \in Nat, NEW h2 \in Nat,
                 NEW b1 \in Nat, NEW b2 \in Nat, h2 + b2 = b1, d2 <= d1 + h1
          PROVE  d2 + h2 + b2 <= d1 + h1 + b1 /\ d2 + h2 + b2 \in Nat
      BY <3>0
    <3>4. CASE d' = d
      <4>1. d' <= d + h
        BY <1>n, <3>4
      <4>2. d' + h' + b' <= d + h + b /\ d' + h' + b' \in Nat
        BY <1>n, <3>0, <3>3, <4>1
      <4>3. Piped' <= Piped
        BY <1>p, <4>2
      <4> QED BY <1>q, <4>3
    <3>5. CASE d' = d + h
      <4>1. d' <= d + h
        BY <1>n, <3>5
      <4>2. d' + h' + b' <= d + h + b /\ d' + h' + b' \in Nat
        BY <1>n, <3>0, <3>3, <4>1
      <4>3. Piped' <= Piped
        BY <1>p, <4>2
      <4> QED BY <1>q, <4>3
    <3> QED BY <2>3, <3>4, <3>5
  <2> QED BY <2>1, <2>4, <2>5
<1>3. CASE RelayTakesData
  <2>1. /\ UNCHANGED <<delivered, hand>>
        /\ buf'[C] = buf[C] \/ buf'[C] = Append(buf[C], emitted[C] + 1)
    BY <1>3, <1>t DEF RelayTakesData, R!RecvData, R!readerVars
  <2>2. Len(Append(buf[C], emitted[C] + 1)) = b + 1
    BY <1>t, AppendNat
  <2>3. d' = d /\ h' = h /\ (b' = b \/ b' = b + 1)
    BY <2>1, <2>2
  <2> HIDE DEF d, h, b
  <2>4. Piped \in Nat /\ Piped' \in Nat /\ Piped' <= Piped + 1
    <3>1. CASE b' = b
      BY <1>n, <1>p, <2>3, <3>1
    <3>2. CASE b' = b + 1
      BY <1>n, <1>p, <2>3, <3>2
    <3> QED BY <2>3, <3>1, <3>2
  <2> QED BY <1>3, <2>4
<1>4. CASE UNCHANGED relayVars
  <2>1. UNCHANGED <<d, h, b>>
    BY <1>0, <1>4 DEF relayVars
  <2> HIDE DEF d, h, b
  <2> QED BY <1>n, <1>p, <2>1
<1>5. ASSUME NEW a \in 1 .. MaxSessions, R!LoopStep(a), ~ RelayTakesData
      PROVE  Piped \in Nat /\ Piped' \in Nat /\ Piped' <= Piped
  <2>1. ~ R!RecvData(a, C)
    <3>1. ASSUME R!RecvData(a, C) PROVE FALSE
      <4>1. emitted'[C] = emitted[C] + 1 /\ emitted[C] \in Nat
        BY <3>1, OneConnection, <1>c, SystemOK DEF R!RecvData, RelayInv, R!TypeOK
      <4>2. emitted' # emitted
        BY <4>1
      <4> QED BY <1>c, <1>5, <4>2, RemoteMoves
    <3> QED BY <3>1
  <2>2. UNCHANGED <<delivered, hand, buf>>
    BY <1>5, <2>1 DEF R!LoopStep, R!RecvAnswer, R!RecvReset, R!RecvDisconnect,
       R!LoopRaises, R!LoopClose, R!LoopDrop, R!readerVars
  <2>3. UNCHANGED <<d, h, b>>
    BY <1>0, <2>2
  <2> HIDE DEF d, h, b
  <2> QED BY <1>n, <1>p, <2>3
<1> QED BY <1>c, <1>1, <1>2, <1>3, <1>4, <1>5, RelayStep

\* The counts are numbers, and what the relay has taken is not more than was sent.
LEMMA CountTypes ==
  ASSUME CoreInv
  PROVE  /\ taken \in Nat /\ Len(sent[C]) \in Nat /\ taken <= Len(sent[C])
         /\ DataIn(taken) \in Nat /\ DataIn(Len(sent[C])) \in Nat
         /\ DataIn(taken) <= DataIn(Len(sent[C]))
         /\ DataIn(taken + 1) = DataIn(taken) + (IF sent[C][taken + 1] = "data" THEN 1 ELSE 0)
         /\ emitted[C] \in Nat /\ reads[C] \in Nat
<1>1. taken \in Nat /\ Len(sent[C]) \in Nat /\ taken <= Len(sent[C])
  BY OneConnection DEF CoreInv, ComponentInv, MessagesInv, AgentInv, E!EdgeInv, E!TypeOK
<1>2. emitted[C] \in Nat /\ reads[C] \in Nat
  BY OneConnection, SystemOK DEF CoreInv, ComponentInv, RelayInv, R!TypeOK, AgentInv, E!EdgeInv,
                                 E!TypeOK
<1>3. DataIn(taken) \in Nat /\ DataIn(Len(sent[C])) \in Nat
  BY <1>1, E!CountNext, AgentConstants DEF DataIn
<1>4. DataIn(taken) <= DataIn(Len(sent[C]))
  BY <1>1, E!CountGrows, AgentConstants DEF DataIn
<1>5. DataIn(taken + 1) = DataIn(taken) + (IF sent[C][taken + 1] = "data" THEN 1 ELSE 0)
  <2>1. taken + 1 \in Nat
    BY <1>1
  <2> QED BY <1>1, <2>1, E!CountNext, AgentConstants DEF DataIn
<1> QED BY <1>1, <1>2, <1>3, <1>4, <1>5

\* What a step of the agent does to the counts.
LEMMA CountSent ==
  ASSUME CoreInv, AgentActs
  PROVE  /\ DataIn(taken)' = DataIn(taken)
         /\ \/ DataIn(Len(sent[C]))' = DataIn(Len(sent[C])) /\ ~ E!ReaderData(C)
               /\ reads' = reads
            \/ /\ E!ReaderData(C) /\ reads'[C] = reads[C] + 1
               /\ IF ws = "up" /\ born[C] = session
                  THEN DataIn(Len(sent[C]))' = DataIn(Len(sent[C])) + 1
                  ELSE DataIn(Len(sent[C]))' = DataIn(Len(sent[C]))
<1>c. AgentInv
  BY DEF CoreInv, ComponentInv
<1> DEFINE K == {"ok", "error", "data", "reset"}
<1>t. sent[C] \in Seq(K) /\ sent \in [E!Conns -> Seq(K)] /\ taken' = taken
  BY <1>c, AgentStep, OneConnection DEF AgentInv, E!EdgeInv, E!TypeOK
<1>0. ASSUME sent'[C] = sent[C]
      PROVE  DataIn(taken)' = DataIn(taken) /\ DataIn(Len(sent[C]))' = DataIn(Len(sent[C]))
  BY <1>0, <1>t DEF DataIn, E!Count
<1>1. ASSUME NEW m \in K, sent'[C] = Append(sent[C], m)
      PROVE  /\ DataIn(taken)' = DataIn(taken)
             /\ DataIn(Len(sent[C]))' = DataIn(Len(sent[C])) + (IF m = "data" THEN 1 ELSE 0)
  <2>1. \A i \in 1 .. taken : sent'[C][i] = sent[C][i]
    <3>1. \A i \in 1 .. Len(sent[C]) : Append(sent[C], m)[i] = sent[C][i]
      BY <1>t, <1>1, ChannelAppend
    <3>2. \A i \in 1 .. taken : i \in 1 .. Len(sent[C])
      BY CountTypes
    <3> QED BY <1>1, <3>1, <3>2
  <2>2. E!Count(sent'[C], "data", taken) = E!Count(sent[C], "data", taken)
    BY <2>1, CountTypes, E!CountSame, AgentConstants
  <2>3. E!Count(Append(sent[C], m), "data", Len(Append(sent[C], m)))
          = E!Count(sent[C], "data", Len(sent[C])) + (IF m = "data" THEN 1 ELSE 0)
    BY <1>t, E!CountAppend, AgentConstants
  <2> QED BY <1>t, <1>1, <2>2, <2>3 DEF DataIn, E!Count
<1>2. CASE E!ReaderData(C)
  <2>1. reads'[C] = reads[C] + 1
    BY <1>c, <1>2, ReadsMoves, CountTypes
  <2>2. sent' = IF ws = "up" /\ born[C] = session
                THEN [sent EXCEPT ![C] = Append(sent[C], "data")] ELSE sent
    BY <1>2 DEF E!ReaderData, E!Send, E!connVars
  <2>3. CASE ws = "up" /\ born[C] = session
    <3>1. sent'[C] = Append(sent[C], "data")
      BY <1>t, <2>2, <2>3, OneConnection
    <3> QED BY <1>1, <1>2, <2>1, <2>3, <3>1
  <2>4. CASE ~(ws = "up" /\ born[C] = session)
    BY <1>0, <1>2, <2>1, <2>2, <2>4
  <2> QED BY <2>3, <2>4
<1>3. CASE ~ E!ReaderData(C)
  <2>1. reads' = reads
    BY <1>c, <1>3, ReadsMoves
  <2>2. sent'[C] = sent[C] \/ \E m \in {"ok", "error", "reset"} : sent'[C] = Append(sent[C], m)
    BY <1>c, <1>3, AgentSends
  <2>3. CASE sent'[C] = sent[C]
    BY <1>0, <1>3, <2>1, <2>3
  <2>4. ASSUME NEW m \in {"ok", "error", "reset"}, sent'[C] = Append(sent[C], m)
        PROVE  DataIn(taken)' = DataIn(taken) /\ DataIn(Len(sent[C]))' = DataIn(Len(sent[C]))
    <3>1. DataIn(Len(sent[C]))' = DataIn(Len(sent[C])) + 0 /\ DataIn(taken)' = DataIn(taken)
      BY <1>1, <2>4
    <3> QED BY <3>1, CountTypes
  <2> QED BY <1>3, <2>1, <2>2, <2>3, <2>4
<1> QED BY <1>2, <1>3

LEMMA CountRelay ==
  ASSUME CoreInv, RequestInv, CountInv, RelayActs, [Next]_vars
  PROVE  CountInv'
<1>c. RelayInv /\ MeetInv /\ remote \in [{C} -> R!RemoteState] /\ C \in {C}
  BY OneConnection DEF CoreInv, ComponentInv, RelayInv, R!TypeOK
<1>u. UNCHANGED <<sent, reads, born, ws, session>>
  BY <1>c, RelayStep DEF agentVars
<1>1. /\ (DataIn(Len(sent[C])) <= reads[C])'
      /\ (born[C] = 0 \/ (ws = "up" /\ born[C] = session) => DataIn(Len(sent[C])) = reads[C])'
  BY <1>u DEF CountInv, DataIn
<1>t. /\ taken \in Nat /\ DataIn(taken) \in Nat /\ emitted[C] \in Nat
      /\ DataIn(taken + 1) = DataIn(taken) + (IF sent[C][taken + 1] = "data" THEN 1 ELSE 0)
      /\ Piped \in Nat /\ Piped' \in Nat /\ Piped <= emitted[C]
  BY CountTypes, PipeMoves DEF CountInv
<1>d. DataIn(taken)' = E!Count(sent[C], "data", taken') /\ DataIn(taken) = E!Count(sent[C], "data", taken)
      /\ DataIn(taken + 1) = E!Count(sent[C], "data", taken + 1)
  BY <1>u DEF DataIn
<1>b. emitted[C] <= DataIn(taken) /\ (remote[C] # "ended" => emitted[C] = DataIn(taken))
  BY DEF CountInv
<1> SUFFICES /\ Piped' <= emitted'[C]
             /\ emitted'[C] <= DataIn(taken)'
             /\ remote'[C] # "ended" => emitted'[C] = DataIn(taken)'
  BY <1>1 DEF CountInv
<1>2. CASE RelayTakesData
  <2>1. emitted'[C] = emitted[C] + 1 /\ remote[C] = "open"
    BY <1>2, <1>c, <1>u, RemoteMoves DEF RelayTakesData, R!RecvData
  <2>2. taken' = taken + 1 /\ sent[C][taken + 1] = "data"
    BY <1>2, TakenMoves, NextIsSent DEF RelayTakesData
  <2>3. DataIn(taken)' = DataIn(taken) + 1
    BY <1>d, <1>t, <2>2
  <2>4. Piped' <= Piped + 1
    BY <1>t, PipeMoves
  <2>5. Piped' <= emitted[C] + 1
    BY <1>t, <2>4
  <2>6. emitted[C] = DataIn(taken)
    BY <1>b, <2>1
  <2> QED BY <1>t, <2>1, <2>3, <2>5, <2>6
<1>3. CASE RelayTakesAnswer \/ RelayTakesReset \/ RelayTakesLate
  <2>1. emitted' = emitted /\ ~ RelayTakesData
    BY <1>3, <1>c, RemoteMoves DEF RelayTakesAnswer, RelayTakesData, RelayTakesReset,
       RelayTakesLate, relayVars
  <2>2. taken' = taken + 1
    BY <1>3, TakenMoves
  <2>3. Piped' <= emitted'[C]
    <3>1. Piped' <= Piped
      BY <2>1, PipeMoves
    <3> QED BY <1>t, <2>1, <3>1
  <2>4. CASE sent[C][taken + 1] = "data"
    <3>1. DataIn(taken)' = DataIn(taken) + 1
      BY <1>d, <1>t, <2>2, <2>4
    <3>2. remote'[C] = "ended"
      <4>1. NextFromAgent = "data"
        BY <1>3, <2>4, NextIsSent DEF RelayTakesAnswer, RelayTakesReset, RelayTakesLate
      <4>2. RelayTakesLate
        BY <1>3, <4>1 DEF RelayTakesAnswer, RelayTakesReset
      <4> QED BY <4>2 DEF RelayTakesLate, relayVars
    <3>3. emitted[C] <= DataIn(taken) + 1
      BY <1>b, <1>t
    <3> QED BY <2>1, <2>3, <3>1, <3>2, <3>3
  <2>5. CASE sent[C][taken + 1] # "data"
    <3>1. DataIn(taken)' = DataIn(taken)
      BY <1>d, <1>t, <2>2, <2>5
    <3>2. remote'[C] = "ended" \/ remote[C] # "ended"
      BY <1>3, <1>c DEF RelayTakesAnswer, RelayTakesReset, RelayTakesLate, R!RecvAnswer,
         R!RecvReset, relayVars
    <3> QED BY <1>b, <2>1, <2>3, <3>1, <3>2
  <2> QED BY <2>4, <2>5
<1>4. CASE ~ (RelayTakesAnswer \/ RelayTakesData \/ RelayTakesReset \/ RelayTakesLate)
  <2>1. emitted' = emitted /\ (remote'[C] # "ended" => remote[C] # "ended")
    BY <1>4, <1>c, RemoteMoves
  <2>2. taken' = taken
    BY <1>4, TakenMoves
  <2>3. DataIn(taken)' = DataIn(taken)
    BY <1>d, <2>2
  <2>4. Piped' <= Piped
    BY <1>4, PipeMoves
  <2>5. Piped' <= emitted'[C]
    BY <1>t, <2>1, <2>4
  <2> QED BY <1>b, <2>1, <2>3, <2>5
<1> QED BY <1>2, <1>3, <1>4

LEMMA CountAgent ==
  ASSUME CoreInv, CountInv, AgentActs
  PROVE  CountInv'
<1>c. AgentInv /\ MeetInv
  BY DEF CoreInv, ComponentInv
<1>u. UNCHANGED <<delivered, hand, buf, emitted, remote, taken>> /\ session' = session
      /\ (ws' = "up" => ws = "up")
  BY <1>c, AgentStep, SessionLasts DEF relayOwn
<1>t. DataIn(Len(sent[C])) \in Nat /\ reads[C] \in Nat
  BY CountTypes
<1>1. /\ (Piped <= emitted[C])'
      /\ (emitted[C] <= DataIn(taken) /\ (remote[C] # "ended" => emitted[C] = DataIn(taken)))'
  BY <1>u, CountSent DEF CountInv, Piped
<1>2. CASE ~ E!ReaderData(C)
  <2>1. DataIn(Len(sent[C]))' = DataIn(Len(sent[C])) /\ reads' = reads
    BY <1>2, CountSent
  <2>2. born' = born \/ born[C] = 0
    BY BornMoves
  <2> QED BY <1>1, <1>u, <2>1, <2>2 DEF CountInv
<1>3. CASE E!ReaderData(C)
  <2>1. /\ reads'[C] = reads[C] + 1 /\ born' = born /\ ws' = ws
        /\ IF ws = "up" /\ born[C] = session
           THEN DataIn(Len(sent[C]))' = DataIn(Len(sent[C])) + 1
           ELSE DataIn(Len(sent[C]))' = DataIn(Len(sent[C]))
    BY <1>3, CountSent DEF E!ReaderData, E!connVars
  <2>2. born[C] # 0
    <3>1. erpc[C] # "none" /\ E!AnswerInv(C)
      BY <1>3, <1>c, OneConnection DEF E!ReaderData, AgentInv, E!AnswersInv
    <3> QED BY <3>1 DEF E!AnswerInv
  <2>3. CASE ws = "up" /\ born[C] = session
    <3>1. DataIn(Len(sent[C])) = reads[C]
      BY <2>3 DEF CountInv
    <3> QED BY <1>1, <1>t, <2>1, <2>3, <3>1 DEF CountInv
  <2>4. CASE ~(ws = "up" /\ born[C] = session)
    <3>1. DataIn(Len(sent[C])) <= reads[C] + 1
      BY <1>t DEF CountInv
    <3>2. ~(born'[C] = 0 \/ (ws' = "up" /\ born'[C] = session'))
      BY <1>u, <2>1, <2>2, <2>4
    <3> QED BY <1>1, <2>1, <2>4, <3>1, <3>2 DEF CountInv
  <2> QED BY <2>3, <2>4
<1> QED BY <1>2, <1>3

LEMMA CountStep ==
  ASSUME CoreInv, RequestInv, CountInv, [Next]_vars
  PROVE  CountInv'
<1>1. CASE ClientActs
  <2>1. UNCHANGED <<delivered, hand, buf, emitted, remote, taken, sent, reads, born, ws, session>>
    BY <1>1, ClientSteps DEF relayOwn, agentVars
  <2> QED BY <2>1 DEF CountInv, Piped, DataIn
<1>2. CASE AgentConnects
  <2>1. /\ UNCHANGED <<delivered, hand, buf, emitted, remote, taken, sent, reads, born>>
        /\ session' = session + 1 /\ session \in Nat
    BY <1>2, SystemOK DEF AgentConnects, E!Connect, R!AgentJoins, R!readerVars, R!remoteVars,
       E!connVars, E!readerVars, channels, CoreInv, ComponentInv, AgentInv, E!EdgeInv, E!TypeOK
  <2>2. born[C] # session'
    <3>1. born[C] <= session /\ born[C] \in Nat
      BY OneConnection DEF CoreInv, ComponentInv, AgentInv, E!AnswersInv, E!AnswerInv,
                           E!EdgeInv, E!TypeOK
    <3> QED BY <2>1, <3>1
  <2> QED BY <2>1, <2>2 DEF CountInv, Piped, DataIn
<1>3. CASE UNCHANGED vars
  BY <1>3 DEF vars, relayVars, agentVars, channels, CountInv, Piped, DataIn
<1> QED BY <1>1, <1>2, <1>3, CountRelay, CountAgent, WhoseStep


-----------------------------------------------------------------------------
(* The order of the messages.                                              *)

\* What the order of the messages needs.
OrderInv == CoreInv /\ ClientInv /\ RequestInv /\ OpenInv /\ CountInv

LEMMA OrderInit == Init => OrderInv
<1> SUFFICES ASSUME Init PROVE OrderInv
  OBVIOUS
<1>1. CoreInv
  BY CoreInit
<1>2. ClientInv /\ RequestInv /\ OpenInv
  <2>1. /\ hpc[C] = "start" /\ agentOf[C] = 0 /\ rpc[C] = "none" /\ remote[C] = "none"
        /\ answers[C] = "none" /\ agentUp = {}
    BY OneConnection DEF Init, R!Init
  <2>2. /\ toClient = <<>> /\ fromClient = <<>> /\ toAgent = <<>> /\ taken = 0
        /\ Len(<<>>) = 0 /\ apc = "start" /\ aws = "none"
    BY EmptyChannel DEF Init, A!Init
  <2>3. born[C] = 0 /\ writer[C] = "none"
    BY OneConnection DEF Init, E!Init
  <2> QED BY <2>1, <2>2, <2>3 DEF ClientInv, BeforeAnswer, RequestInv, AskedInv, AnsweredInv,
                                  OpenInv
<1>3. CountInv
  <2>1. /\ delivered[C] = <<>> /\ hand[C] = <<>> /\ buf[C] = <<>> /\ emitted[C] = 0
        /\ taken = 0
    BY OneConnection DEF Init, R!Init
  <2>2. sent[C] = <<>> /\ reads[C] = 0
    BY OneConnection DEF Init, E!Init
  <2>3. Len(<<>>) = 0 /\ 0 + 0 + 0 = 0
    BY EmptyChannel
  <2>4. Piped = 0
    BY <2>1, <2>3 DEF Piped
  <2>5. DataIn(0) = 0
    BY E!CountNext, AgentConstants DEF DataIn
  <2> QED BY <2>1, <2>2, <2>3, <2>4, <2>5 DEF CountInv
<1> QED BY <1>1, <1>2, <1>3 DEF OrderInv

LEMMA OrderHolds == Spec => []OrderInv
<1>1. OrderInv /\ [Next]_vars => OrderInv'
  BY CoreStep, OrderStep, RequestStep, OpenStep, CountStep DEF OrderInv
<1> QED BY <1>1, OrderInit, PTL DEF Spec

\* What RelaySession and AccessClient assume of the order of their peers' messages
\* holds of the real peers, whatever fails when and in however many sessions: an
\* answer comes while it was asked for, data with the number the relay counts to,
\* anything after a reset about a connection that is gone, the client's answer
\* before its data, and the request before all of it.
THEOREM PeersKeepProtocolHolds == Spec => []PeersKeepProtocol
<1>1. OrderInv => PeersKeepProtocol
  <2> SUFFICES ASSUME OrderInv PROVE PeersKeepProtocol
    OBVIOUS
  <2> USE DEF OrderInv
  <2>c. /\ remote[C] \in {"none", "asked", "open", "refused", "ended"}
        /\ apc \in {"start", "answer", "pump", "done"}
        /\ taken \in Nat /\ E!AnswerInv(C)
        /\ toClient \in Seq(ToClientMessages) /\ toAgent \in Seq(ToAgentMessages)
    BY OneConnection DEF CoreInv, ComponentInv, RelayInv, R!TypeOK, R!RemoteState, A!TypeOK,
       MessagesInv, AgentInv, E!AnswersInv
  <2>n. ASSUME NextFromAgent # "none"
        PROVE  /\ remote[C] # "none" /\ sent[C] # <<>>
               /\ taken = 0 => NextFromAgent = sent[C][1]
    <3>1. /\ taken + 1 \in 1 .. Len(sent[C]) /\ NextFromAgent = sent[C][taken + 1]
      BY <2>n, NextIsSent
    <3>2. sent[C] # <<>>
      BY <3>1
    <3>3. born[C] # 0
      BY <2>c, <3>2 DEF E!AnswerInv
    <3>4. taken = 0 => taken + 1 = 1
      OBVIOUS
    <3> QED BY <3>1, <3>2, <3>3, <3>4 DEF RequestInv, AskedInv
  <2>1. NextFromAgent \in {"ok", "error"} => remote[C] = "asked"
    <3> SUFFICES ASSUME NextFromAgent \in {"ok", "error"} PROVE remote[C] = "asked"
      OBVIOUS
    <3>1. ~(taken > 0)
      BY NextIsSent
    <3>2. taken = 0
      BY <2>c, <3>1
    <3> QED BY <2>n, <3>2 DEF RequestInv, AnsweredInv
  <2>2. NextFromAgent \in {"data", "reset"} =>
          \/ remote[C] = "open" /\ emitted[C] = DataIn(taken)
          \/ remote[C] = "ended" /\ (lpc[agentOf[C]] = "receive" => C \notin relayed)
    <3> SUFFICES ASSUME NextFromAgent \in {"data", "reset"}
                 PROVE  \/ remote[C] = "open" /\ emitted[C] = DataIn(taken)
                        \/ remote[C] = "ended" /\ (lpc[agentOf[C]] = "receive" => C \notin relayed)
      OBVIOUS
    <3>1. taken # 0
      <4>1. sent[C] = <<"error">> \/ sent[C][1] = "ok"
        BY NextIsSent
      <4>2. sent[C][1] \notin {"data", "reset"}
        BY <4>1
      <4> QED BY <2>n, <4>2
    <3>2. taken > 0
      BY <2>c, <3>1
    <3>3. sent[C][1] = "ok"
      BY <3>2, NextIsSent
    <3>4. remote[C] \in {"open", "ended"}
      BY <2>c, <3>1, <3>2, <3>3 DEF RequestInv, AnsweredInv
    <3>5. remote[C] = "open" => emitted[C] = DataIn(taken)
      BY DEF CountInv
    <3> QED BY <3>4, <3>5 DEF RequestInv, AnsweredInv
  <2>3. toClient # <<>> =>
          CASE apc = "answer" -> Head(toClient)[1] \in {"start_ok", "error"}
            [] apc = "pump" -> Head(toClient)[1] = "data"
            [] OTHER -> FALSE
    <3> SUFFICES ASSUME toClient # <<>>
                 PROVE  /\ apc = "answer" => Head(toClient)[1] \in {"start_ok", "error"}
                        /\ apc = "pump" => Head(toClient)[1] = "data"
                        /\ apc \in {"answer", "pump"}
      BY <2>c
    <3>1. apc \in {"answer", "pump"}
      BY <2>c DEF ClientInv
    <3>2. 1 \in 1 .. Len(toClient) /\ Head(toClient) = toClient[1]
      BY <2>c, ChannelTail
    <3> QED BY <3>1, <3>2 DEF ClientInv
  <2>4. First(toAgent, "initiate") => born[C] = 0
    <3>1. toAgent # <<>> => 1 \in 1 .. Len(toAgent) /\ Head(toAgent) = toAgent[1]
      BY <2>c, ChannelTail
    <3> QED BY <3>1 DEF First, RequestInv, AskedInv
  <2> QED BY <2>1, <2>2, <2>3, <2>4 DEF PeersKeepProtocol
<1> QED BY <1>1, OrderHolds, PTL

-----------------------------------------------------------------------------
(* The chunks in the channels.                                             *)

LEMMA EmptyBlock ==
  /\ \A n \in Nat : Block(n, n) = <<>>
  /\ \A m, n \in Nat : m <= n /\ Block(m, n) = <<>> => m = n
<1>1. ASSUME NEW n \in Nat PROVE Block(n, n) = <<>>
  <2>1. Block(n, n) \in Seq(Nat) /\ Len(Block(n, n)) = 0
    BY BlockIsSeq
  <2> QED BY <2>1
<1>2. ASSUME NEW m \in Nat, NEW n \in Nat, m <= n, Block(m, n) = <<>> PROVE m = n
  <2>1. Len(Block(m, n)) = n - m /\ Len(<<>>) = 0
    BY <1>2, BlockIsSeq
  <2>2. n - m = 0
    BY <1>2, <2>1
  <2> QED BY <2>2
<1> QED BY <1>1, <1>2

LEMMA ContentsAppend ==
  ASSUME NEW M, NEW ch \in Seq(M), NEW msg \in M, NEW m \in Nat, NEW n \in Nat, NEW k \in Nat,
         n <= k, EndToEnd(Contents(ch), m, n), msg[2] = Block(n, k)
  PROVE  EndToEnd(Contents(Append(ch, msg)), m, k)
<1> DEFINE s == Contents(ch)
           t == Contents(Append(ch, msg))
           L == Len(ch)
<1>1. /\ L \in Nat /\ Len(Append(ch, msg)) = L + 1
      /\ \A i \in 1 .. L : Append(ch, msg)[i] = ch[i]
      /\ Append(ch, msg)[L + 1] = msg
  BY ChannelAppend
<1>2. Len(s) = L /\ Len(t) = L + 1
  BY <1>1 DEF Contents
<1>3. \A i \in 1 .. L : i \in 1 .. L + 1
  BY <1>1
<1>4. \A i \in 1 .. L : t[i] = s[i]
  BY <1>1, <1>3 DEF Contents
<1>5. L + 1 \in 1 .. L + 1
  BY <1>1
<1>6. t[L + 1] = Block(n, k)
  BY <1>1, <1>5 DEF Contents
<1>7. EndToEnd(s, m, n)
  OBVIOUS
<1> HIDE DEF s, t, L
<1>8. EndToEnd(t, m, k)
  BY <1>1, <1>2, <1>4, <1>6, <1>7, EndToEndMore
<1> QED BY <1>8 DEF t

LEMMA ContentsTail ==
  ASSUME NEW M, NEW ch \in Seq(M), ch # <<>>, NEW m \in Nat, NEW n \in Nat,
         EndToEnd(Contents(ch), m, n)
  PROVE  \E k \in m .. n : Head(ch)[2] = Block(m, k) /\ EndToEnd(Contents(Tail(ch)), k, n)
<1> DEFINE s == Contents(ch)
           t == Contents(Tail(ch))
           L == Len(ch)
<1>1. /\ Head(ch) = ch[1] /\ L \in Nat \ {0} /\ Len(Tail(ch)) = L - 1
      /\ \A i \in 1 .. L - 1 : Tail(ch)[i] = ch[i + 1]
  BY ChannelTail
<1>2. Len(s) = L /\ Len(t) = L - 1
  BY <1>1 DEF Contents
<1>3. 1 \in 1 .. L /\ \A i \in 1 .. L - 1 : i + 1 \in 1 .. L
  BY <1>1
<1>4. \A i \in 1 .. L - 1 : t[i] = s[i + 1]
  BY <1>1, <1>3 DEF Contents
<1>5. s[1] = Head(ch)[2]
  BY <1>1, <1>3 DEF Contents
<1>6. EndToEnd(s, m, n)
  OBVIOUS
<1> HIDE DEF s, t, L
<1>7. \E k \in m .. n : s[1] = Block(m, k) /\ EndToEnd(t, k, n)
  BY <1>1, <1>2, <1>4, <1>6, EndToEndRest
<1> QED BY <1>5, <1>7 DEF t

\* What a message carries for the target.
Unframed(msg) == IF msg[1] = "data" THEN PayloadOf(msg[2]) ELSE <<>>

LEMMA FramedAppend ==
  ASSUME NEW ch \in Seq(ToAgentMessages), NEW msg \in ToAgentMessages,
         NEW m \in Nat, NEW n \in Nat, NEW k \in Nat,
         n <= k, EndToEnd(Framed(ch), m, n), Unframed(msg) = Block(n, k)
  PROVE  EndToEnd(Framed(Append(ch, msg)), m, k)
<1> DEFINE s == Framed(ch)
           t == Framed(Append(ch, msg))
           L == Len(ch)
<1>1. /\ L \in Nat /\ Len(Append(ch, msg)) = L + 1
      /\ \A i \in 1 .. L : Append(ch, msg)[i] = ch[i]
      /\ Append(ch, msg)[L + 1] = msg
  BY ChannelAppend
<1>2. Len(s) = L /\ Len(t) = L + 1
  BY <1>1 DEF Framed
<1>3. \A i \in 1 .. L : i \in 1 .. L + 1
  BY <1>1
<1>4. \A i \in 1 .. L : t[i] = s[i]
  BY <1>1, <1>3 DEF Framed
<1>5. L + 1 \in 1 .. L + 1
  BY <1>1
<1>6. t[L + 1] = Block(n, k)
  BY <1>1, <1>5 DEF Framed, Unframed
<1>7. EndToEnd(s, m, n)
  OBVIOUS
<1> HIDE DEF s, t, L
<1>8. EndToEnd(t, m, k)
  BY <1>1, <1>2, <1>4, <1>6, <1>7, EndToEndMore
<1> QED BY <1>8 DEF t

LEMMA FramedTail ==
  ASSUME NEW ch \in Seq(ToAgentMessages), ch # <<>>, NEW m \in Nat, NEW n \in Nat,
         EndToEnd(Framed(ch), m, n)
  PROVE  \E k \in m .. n : Unframed(Head(ch)) = Block(m, k) /\ EndToEnd(Framed(Tail(ch)), k, n)
<1> DEFINE s == Framed(ch)
           t == Framed(Tail(ch))
           L == Len(ch)
<1>1. /\ Head(ch) = ch[1] /\ L \in Nat \ {0} /\ Len(Tail(ch)) = L - 1
      /\ \A i \in 1 .. L - 1 : Tail(ch)[i] = ch[i + 1]
  BY ChannelTail
<1>2. Len(s) = L /\ Len(t) = L - 1
  BY <1>1 DEF Framed
<1>3. 1 \in 1 .. L /\ \A i \in 1 .. L - 1 : i + 1 \in 1 .. L
  BY <1>1
<1>4. \A i \in 1 .. L - 1 : t[i] = s[i + 1]
  BY <1>1, <1>3 DEF Framed
<1>5. s[1] = Unframed(Head(ch))
  BY <1>1, <1>3 DEF Framed, Unframed
<1>6. EndToEnd(s, m, n)
  OBVIOUS
<1> HIDE DEF s, t, L
<1>7. \E k \in m .. n : s[1] = Block(m, k) /\ EndToEnd(t, k, n)
  BY <1>1, <1>2, <1>4, <1>6, EndToEndRest
<1> QED BY <1>5, <1>7 DEF t

LEMMA EmptyContents ==
  ASSUME NEW m \in Nat
  PROVE  EndToEnd(Contents(<<>>), m, m) /\ EndToEnd(Framed(<<>>), m, m)
<1>1. Len(Contents(<<>>)) = 0 /\ Len(Framed(<<>>)) = 0
  BY DEF Contents, Framed
<1> QED BY <1>1, EndToEndNone

\* The connection to the target is opened once and closed once.
LEMMA WriterOnce ==
  ASSUME AgentInv, AgentActs
  PROVE  \/ writer'[C] = writer[C]
         \/ E!Connected(C) /\ writer[C] = "none" /\ writer'[C] = "open"
         \/ writer[C] = "open" /\ writer'[C] = "closed" /\ reads' = reads
<1> USE OneConnection DEF AgentInv, E!EdgeInv, E!TypeOK, E!CloseWriter, E!AnswersInv, E!AnswerInv
<1>c. writer[C] \in {"none", "open", "closed"} /\ (C \in active <=> writer[C] = "open")
  BY DEF E!NoLeakedWriter
<1>1. CASE AgentInitiates \/ AgentWrites \/ AgentTakesLate \/ AgentReads
           \/ AgentPeers \/ AgentFlushes
  BY <1>1 DEF AgentInitiates, AgentWrites, AgentTakesLate, AgentReads, AgentPeers,
     AgentFlushes, E!Initiate, E!WriteData, E!ReaderData, E!TargetEnds,
     E!TargetResets, E!TargetReads, E!RelayLost, agentVars, E!connVars
<1>2. CASE AgentCloses
  BY <1>2, <1>c DEF AgentCloses, E!RelayCloses, E!readerVars
<1>3. CASE AgentInternal
  <2>1. CASE E!Connected(C)
    BY <2>1 DEF E!Connected
  <2>2. CASE E!ConnectFails(C) \/ E!Confirmed(C) \/ E!Reported
             \/ E!Drained(C) \/ E!DrainFails(C) \/ E!MainSendRaises \/ E!ReceiveRaises
             \/ E!ReaderSent(C) \/ E!ReaderDone(C)
    BY <2>2 DEF E!ConnectFails, E!Confirmed, E!Reported, E!Drained, E!DrainFails,
       E!MainSendRaises, E!ReceiveRaises, E!ReaderSent, E!ReaderDone, E!connVars
  <2>3. CASE E!DrainReset(C)
    BY <1>c, <2>3 DEF E!DrainReset, E!readerVars
  <2>4. CASE E!CleanUp
    BY <1>c, <2>4 DEF E!CleanUp, E!readerVars
  <2>5. CASE E!ReaderEnds(C) \/ E!ReaderSendRaises(C)
    <3>1. E!Finally(C) /\ writer[C] # "none"
      BY <2>5 DEF E!ReaderEnds, E!ReaderSendRaises
    <3> QED BY <1>c, <3>1 DEF E!Finally
  <2> QED BY <1>3, <2>1, <2>2, <2>3, <2>4, <2>5 DEF AgentInternal
<1> QED BY <1>1, <1>2, <1>3 DEF AgentActs

\* What the client types is under way to the target.
LEMMA WriteClient ==
  ASSUME CoreInv, WriteInv, ClientActs
  PROVE  WriteInv'
<1>1. /\ UNCHANGED <<toAgent, wrote, carried, hpc, agentOf, agentUp, writer>>
      /\ fromClient \in Seq(ToRelayMessages) /\ typed \in Nat
  BY ClientSteps, SystemOK DEF relayOwn, agentVars, CoreInv, ComponentInv, A!TypeOK, MessagesInv
<1>2. ASSUME NEW m \in Nat, NEW n \in Nat, Underway(m, n) PROVE Underway(m, n)'
  <2>e. Reaching' <=> Reaching
    BY <1>1 DEF Reaching
  <2>f. ASSUME typed' \in Nat, typed <= typed',
               EndToEnd(Contents(fromClient), n, typed) /\ hpc[C] \in Receiving =>
                 EndToEnd(Contents(fromClient'), n, typed')
        PROVE  Underway(m, n)'
    <3>1. n <= typed'
      BY <1>1, <1>2, <2>f DEF Underway
    <3> QED BY <1>1, <1>2, <2>e, <2>f, <3>1 DEF Underway
  <2>1. CASE ClientStarts
    <3>1. typed' = typed /\ ToRelay("start", <<>>)
      BY <2>1 DEF ClientStarts, A!Start
    <3>2. ASSUME EndToEnd(Contents(fromClient), n, typed), hpc[C] \in Receiving
          PROVE  EndToEnd(Contents(fromClient'), n, typed')
      <4> DEFINE msg == Message("start", <<>>)
      <4>1. msg \in ToRelayMessages /\ msg[2] = Block(typed, typed)
        BY <1>1, EmptyBlock DEF Message, ToRelayMessages
      <4>2. fromClient' = Append(fromClient, msg)
        BY <3>1, <3>2 DEF ToRelay
      <4> HIDE DEF msg
      <4>3. typed <= typed
        BY <1>1
      <4>4. EndToEnd(Contents(Append(fromClient, msg)), n, typed)
        BY <1>1, <3>2, <4>1, <4>3, ContentsAppend
      <4> QED BY <3>1, <4>2, <4>4
    <3>3. typed <= typed' /\ typed' \in Nat
      BY <1>1, <3>1
    <3> QED BY <2>f, <3>2, <3>3
  <2>2. CASE ClientTypes
    <3>1. typed' = typed + 1 /\ ToRelay("data", <<typed'>>)
      BY <2>2 DEF ClientTypes, A!ReadStdin
    <3>3. typed <= typed' /\ typed' \in Nat
      BY <1>1, <3>1
    <3>2. ASSUME EndToEnd(Contents(fromClient), n, typed), hpc[C] \in Receiving
          PROVE  EndToEnd(Contents(fromClient'), n, typed')
      <4> DEFINE msg == Message("data", <<typed'>>)
      <4>1. msg \in ToRelayMessages /\ msg[2] = <<typed + 1>>
        BY <3>1, <3>3, ChunkOfOne DEF Message, ToRelayMessages
      <4>2. fromClient' = Append(fromClient, msg)
        BY <3>1, <3>2 DEF ToRelay
      <4> HIDE DEF msg
      <4>3. Block(typed, typed + 1) = <<typed + 1>>
        <5>1. (typed + 1) - typed = 1 /\ \A i \in 1 .. 1 : typed + i = typed + 1
          BY <1>1
        <5>2. Block(typed, typed + 1) = [i \in 1 .. 1 |-> typed + 1]
          BY <5>1 DEF Block
        <5> QED BY <5>2
      <4>4. EndToEnd(Contents(Append(fromClient, msg)), n, typed')
        BY <1>1, <3>1, <3>2, <3>3, <4>1, <4>3, ContentsAppend
      <4> QED BY <4>2, <4>4
    <3> QED BY <2>f, <3>2, <3>3
  <2>3. CASE ~ (ClientStarts \/ ClientTypes)
    <3>1. UNCHANGED <<typed, fromClient>>
      BY <2>3 DEF ClientActs, ClientAccepted, ClientRefused, ClientShows, ClientEnds,
         ClientKilled, ClientClosed, ClientLost, A!Accepted, A!Refused, A!ShowData,
         A!ReceiveEnds, A!Killed, A!SocketCloses
    <3> QED BY <1>1, <2>f, <3>1
  <2> QED BY <2>1, <2>2, <2>3
<1> QED BY <1>1, <1>2 DEF WriteInv

\* Nothing is lost or doubled by the relay while it can reach the agent.
LEMMA WriteRelay ==
  ASSUME CoreInv, RequestInv, WriteInv, RelayActs
  PROVE  WriteInv'
<1>c. RelayInv /\ MeetInv
  BY DEF CoreInv, ComponentInv
<1>t. /\ UNCHANGED <<wrote, typed, agentUp, writer>> /\ typed \in Nat
      /\ fromClient \in Seq(ToRelayMessages) /\ toAgent \in Seq(ToAgentMessages)
      /\ carried \in Seq(Nat) /\ (hpc[C] = "forward" => carried \in OneChunk)
      /\ (carried # <<>> => hpc[C] \in {"forward", "crashed"})
  BY <1>c, RelayStep, SystemOK DEF clientVars, agentVars, CoreInv, ComponentInv, A!TypeOK,
     MessagesInv
<1>w. Len(wrote) \in Nat
  BY UpToIsSeq DEF WriteInv
<1>1. /\ Reaching' => Reaching
      /\ hpc'[C] \in Receiving => hpc[C] \in Receiving
      /\ agentOf[C] \in agentUp /\ ~ RelayAccepts => agentOf'[C] \in agentUp
  BY <1>c, <1>t, HandlerMoves, GivenOnce DEF Reaching, Receiving
<1>2. ASSUME NEW m \in Nat, NEW n \in Nat, Underway(m, n)
      PROVE  \E k, l \in Nat : Underway(k, l)'
  <2>0. m <= n /\ n <= typed /\ EndToEnd(Framed(toAgent), Len(wrote), m)
    BY <1>2 DEF Underway
  <2>1. CASE RelayForwards
    <3>1. /\ hpc[C] = "forward" /\ fromClient' = fromClient /\ carried' = <<>>
          /\ hpc'[C] = "receive" /\ "receive" # "start"
      BY <1>c, <2>1, OneConnection DEF RelayForwards, R!Forwarded, RelayInv, R!TypeOK, R!Goto
    <3>2. CASE agentOf[C] \in agentUp
      <4>1. carried = Block(m, n) /\ EndToEnd(Contents(fromClient), n, typed)
        BY <1>2, <3>1, <3>2 DEF Underway, Reaching, Receiving
      <4> DEFINE msg == Message("data", encode_tcp_binary_frame(Id, carried))
      <4>2. msg \in ToAgentMessages /\ Unframed(msg) = Block(m, n)
        BY <1>t, <3>1, <4>1, FrameOfChunk DEF Message, ToAgentMessages, Unframed
      <4>3. toAgent' = Append(toAgent, msg)
        BY <2>1, <3>2 DEF RelayForwards, ToAgent
      <4> HIDE DEF msg
      <4>4. EndToEnd(Framed(Append(toAgent, msg)), Len(wrote), n)
        BY <1>t, <2>0, <4>2, FramedAppend, <1>w
      <4>5. Underway(n, n)'
        BY <1>t, <2>0, <3>1, <4>1, <4>3, <4>4, EmptyBlock DEF Underway
      <4> QED BY <4>5
    <3>3. CASE agentOf[C] \notin agentUp
      <4>1. toAgent' = toAgent /\ ~ Reaching'
        BY <1>c, <1>t, <2>1, <3>1, <3>3 DEF RelayForwards, ToAgent, R!Forwarded, R!tableVars,
           Reaching
      <4>2. Underway(m, n)'
        BY <1>t, <2>0, <4>1 DEF Underway
      <4> QED BY <4>2
    <3> QED BY <3>2, <3>3
  <2>2. CASE RelayReceives
    <3>1. /\ hpc[C] = "receive" /\ hpc'[C] = "forward" /\ toAgent' = toAgent
          /\ agentOf' = agentOf /\ fromClient # <<>>
          /\ carried' = Head(fromClient)[2] /\ fromClient' = Tail(fromClient)
      BY <1>c, <2>2, OneConnection DEF RelayReceives, R!ReceiveData, RelayInv, R!TypeOK, R!Goto,
         First, Chunks, R!tableVars
    <3>2. CASE Reaching
      <4>1. carried = <<>> /\ carried = Block(m, n) /\ EndToEnd(Contents(fromClient), n, typed)
        BY <1>t, <1>2, <3>1, <3>2 DEF Underway, Receiving
      <4>2. m = n
        BY <2>0, <4>1, EmptyBlock
      <4>3. PICK k \in n .. typed : /\ Head(fromClient)[2] = Block(n, k)
                                    /\ EndToEnd(Contents(Tail(fromClient)), k, typed)
        BY <1>t, <3>1, <4>1, ContentsTail
      <4>4. k \in Nat /\ n <= k /\ k <= typed
        BY <1>t
      <4>5. Underway(m, k)'
        BY <1>t, <2>0, <3>1, <4>2, <4>3, <4>4 DEF Underway
      <4> QED BY <4>4, <4>5
    <3>3. CASE ~ Reaching
      <4>1. Underway(m, n)'
        BY <1>1, <1>t, <2>0, <3>1, <3>3 DEF Underway
      <4> QED BY <4>1
    <3> QED BY <3>2, <3>3
  <2>3. CASE RelayAccepts
    <3>1. /\ hpc[C] = "start" /\ toAgent' = toAgent /\ carried' = carried
          /\ fromClient # <<>> /\ Head(fromClient)[1] = "start" /\ fromClient' = Tail(fromClient)
      BY <2>3 DEF RelayAccepts, R!StartAccepted, First, RelaySide
    <3>2. carried = Block(m, n) /\ EndToEnd(Contents(fromClient), n, typed)
      BY <1>2, <3>1 DEF Underway, Reaching, Receiving
    <3>3. PICK k \in n .. typed : /\ Head(fromClient)[2] = Block(n, k)
                                  /\ EndToEnd(Contents(Tail(fromClient)), k, typed)
      BY <1>t, <3>1, <3>2, ContentsTail
    <3>4. Head(fromClient)[2] = <<>>
      BY <1>t, <3>1, ChannelTail DEF ToRelayMessages
    <3>5. k \in Nat /\ n <= k
      BY <1>t
    <3>6. n = k
      BY <3>3, <3>4, <3>5, EmptyBlock
    <3>7. Underway(m, n)'
      BY <1>t, <2>0, <3>1, <3>2, <3>3, <3>6 DEF Underway
    <3> QED BY <3>7
  <2>4. CASE ~ (RelayForwards \/ RelayReceives \/ RelayAccepts)
    <3>1. carried' = carried /\ (fromClient' = fromClient \/ hpc'[C] \notin Receiving)
      <4>1. CASE RelayRejects
        <5>1. hpc'[C] = "done"
          BY <1>c, <4>1, OneConnection DEF RelayRejects, R!RejectStart, R!Goto, RelayInv,
             R!TypeOK
        <5> QED BY <4>1, <5>1 DEF RelayRejects, RelaySide, Receiving
      <4>2. CASE ~ RelayRejects
        BY <2>4, <4>2 DEF RelayActs, RelayInitiates, RelayConfirms, RelayRefuses, RelayCloses,
           RelayDelivers, RelayInternal, RelayTakesAnswer, RelayTakesData, RelayTakesReset,
           RelayTakesLate, Take, RelaySide
      <4> QED BY <4>1, <4>2
    <3>2. EndToEnd(Framed(toAgent'), Len(wrote), m)
      <4>1. CASE toAgent' = toAgent
        BY <2>0, <4>1
      <4>2. ASSUME NEW kind \in {"initiate", "close"},
                   toAgent' = Append(toAgent, Message(kind, <<>>))
            PROVE  EndToEnd(Framed(toAgent'), Len(wrote), m)
        <5> DEFINE msg == Message(kind, <<>>)
        <5>1. msg \in ToAgentMessages /\ Unframed(msg) = Block(m, m) /\ m <= m
          BY EmptyBlock DEF Message, ToAgentMessages, Unframed
        <5>2. toAgent' = Append(toAgent, msg)
          BY <4>2
        <5> HIDE DEF msg
        <5> QED BY <1>t, <2>0, <5>1, <5>2, FramedAppend, <1>w
      <4> QED BY <2>4, <4>1, <4>2, ToAgentMoves
    <3>3. Underway(m, n)'
      BY <1>1, <1>2, <1>t, <2>0, <3>1, <3>2 DEF Underway
    <3> QED BY <3>3
  <2> QED BY <2>1, <2>2, <2>3, <2>4
<1> QED BY <1>2, <1>t DEF WriteInv

\* What the agent takes comes next in the stream, and it writes it.
LEMMA WriteAgent ==
  ASSUME CoreInv, CoreInv', RequestInv, OpenInv, WriteInv, AgentActs
  PROVE  WriteInv'
<1>c. AgentInv /\ MeetInv /\ MeetInv'
  BY DEF CoreInv, ComponentInv
<1>t. /\ UNCHANGED <<hpc, agentOf, typed, fromClient, carried>>
      /\ toAgent \in Seq(ToAgentMessages) /\ Len(wrote) \in Nat /\ wrote \in Seq(Nat)
      /\ wrote = UpTo(Len(wrote)) /\ typed \in Nat /\ writer[C] \in {"none", "open", "closed"}
      /\ (C \in active <=> writer[C] = "open")
  BY <1>c, AgentStep, OneConnection, SystemOK DEF relayOwn, clientVars, CoreInv, ComponentInv,
     MessagesInv, WriteInv, A!TypeOK, AgentInv, E!EdgeInv, E!TypeOK, E!NoLeakedWriter
<1>r. Reaching' => Reaching
  BY <1>t, AgentStep DEF R!AgentLeaves, Reaching
<1>w. writer'[C] # "closed" => writer[C] # "closed"
  BY <1>c, WriterOnce
\* How the channel to the agent and what is written move together.
<1>u. ASSUME NEW m \in Nat, NEW n \in Nat, Underway(m, n),
             EndToEnd(Framed(toAgent'), Len(wrote'), m)
      PROVE  Underway(m, n)'
  BY <1>r, <1>t, <1>u DEF Underway
<1>h. ASSUME NEW m \in Nat, NEW n \in Nat, Underway(m, n), toAgent # <<>>
      PROVE  \E k \in Nat : /\ Len(wrote) <= k /\ Unframed(Head(toAgent)) = Block(Len(wrote), k)
                            /\ EndToEnd(Framed(Tail(toAgent)), k, m)
  <2>1. EndToEnd(Framed(toAgent), Len(wrote), m)
    BY <1>h DEF Underway
  <2>2. PICK k \in Len(wrote) .. m : /\ Unframed(Head(toAgent)) = Block(Len(wrote), k)
                                     /\ EndToEnd(Framed(Tail(toAgent)), k, m)
    BY <1>t, <1>h, <2>1, FramedTail
  <2>3. k \in Nat /\ Len(wrote) <= k
    BY <1>t
  <2> QED BY <2>2, <2>3
<1>e. ASSUME toAgent # <<>>, toAgent' = Tail(toAgent), wrote' = wrote,
             Unframed(Head(toAgent)) = <<>> \/ writer[C] = "closed"
      PROVE  WriteInv'
  <2>1. ASSUME NEW m \in Nat, NEW n \in Nat, Underway(m, n), writer[C] # "closed"
        PROVE  Underway(m, n)'
    <3>1. PICK k \in Nat : /\ Len(wrote) <= k /\ Unframed(Head(toAgent)) = Block(Len(wrote), k)
                           /\ EndToEnd(Framed(Tail(toAgent)), k, m)
      BY <1>e, <1>h, <2>1
    <3>2. k = Len(wrote)
      BY <1>t, <1>e, <2>1, <3>1, EmptyBlock
    <3> QED BY <1>e, <1>u, <2>1, <3>1, <3>2
  <2> QED BY <1>e, <1>t, <1>w, <2>1 DEF WriteInv
<1>1. CASE AgentWrites
  <2>1. /\ toAgent # <<>> /\ Head(toAgent)[1] = "data" /\ toAgent' = Tail(toAgent)
        /\ wrote' = wrote \o Unframed(Head(toAgent)) /\ C \in active
    BY <1>1 DEF AgentWrites, First, Chunks, Unframed, E!WriteData
  <2>2. PICK m \in Nat, n \in Nat : Underway(m, n)
    BY <1>t, <2>1 DEF WriteInv
  <2>3. PICK k \in Nat : /\ Len(wrote) <= k /\ Unframed(Head(toAgent)) = Block(Len(wrote), k)
                         /\ EndToEnd(Framed(Tail(toAgent)), k, m)
    BY <1>h, <2>1, <2>2
  <2>4. wrote' = UpTo(k) /\ UpTo(k) \in Seq(Nat) /\ Len(UpTo(k)) = k
    BY <1>t, <2>1, <2>3, BlocksMeet, UpToIsSeq
  <2>5. Len(wrote') = k
    BY <2>4
  <2>6. Underway(m, n)'
    BY <1>u, <2>1, <2>2, <2>3, <2>5
  <2> QED BY <2>4, <2>5, <2>6 DEF WriteInv
<1>2. CASE AgentInitiates \/ AgentCloses \/ AgentTakesLate
  <2>1. toAgent # <<>> /\ toAgent' = Tail(toAgent) /\ wrote' = wrote
    BY <1>2 DEF AgentInitiates, AgentCloses, AgentTakesLate, First
  <2>2. CASE Head(toAgent)[1] # "data"
    BY <1>e, <2>1, <2>2 DEF Unframed
  <2>3. CASE Head(toAgent)[1] = "data"
    <3>1. C \notin active
      BY <1>2, <2>3 DEF AgentInitiates, AgentCloses, AgentTakesLate, First
    <3>2. writer[C] # "none"
      <4>1. 1 \in 1 .. Len(toAgent) /\ Head(toAgent) = toAgent[1]
        BY <1>t, <2>1, ChannelTail
      <4> QED BY <2>3, <4>1 DEF OpenInv
    <3> QED BY <1>e, <1>t, <2>1, <3>1, <3>2
  <2> QED BY <2>2, <2>3
<1>3. CASE AgentInternal \/ AgentReads \/ AgentPeers \/ AgentFlushes
  <2>1. wrote' = wrote /\ (toAgent' = toAgent \/ (AgentInternal /\ mpc' = "leave" /\ toAgent' = <<>>))
    BY <1>3 DEF AgentInternal, AgentReads, AgentPeers, AgentFlushes
  <2>2. CASE toAgent' = toAgent
    <3>1. ASSUME NEW m \in Nat, NEW n \in Nat, Underway(m, n) PROVE Underway(m, n)'
      BY <1>u, <2>1, <2>2, <3>1 DEF Underway
    <3> QED BY <1>t, <1>w, <2>1, <3>1 DEF WriteInv
  <2>3. CASE mpc' = "leave" /\ toAgent' = <<>>
    <3>1. agentUp' = {}
      BY <1>c, <2>3 DEF MeetInv
    <3>2. ASSUME NEW m \in Nat, NEW n \in Nat, Underway(m, n)
          PROVE  \E k, l \in Nat : Underway(k, l)'
      <4>1. CASE hpc[C] = "start"
        <5>1. toAgent = <<>>
          BY <4>1 DEF RequestInv, AskedInv
        <5> QED BY <1>u, <2>1, <2>3, <3>2, <5>1 DEF Underway
      <4>2. CASE hpc[C] # "start"
        <5>1. ~ Reaching'
          BY <1>t, <3>1, <4>2 DEF Reaching
        <5>2. Len(Framed(toAgent)) \in Nat
          BY <1>t DEF Framed
        <5>3. Len(wrote) <= m
          BY <1>t, <3>2, <5>2, EndToEndBounds DEF Underway
        <5>4. Len(wrote) <= typed /\ Len(wrote) <= Len(wrote)
          BY <1>t, <3>2, <5>3 DEF Underway
        <5>5. EndToEnd(Framed(toAgent'), Len(wrote'), Len(wrote))
          BY <1>t, <2>1, <2>3, EmptyContents
        <5>6. Underway(Len(wrote), Len(wrote))'
          BY <1>t, <2>1, <5>1, <5>4, <5>5 DEF Underway
        <5> QED BY <1>t, <5>6
      <4> QED BY <4>1, <4>2
    <3> QED BY <1>t, <1>w, <2>1, <3>2 DEF WriteInv
  <2> QED BY <2>1, <2>2, <2>3
<1> QED BY <1>1, <1>2, <1>3 DEF AgentActs

LEMMA WriteStep ==
  ASSUME CoreInv, RequestInv, OpenInv, WriteInv, [Next]_vars
  PROVE  WriteInv'
<1>1. CASE AgentConnects
  <2>1. /\ UNCHANGED <<channels, clientVars, writer, hpc, agentOf>>
        /\ agentUp' = agentUp \cup {session'} /\ session' = session + 1
    BY <1>1 DEF AgentConnects, E!Connect, E!connVars, R!AgentJoins, R!tableVars
  <2>2. agentOf[C] # session'
    <3>1. session \in Nat
      BY SystemOK DEF CoreInv, ComponentInv, AgentInv, E!EdgeInv, E!TypeOK
    <3>2. agentOf[C] = 0 \/ (agentOf[C] \in Nat /\ agentOf[C] <= session)
      BY AgentKnown, SystemOK
    <3> QED BY <2>1, <3>1, <3>2
  <2>3. Reaching' => Reaching
    BY <2>1, <2>2 DEF Reaching
  <2>4. ASSUME NEW m \in Nat, NEW n \in Nat, Underway(m, n) PROVE Underway(m, n)'
    BY <2>1, <2>3, <2>4 DEF Underway, channels, clientVars
  <2> QED BY <2>1, <2>4 DEF WriteInv, channels
<1>2. CASE UNCHANGED vars
  BY <1>2 DEF vars, channels, clientVars, relayVars, agentVars, WriteInv, Underway, Reaching
<1> QED BY <1>1, <1>2, CoreStep, WriteClient, WriteRelay, WriteAgent, WhoseStep

\* What the reader has sent is a prefix of what was emitted.
LEMMA DeliveredInOrder ==
  /\ RelayInv => delivered[C] = UpTo(Len(delivered[C]))
  /\ RelayInv' => delivered'[C] = UpTo(Len(delivered'[C]))
BY OneConnection DEF RelayInv, R!StreamInv, R!StreamOK, R!UpTo, UpTo

\* What the client takes comes next in the stream, and it puts it out.
LEMMA ShowClient ==
  ASSUME CoreInv, ShowInv, ClientActs
  PROVE  ShowInv'
<1>t. /\ delivered' = delivered /\ toClient \in Seq(ToClientMessages) /\ shown \in Seq(Nat)
      /\ Len(shown) \in Nat /\ shown = UpTo(Len(shown)) /\ Len(delivered[C]) \in Nat
  BY ClientSteps, OneConnection DEF relayOwn, CoreInv, ComponentInv, RelayInv, R!TypeOK,
     A!TypeOK, MessagesInv, ShowInv
<1>h. ASSUME NEW k \in Nat, Arriving(k), toClient # <<>>
      PROVE  \E l \in Nat : /\ Len(shown) <= l /\ Head(toClient)[2] = Block(Len(shown), l)
                            /\ EndToEnd(Contents(Tail(toClient)), l, k)
  <2>1. PICK l \in Len(shown) .. k : /\ Head(toClient)[2] = Block(Len(shown), l)
                                     /\ EndToEnd(Contents(Tail(toClient)), l, k)
    BY <1>t, <1>h, ContentsTail DEF Arriving
  <2>2. l \in Nat /\ Len(shown) <= l
    BY <1>t
  <2> QED BY <2>1, <2>2
<1>1. CASE ClientShows
  <2>1. /\ toClient # <<>> /\ toClient' = Tail(toClient) /\ aws' = aws /\ apc # "done"
        /\ shown' = shown \o Head(toClient)[2]
    BY <1>1 DEF ClientShows, First, Chunks, A!ShowData
  <2>2. PICK k \in Nat : Arriving(k)
    BY <2>1 DEF ShowInv
  <2>3. PICK l \in Nat : /\ Len(shown) <= l /\ Head(toClient)[2] = Block(Len(shown), l)
                         /\ EndToEnd(Contents(Tail(toClient)), l, k)
    BY <1>h, <2>1, <2>2
  <2>4. shown' = UpTo(l) /\ UpTo(l) \in Seq(Nat) /\ Len(UpTo(l)) = l
    BY <1>t, <2>1, <2>3, BlocksMeet, UpToIsSeq
  <2>5. Len(shown') = l
    BY <2>4
  <2>6. Arriving(k)'
    BY <1>t, <2>1, <2>2, <2>3, <2>5 DEF Arriving
  <2> QED BY <2>4, <2>5, <2>6 DEF ShowInv
<1>2. CASE ClientAccepted
  <2>1. /\ toClient # <<>> /\ Head(toClient)[1] = "start_ok" /\ toClient' = Tail(toClient)
        /\ UNCHANGED <<aws, shown>> /\ apc # "done"
    BY <1>2 DEF ClientAccepted, First, A!Accepted
  <2>2. PICK k \in Nat : Arriving(k)
    BY <2>1 DEF ShowInv
  <2>3. PICK l \in Nat : /\ Len(shown) <= l /\ Head(toClient)[2] = Block(Len(shown), l)
                         /\ EndToEnd(Contents(Tail(toClient)), l, k)
    BY <1>h, <2>1, <2>2
  <2>4. Head(toClient)[2] = <<>>
    <3>1. Head(toClient) \in ToClientMessages
      BY <1>t, <2>1, ChannelTail
    <3> QED BY <2>1, <3>1 DEF ToClientMessages
  <2>5. l = Len(shown)
    BY <1>t, <2>3, <2>4, EmptyBlock
  <2>6. Arriving(k)'
    BY <1>t, <2>1, <2>2, <2>3, <2>5 DEF Arriving
  <2> QED BY <1>t, <2>1, <2>6 DEF ShowInv
<1>3. CASE ClientRefused \/ ClientEnds \/ ClientKilled
  <2>1. apc' = "done" /\ shown' = shown
    BY <1>3 DEF ClientRefused, ClientEnds, ClientKilled, A!Refused, A!ReceiveEnds, A!Killed,
       A!Exit
  <2> QED BY <1>t, <2>1 DEF ShowInv
<1>4. CASE ClientStarts \/ ClientTypes \/ ClientClosed \/ ClientLost
  <2>1. /\ UNCHANGED <<shown, toClient>>
        /\ apc # "done" /\ (aws' # "closed" => aws # "closed")
    BY <1>4 DEF ClientStarts, ClientTypes, ClientClosed, ClientLost, A!Start, A!ReadStdin,
       A!SocketCloses, CoreInv, ComponentInv, MeetInv
  <2>2. PICK k \in Nat : Arriving(k)
    BY <2>1 DEF ShowInv
  <2>3. Arriving(k)'
    BY <1>t, <2>1, <2>2 DEF Arriving
  <2> QED BY <1>t, <2>1, <2>3 DEF ShowInv
<1> QED BY <1>1, <1>2, <1>3, <1>4 DEF ClientActs

\* What the relay sends to a client that is there arrives, in order.
LEMMA ShowRelay ==
  ASSUME CoreInv, CoreInv', ShowInv, RelayActs
  PROVE  ShowInv'
<1>c. RelayInv /\ RelayInv' /\ MeetInv
  BY DEF CoreInv, ComponentInv
<1>t. /\ UNCHANGED <<apc, aws, shown, clientUp>> /\ toClient \in Seq(ToClientMessages)
      /\ Len(shown) \in Nat /\ shown = UpTo(Len(shown))
      /\ delivered[C] \in Seq(Nat) /\ hand[C] \in Seq(Nat) /\ Len(delivered[C]) \in Nat
      /\ delivered \in [{C} -> Seq(Nat)]
  <2>1. UNCHANGED <<apc, aws, shown, clientUp>>
    BY <1>c, RelayStep DEF clientVars
  <2>2. /\ toClient \in Seq(ToClientMessages) /\ shown = UpTo(Len(shown))
        /\ shown \in Seq(Nat) /\ delivered \in [{C} -> Seq(Nat)] /\ hand[C] \in Seq(Nat)
    BY <1>c, OneConnection DEF RelayInv, R!TypeOK, CoreInv, ComponentInv, A!TypeOK, MessagesInv,
       ShowInv
  <2> QED BY <2>1, <2>2, OneConnection
<1>1. ASSUME NEW k \in Nat, Arriving(k) PROVE \E l \in Nat : Arriving(l)'
  <2>1. CASE RelayDelivers
    <3>1. delivered'[C] = delivered[C] \o hand[C]
      BY <1>t, <2>1, OneConnection DEF RelayDelivers, R!ReaderSent
    <3>n. Len(delivered'[C]) \in Nat
      BY <1>t, <3>1, ConcatNat
    <3>d. PICK d \in Nat, e \in Nat : d = Len(delivered[C]) /\ e = Len(delivered'[C])
      BY <1>t, <3>n
    <3>2. d \in Nat /\ e \in Nat /\ d <= e /\ hand[C] = Block(d, e)
      <4>1. delivered[C] = UpTo(d) /\ delivered'[C] = UpTo(e)
        BY <1>c, <3>d, DeliveredInOrder
      <4>2. UpTo(d) \o hand[C] = UpTo(e)
        BY <3>1, <4>1
      <4> QED BY <1>t, <4>2, BlockBetween
    <3>3. CASE C \in clientUp
      <4> DEFINE msg == Message("data", hand[C])
      <4>1. toClient' = Append(toClient, msg) /\ msg \in ToClientMessages /\ msg[2] = hand[C]
        BY <1>t, <2>1, <3>3 DEF RelayDelivers, ToClient, Message, ToClientMessages
      <4>2. k = d
        BY <1>1, <1>c, <3>3, <3>d DEF Arriving, MeetInv
      <4> HIDE DEF msg
      <4>3. EndToEnd(Contents(Append(toClient, msg)), Len(shown), e)
        BY <1>1, <1>t, <3>2, <4>1, <4>2, ContentsAppend DEF Arriving
      <4>4. e <= e
        BY <3>2
      <4>5. Arriving(e)'
        BY <1>t, <3>d, <4>1, <4>3, <4>4 DEF Arriving
      <4> QED BY <3>2, <4>5
    <3>4. CASE C \notin clientUp
      <4>1. toClient' = toClient /\ aws = "closed"
        BY <1>c, <2>1, <3>4 DEF RelayDelivers, ToClient, MeetInv
      <4>2. k <= d
        BY <1>1, <3>d DEF Arriving
      <4>3. k <= e
        BY <3>2, <4>2
      <4>4. Arriving(k)'
        BY <1>1, <1>t, <3>d, <4>1, <4>3 DEF Arriving
      <4> QED BY <4>4
    <3> QED BY <3>3, <3>4
  <2>2. CASE ~ RelayDelivers
    <3>1. delivered' = delivered
      <4>1. CASE RelayRejects \/ RelayAccepts \/ RelayInitiates \/ RelayConfirms
                 \/ RelayRefuses \/ RelayReceives \/ RelayForwards
        BY <4>1 DEF RelayRejects, RelayAccepts, RelayInitiates, RelayConfirms,
           RelayRefuses, RelayReceives, RelayForwards, R!RejectStart, R!StartAccepted,
           R!InitiateSent, R!StartOK, R!Refused, R!ReceiveData, R!Forwarded, R!readerVars
      <4>2. CASE RelayCloses \/ RelayTakesAnswer \/ RelayTakesData \/ RelayTakesReset
                 \/ RelayTakesLate
        BY <4>2 DEF RelayCloses, RelayTakesAnswer, RelayTakesData, RelayTakesReset,
           RelayTakesLate, relayVars, R!HandlerClose, R!LoopClose, R!RecvAnswer, R!RecvData,
           R!RecvReset, R!readerVars
      <4>3. CASE RelayInternal
        BY <4>3 DEF RelayInternal, R!InitiateRaises, R!Answered, R!StartOKRaises,
           R!ForwardRaises, R!Disconnect, R!JoinTimeout, R!Joined, R!ReaderStart,
           R!ReaderWake, R!ReaderSendRaises, R!ReaderCancelled, R!RecvDisconnect,
           R!LoopRaises, R!LoopDrop, R!readerVars
      <4> QED BY <2>2, <4>1, <4>2, <4>3 DEF RelayActs
    <3>2. EndToEnd(Contents(toClient'), Len(shown), k)
      <4>1. CASE toClient' = toClient
        BY <1>1, <4>1 DEF Arriving
      <4>2. ASSUME NEW kind \in {"start_ok", "error"},
                   toClient' = Append(toClient, Message(kind, <<>>))
            PROVE  EndToEnd(Contents(toClient'), Len(shown), k)
        <5> DEFINE msg == Message(kind, <<>>)
        <5>1. msg \in ToClientMessages /\ msg[2] = Block(k, k) /\ k <= k
          BY EmptyBlock DEF Message, ToClientMessages
        <5>2. toClient' = Append(toClient, msg)
          BY <4>2
        <5> HIDE DEF msg
        <5> QED BY <1>1, <1>t, <5>1, <5>2, ContentsAppend DEF Arriving
      <4> QED BY <2>2, <4>1, <4>2, ToClientMoves
    <3>3. Arriving(k)'
      BY <1>1, <1>t, <3>1, <3>2 DEF Arriving
    <3> QED BY <3>3
  <2> QED BY <2>1, <2>2
<1> QED BY <1>1, <1>t DEF ShowInv

LEMMA ShowStep ==
  ASSUME CoreInv, ShowInv, [Next]_vars
  PROVE  ShowInv'
<1>1. CASE AgentConnects \/ AgentActs
  <2>1. UNCHANGED <<clientVars, toClient, delivered>>
    <3>1. CASE AgentConnects
      BY <3>1 DEF AgentConnects, R!AgentJoins, R!readerVars, channels
    <3>2. CASE AgentActs
      BY <3>2, AgentStep DEF relayOwn
    <3> QED BY <1>1, <3>1, <3>2
  <2> QED BY <2>1 DEF ShowInv, Arriving, clientVars
<1>2. CASE UNCHANGED vars
  BY <1>2 DEF vars, channels, clientVars, relayVars, ShowInv, Arriving
<1> QED BY <1>1, <1>2, CoreStep, ShowClient, ShowRelay, WhoseStep

-----------------------------------------------------------------------------
(* The streams, end to end.                                                *)

\* The session that a connection was opened in is the one the relay asked.
BornInv == born[C] # 0 => born[C] = agentOf[C]

LEMMA BornStep ==
  ASSUME CoreInv, RequestInv, BornInv, [Next]_vars
  PROVE  BornInv'
<1>c. RelayInv /\ MeetInv
  BY DEF CoreInv, ComponentInv
<1>1. CASE RelayActs
  <2>1. born' = born
    BY <1>1, <1>c, RelayStep DEF agentVars
  <2>2. CASE agentOf' = agentOf
    BY <2>1, <2>2 DEF BornInv
  <2>3. CASE hpc[C] = "start"
    BY <2>1, <2>3 DEF BornInv, RequestInv, AskedInv
  <2> QED BY <1>1, <1>c, <2>2, <2>3, GivenOnce
<1>2. CASE AgentActs
  <2>1. agentOf' = agentOf
    BY <1>2, AgentStep DEF relayOwn
  <2>2. CASE AgentInitiates
    <3>1. agentOf[C] = session /\ born' = [born EXCEPT ![C] = session]
      BY <2>2 DEF AgentInitiates, E!Initiate
    <3>2. born'[C] = session
      BY <3>1, OneConnection DEF CoreInv, ComponentInv, AgentInv, E!EdgeInv, E!TypeOK
    <3> QED BY <2>1, <3>1, <3>2 DEF BornInv
  <2>3. CASE ~ AgentInitiates
    BY <1>2, <2>1, <2>3, BornMoves DEF BornInv
  <2> QED BY <2>2, <2>3
<1>3. CASE ClientActs
  BY <1>3, ClientSteps DEF relayOwn, agentVars, BornInv
<1>4. CASE AgentConnects
  BY <1>4 DEF AgentConnects, E!Connect, E!connVars, R!AgentJoins, R!tableVars, BornInv
<1>5. CASE UNCHANGED vars
  BY <1>5 DEF vars, relayVars, agentVars, BornInv
<1> QED BY <1>1, <1>2, <1>3, <1>4, <1>5, WhoseStep

\* The inductive invariant that the streams and the tunnel need.
SystemInv == OrderInv /\ BornInv /\ WriteInv /\ ShowInv

LEMMA SystemInit == Init => SystemInv
<1> SUFFICES ASSUME Init PROVE SystemInv
  OBVIOUS
<1>1. OrderInv /\ CoreInv
  BY OrderInit DEF OrderInv
<1>2. /\ born[C] = 0 /\ toAgent = <<>> /\ toClient = <<>> /\ fromClient = <<>>
      /\ carried = <<>> /\ wrote = <<>> /\ shown = <<>> /\ typed = 0 /\ delivered[C] = <<>>
  BY OneConnection DEF Init, A!Init, R!Init, E!Init
<1>3. Len(<<>>) = 0 /\ <<>> \in Seq(Nat) /\ UpTo(0) = <<>> /\ Block(0, 0) = <<>>
  <2>1. UpTo(0) \in Seq(Nat) /\ Len(UpTo(0)) = 0
    BY UpToIsSeq
  <2> QED BY <2>1, EmptyBlock, EmptyChannel
<1>4. EndToEnd(Contents(<<>>), 0, 0) /\ EndToEnd(Framed(<<>>), 0, 0) /\ 0 <= 0
  BY EmptyContents
<1>5. Underway(0, 0)
  BY <1>2, <1>3, <1>4 DEF Underway
<1>6. Arriving(0)
  BY <1>2, <1>3, <1>4 DEF Arriving
<1> QED BY <1>1, <1>2, <1>3, <1>5, <1>6 DEF SystemInv, BornInv, WriteInv, ShowInv

LEMMA SystemStep == SystemInv /\ [Next]_vars => SystemInv'
<1>1. OrderInv /\ [Next]_vars => OrderInv'
  BY CoreStep, OrderStep, RequestStep, OpenStep, CountStep DEF OrderInv
<1> QED BY <1>1, BornStep, WriteStep, ShowStep DEF SystemInv, OrderInv

LEMMA SystemHolds == Spec => []SystemInv
BY SystemInit, SystemStep, PTL DEF Spec

LEMMA TwoPieces ==
  ASSUME NEW h \in Seq(Nat), NEW b \in Seq(Nat), NEW k \in Nat, NEW l \in Nat, NEW n \in Nat,
         k <= l, l <= n, h = Block(k, l), b = Block(l, n)
  PROVE  <<h, b>> \in Seq(Seq(Nat)) /\ EndToEnd(<<h, b>>, k, n)
<1> DEFINE s == <<h>>
           t == <<h, b>>
<1>1. /\ t \in Seq(Seq(Nat)) /\ Len(s) = 1 /\ Len(t) = 2 /\ s[1] = h /\ t[1] = h /\ t[2] = b
      /\ EndToEnd(s, k, l)
  BY EndToEndOne
<1> HIDE DEF s, t
<1>2. /\ Len(s) \in Nat /\ Len(t) = Len(s) + 1 /\ t[Len(s) + 1] = Block(l, n)
      /\ \A i \in 1 .. Len(s) : t[i] = s[i]
  <2>1. 1 + 1 = 2 /\ 1 \in Nat /\ \A i \in 1 .. 1 : i = 1
    OBVIOUS
  <2> QED BY <1>1, <2>1
<1>3. EndToEnd(t, k, n)
  BY <1>1, <1>2, EndToEndMore
<1> QED BY <1>1, <1>3 DEF t

\* What is in the channels are pieces of a stream.
LEMMA PiecesTyped ==
  /\ \A ch \in Seq(ToAgentMessages) : Framed(ch) \in Seq(Seq(Nat))
  /\ \A ch \in Seq(ToRelayMessages) : Contents(ch) \in Seq(Seq(Nat))
  /\ \A ch \in Seq(ToClientMessages) : Contents(ch) \in Seq(Seq(Nat))
<1>1. ASSUME NEW ch \in Seq(ToAgentMessages) PROVE Framed(ch) \in Seq(Seq(Nat))
  <2>1. ASSUME NEW i \in 1 .. Len(ch) PROVE Unframed(ch[i]) \in Seq(Nat)
    <3>1. ch[i] \in ToAgentMessages
      BY <2>1
    <3>2. CASE ch[i][1] = "data"
      <4>1. ch[i][2] \in Frames
        BY <3>1, <3>2 DEF ToAgentMessages
      <4>2. PayloadOf(ch[i][2]) \in OneChunk
        BY <4>1 DEF Frames
      <4> QED BY <3>2, <4>2, ChunkOfOne DEF Unframed
    <3>3. CASE ch[i][1] # "data"
      BY <3>3, EmptyChannel DEF Unframed
    <3> QED BY <3>2, <3>3
  <2>2. Framed(ch) = [i \in 1 .. Len(ch) |-> Unframed(ch[i])] /\ Len(ch) \in Nat
    BY DEF Framed, Unframed
  <2> HIDE DEF Unframed
  <2> QED BY <2>1, <2>2
<1>2. ASSUME NEW ch, Len(ch) \in Nat,
             \A i \in 1 .. Len(ch) : ch[i][2] \in Seq(Nat)
      PROVE  Contents(ch) \in Seq(Seq(Nat))
  BY <1>2 DEF Contents
<1>3. ASSUME NEW ch \in Seq(ToRelayMessages), NEW i \in 1 .. Len(ch) PROVE ch[i][2] \in Seq(Nat)
  <2>1. ch[i] \in ToRelayMessages
    BY <1>3
  <2>2. ch[i][2] \in OneChunk \cup {<<>>}
    BY <2>1 DEF ToRelayMessages
  <2> QED BY <2>2, ChunkOfOne, EmptyChannel
<1>4. ASSUME NEW ch \in Seq(ToClientMessages), NEW i \in 1 .. Len(ch) PROVE ch[i][2] \in Seq(Nat)
  <2>1. ch[i] \in ToClientMessages
    BY <1>4
  <2>2. ch[i][2] \in Seq(Nat) \cup {<<>>}
    BY <2>1 DEF ToClientMessages
  <2> QED BY <2>2, EmptyChannel
<1> QED BY <1>1, <1>2, <1>3, <1>4

\* No byte is lost, doubled or reordered on its way in either direction, for any
\* number of sessions, failures and chunks and whatever the size of a read.
THEOREM BytesConservedHolds == Spec => []BytesConserved
<1>1. SystemInv => BytesConserved
  <2> SUFFICES ASSUME SystemInv PROVE BytesConserved
    OBVIOUS
  <2> USE DEF SystemInv, OrderInv
  <2>c. /\ RelayInv /\ MeetInv /\ AgentInv /\ A!TypeOK /\ MessagesInv
        /\ typed \in Nat /\ shown \in Seq(Nat) /\ wrote \in Seq(Nat) /\ carried \in Seq(Nat)
        /\ fromClient \in Seq(ToRelayMessages) /\ toClient \in Seq(ToClientMessages)
        /\ toAgent \in Seq(ToAgentMessages)
        /\ delivered[C] \in Seq(Nat) /\ hand[C] \in Seq(Nat) /\ buf[C] \in Seq(Nat)
        /\ emitted[C] \in Nat
    <3>1. RelayInv /\ MeetInv /\ AgentInv /\ A!TypeOK /\ MessagesInv
      BY DEF CoreInv, ComponentInv
    <3>2. typed \in Nat /\ shown \in Seq(Nat) /\ wrote \in Seq(Nat)
      BY <3>1, SystemOK DEF A!TypeOK, WriteInv
    <3>3. /\ fromClient \in Seq(ToRelayMessages) /\ toClient \in Seq(ToClientMessages)
          /\ toAgent \in Seq(ToAgentMessages) /\ carried \in Seq(Nat)
      BY <3>1 DEF MessagesInv
    <3>4. /\ delivered[C] \in Seq(Nat) /\ hand[C] \in Seq(Nat) /\ buf[C] \in Seq(Nat)
          /\ emitted[C] \in Nat
      BY <3>1, OneConnection, SystemOK DEF RelayInv, R!TypeOK
    <3> QED BY <3>1, <3>2, <3>3, <3>4
  <2>o. ASSUME C \in active, ws = "up"
        PROVE  /\ writer[C] = "open" /\ born[C] = session /\ session > 0
               /\ agentOf[C] = session /\ agentUp = {session}
    <3>1. writer[C] = "open" /\ born[C] = session
      BY <2>o, <2>c, OneConnection DEF AgentInv, E!EdgeInv, E!NoLeakedWriter,
         E!SessionOwnsConnections
    <3>2. session > 0 /\ agentUp = {session}
      BY <2>o, <2>c DEF MeetInv
    <3>3. session # 0
      BY <3>2
    <3> QED BY <3>1, <3>2, <3>3 DEF BornInv
  <2>1. ASSUME C \in active, hpc[C] \in Receiving, ws = "up"
        PROVE  EndToEnd(<<wrote>> \o Framed(toAgent) \o <<carried>> \o Contents(fromClient),
                        0, typed)
    <3>1. PICK m \in Nat, n \in Nat : Underway(m, n)
      BY <2>1, <2>o DEF WriteInv
    <3>2. Reaching
      BY <2>1, <2>o DEF Reaching
    <3> DEFINE k == Len(wrote)
    <3>3. /\ k \in Nat /\ wrote = Block(0, k) /\ 0 <= k
          /\ m <= n /\ n <= typed /\ carried = Block(m, n)
          /\ EndToEnd(Framed(toAgent), k, m) /\ EndToEnd(Contents(fromClient), n, typed)
      <4>1. k \in Nat /\ 0 <= k /\ 0 \in Nat /\ wrote = UpTo(k)
        BY <2>c DEF WriteInv
      <4>2. Block(0, k) = UpTo(k)
        BY <4>1, BlockIsSeq
      <4> QED BY <2>1, <3>1, <3>2, <4>1, <4>2 DEF Underway
    <3>4. Framed(toAgent) \in Seq(Seq(Nat)) /\ Contents(fromClient) \in Seq(Seq(Nat))
      BY <2>c, PiecesTyped
    <3>5. <<wrote>> \in Seq(Seq(Nat)) /\ EndToEnd(<<wrote>>, 0, k)
      BY <2>c, <3>3, EndToEndOne
    <3>6. <<carried>> \in Seq(Seq(Nat)) /\ EndToEnd(<<carried>>, m, n)
      BY <2>c, <3>3, EndToEndOne
    <3> DEFINE one == <<wrote>> \o Framed(toAgent)
               two == one \o <<carried>>
    <3> HIDE DEF k
    <3>7. one \in Seq(Seq(Nat)) /\ EndToEnd(one, 0, m)
      BY <3>3, <3>4, <3>5, EndToEndJoin
    <3> HIDE DEF one
    <3>8. two \in Seq(Seq(Nat)) /\ EndToEnd(two, 0, n)
      BY <3>6, <3>7, EndToEndJoin
    <3> HIDE DEF two
    <3>9. EndToEnd(two \o Contents(fromClient), 0, typed)
      BY <2>c, <3>3, <3>4, <3>8, EndToEndJoin
    <3> QED BY <3>9 DEF one, two
  <2>2. ASSUME C \in relayed, aws = "up"
        PROVE  EndToEnd(<<shown>> \o Contents(toClient) \o <<hand[C], buf[C]>>, 0, emitted[C])
    <3>1. PICK k \in Nat : Arriving(k)
      BY <2>2, <2>c DEF ShowInv, MeetInv
    <3>2. k = Len(delivered[C]) /\ EndToEnd(Contents(toClient), Len(shown), k)
      BY <2>2, <3>1 DEF Arriving
    <3>3. delivered[C] = UpTo(k) /\ delivered[C] \o hand[C] \o buf[C] = UpTo(emitted[C])
      BY <2>2, <2>c, <3>2, OneConnection DEF RelayInv, R!StreamInv, R!StreamOK, R!Through,
         R!UpTo, UpTo
    <3>4. PICK l \in Nat : /\ k <= l /\ l <= emitted[C]
                           /\ hand[C] = Block(k, l) /\ buf[C] = Block(l, emitted[C])
      <4>1. PICK d \in Seq(Nat), h \in Seq(Nat), b \in Seq(Nat), n \in Nat :
              d = delivered[C] /\ h = hand[C] /\ b = buf[C] /\ n = emitted[C]
        BY <2>c
      <4>2. k \in Nat /\ d = UpTo(k) /\ (d \o h) \o b = UpTo(n)
        BY <3>1, <3>3, <4>1
      <4>3. \E l \in Nat : k <= l /\ l <= n /\ h = Block(k, l) /\ b = Block(l, n)
        <5>1. PICK s \in Seq(Nat), l \in Nat : s = d \o h /\ l = Len(s)
          <6>1. d \o h \in Seq(Nat) /\ Len(d \o h) \in Nat
            BY ConcatNat
          <6> QED BY <6>1
        <5>2. s \o b = UpTo(n)
          BY <4>2, <5>1
        <5>3. s = UpTo(l)
          <6>1. s = UpTo(Len(s))
            BY <5>2, PrefixOfUpTo
          <6> QED BY <5>1, <6>1
        <5>4. UpTo(k) \o h = UpTo(l) /\ UpTo(l) \o b = UpTo(n)
          BY <4>2, <5>1, <5>2, <5>3
        <5>5. k <= l /\ h = Block(k, l) /\ l <= n /\ b = Block(l, n)
          BY <5>4, BlockBetween
        <5> QED BY <5>5
      <4> QED BY <4>1, <4>3
    <3> DEFINE s == Len(shown)
               one == <<shown>> \o Contents(toClient)
               two == <<hand[C], buf[C]>>
    <3>7. two \in Seq(Seq(Nat)) /\ EndToEnd(two, k, emitted[C])
      BY <2>c, <3>4, TwoPieces
    <3>8. s \in Nat /\ 0 <= s /\ shown = Block(0, s)
      <4>1. s \in Nat /\ 0 <= s /\ 0 \in Nat /\ shown = UpTo(s)
        BY <2>c DEF ShowInv
      <4>2. Block(0, s) = UpTo(s)
        BY <4>1, BlockIsSeq
      <4> QED BY <4>1, <4>2
    <3>9. <<shown>> \in Seq(Seq(Nat)) /\ EndToEnd(<<shown>>, 0, s)
      BY <2>c, <3>8, EndToEndOne
    <3>10. Contents(toClient) \in Seq(Seq(Nat)) /\ EndToEnd(Contents(toClient), s, k)
      BY <2>c, <3>2, PiecesTyped
    <3> HIDE DEF s, two
    <3>11. one \in Seq(Seq(Nat)) /\ EndToEnd(one, 0, k)
      BY <3>8, <3>9, <3>10, EndToEndJoin
    <3> HIDE DEF one
    <3>12. EndToEnd(one \o two, 0, emitted[C])
      BY <2>c, <3>7, <3>11, EndToEndJoin
    <3> QED BY <3>12 DEF one, two
  <2>3. C \in active /\ ws = "up" => DataIn(Len(sent[C])) = reads[C]
    BY <2>o DEF CountInv
  <2> QED BY <2>1, <2>2, <2>3 DEF BytesConserved
<1> QED BY <1>1, SystemHolds, PTL

-----------------------------------------------------------------------------
(* The tunnel.                                                             *)

\* Steps that the users of the tunnel do not notice.
LEMMA TunnelQuiet ==
  ASSUME UNCHANGED <<typed, wrote, shown>>, writer'[C] = writer[C], reads'[C] = reads[C],
         (apc' # "start") = (apc # "start"), (apc' = "done") = (apc = "done")
  PROVE  UNCHANGED T!vars
BY DEF T!vars

\* The client asks, types, puts out and leaves.
LEMMA TunnelClient ==
  ASSUME SystemInv, SystemInv', ClientActs
  PROVE  [T!Next]_(T!vars)
<1> USE DEF SystemInv, OrderInv
<1>u. UNCHANGED <<wrote, writer, reads, delivered, hand, buf, emitted, taken, sent>>
  BY ClientSteps DEF relayOwn, agentVars
<1>1. CASE ClientStarts
  <2>1. apc = "start" /\ apc' = "answer" /\ UNCHANGED <<typed, shown>>
    BY <1>1 DEF ClientStarts, A!Start
  <2> QED BY <1>u, <2>1 DEF T!Next, T!Ask
<1>2. CASE ClientTypes
  <2>1. apc = "pump" /\ apc' = "pump" /\ typed' = typed + 1 /\ shown' = shown
    BY <1>2 DEF ClientTypes, A!ReadStdin
  <2>2. writer[C] # "none"
    BY <2>1 DEF OpenInv
  <2> QED BY <1>u, <2>1, <2>2 DEF T!Next, T!Type
<1>3. CASE ClientRefused \/ ClientEnds \/ ClientKilled
  <2>1. apc \in {"answer", "pump"} /\ apc' = "done" /\ UNCHANGED <<typed, shown>>
    BY <1>3 DEF ClientRefused, ClientEnds, ClientKilled, A!Refused, A!ReceiveEnds, A!Killed,
       A!Exit
  <2> QED BY <1>u, <2>1 DEF T!Next, T!Leave
<1>4. CASE ClientAccepted \/ ClientClosed \/ ClientLost
  <2>1. UNCHANGED <<typed, shown>> /\ (apc' = apc \/ (apc = "answer" /\ apc' = "pump"))
    BY <1>4 DEF ClientAccepted, ClientClosed, ClientLost, A!Accepted, A!SocketCloses
  <2> QED BY <1>u, <2>1, TunnelQuiet
<1>5. CASE ClientShows
  <2>1. /\ apc = "pump" /\ apc' = "pump" /\ typed' = typed
        /\ shown' = shown \o Head(toClient)[2] /\ toClient # <<>> /\ Head(toClient)[1] = "data"
    BY <1>5 DEF ClientShows, A!ShowData, First, Chunks
  <2>2. PICK k \in Nat : Arriving(k)'
    BY <2>1 DEF ShowInv
  <2>3. Head(toClient)[2] \in Seq(Nat)
    <3>1. Head(toClient) \in ToClientMessages
      BY <2>1, ChannelTail DEF CoreInv, MessagesInv
    <3> QED BY <2>1, <3>1 DEF ToClientMessages
  <2>4. PICK s \in Nat, n \in Nat : s = Len(shown) /\ n = Len(shown') /\ s <= n
    <3>1. shown \in Seq(Nat)
      BY DEF CoreInv, ComponentInv, A!TypeOK
    <3>2. /\ Len(shown) \in Nat /\ Len(Head(toClient)[2]) \in Nat
          /\ Len(shown') = Len(shown) + Len(Head(toClient)[2])
      BY <2>1, <2>3, <3>1, ConcatNat
    <3>3. Len(shown') \in Nat /\ Len(shown) <= Len(shown')
      BY <3>2
    <3> QED BY <3>2, <3>3
  <2>5. n <= reads[C]
    <3>1. n <= k
      <4>1. EndToEnd(Contents(toClient'), n, k)
        BY <2>2, <2>4 DEF Arriving
      <4>2. Len(Contents(toClient')) \in Nat
        BY DEF Contents, CoreInv, MessagesInv
      <4> QED BY <4>1, <4>2, EndToEndBounds
    <3>2. k <= Len(delivered[C])
      BY <1>u, <2>2 DEF Arriving
    <3>3. /\ delivered[C] \in Seq(Nat) /\ hand[C] \in Seq(Nat) /\ buf[C] \in Seq(Nat)
          /\ emitted[C] \in Nat
      BY OneConnection, SystemOK DEF CoreInv, ComponentInv, RelayInv, R!TypeOK
    <3>4. reads[C] \in Nat
      BY OneConnection, SystemOK DEF CoreInv, ComponentInv, AgentInv, E!EdgeInv, E!TypeOK
    <3>5. /\ Len(delivered[C]) + Len(hand[C]) + Len(buf[C]) <= emitted[C]
          /\ emitted[C] <= DataIn(taken) /\ DataIn(Len(sent[C])) <= reads[C]
      BY DEF CountInv, Piped
    <3>6. /\ DataIn(taken) \in Nat /\ DataIn(Len(sent[C])) \in Nat
          /\ DataIn(taken) <= DataIn(Len(sent[C]))
      BY CountTypes
    <3>7. Len(delivered[C]) \in Nat /\ Len(delivered[C]) <= emitted[C]
      <4> DEFINE d == Len(delivered[C])
                 h == Len(hand[C])
                 b == Len(buf[C])
      <4>1. d \in Nat /\ h \in Nat /\ b \in Nat /\ d + h + b <= emitted[C]
        <5>1. d \in Nat /\ h \in Nat /\ b \in Nat
          BY <3>3
        <5>2. d + h + b <= emitted[C]
          BY <3>5
        <5> QED BY <5>1, <5>2
      <4> HIDE DEF d, h, b
      <4>2. d <= emitted[C]
        BY <3>3, <4>1
      <4> QED BY <4>1, <4>2 DEF d
    <3>8. ASSUME NEW d \in Nat, NEW e \in Nat, NEW f \in Nat, NEW g \in Nat, NEW r \in Nat,
                 k <= d, d <= e, e <= f, f <= g, g <= r
          PROVE  n <= r
      BY <2>2, <2>4, <3>1, <3>8
    <3> QED BY <3>2, <3>3, <3>4, <3>5, <3>6, <3>7, <3>8
  <2>6. shown' = UpTo(n) /\ shown = UpTo(s)
    BY <2>4 DEF ShowInv
  <2>7. CASE n = s
    BY <1>u, <2>1, <2>6, <2>7, TunnelQuiet
  <2>8. CASE n # s
    <3>1. n \in Len(shown) + 1 .. reads[C]
      <4>1. reads[C] \in Nat
        BY OneConnection, SystemOK DEF CoreInv, ComponentInv, AgentInv, E!EdgeInv, E!TypeOK
      <4>2. n \in s + 1 .. reads[C]
        BY <2>4, <2>5, <2>8, <4>1
      <4> QED BY <2>4, <4>2
    <3>2. shown' = T!UpTo(n)
      BY <2>6 DEF UpTo, T!UpTo
    <3> QED BY <1>u, <2>1, <3>1, <3>2 DEF T!Next, T!Show
  <2> QED BY <2>7, <2>8
<1> QED BY <1>1, <1>2, <1>3, <1>4, <1>5 DEF ClientActs

\* The agent connects, writes, reads and hangs up.
LEMMA TunnelAgent ==
  ASSUME SystemInv, SystemInv', AgentActs
  PROVE  [T!Next]_(T!vars)
<1> USE DEF SystemInv, OrderInv
<1>c. AgentInv /\ MeetInv
  BY DEF CoreInv, ComponentInv
<1>u. UNCHANGED <<apc, typed, shown>>
  BY AgentStep DEF clientVars
<1>1. CASE AgentWrites
  <2>1. /\ toAgent # <<>> /\ wrote' = wrote \o PayloadOf(Head(toAgent)[2])
        /\ Head(toAgent)[1] = "data" /\ C \in active /\ UNCHANGED <<writer, reads>>
    BY <1>1 DEF AgentWrites, First, Chunks, E!WriteData, E!connVars, E!readerVars
  <2>2. writer[C] = "open"
    BY <1>c, <2>1, OneConnection DEF AgentInv, E!EdgeInv, E!NoLeakedWriter
  <2>3. PayloadOf(Head(toAgent)[2]) \in OneChunk
    <3>1. Head(toAgent) \in ToAgentMessages
      BY <2>1, ChannelTail DEF CoreInv, MessagesInv
    <3>2. Head(toAgent)[2] \in Frames
      BY <2>1, <3>1 DEF ToAgentMessages
    <3> QED BY <3>2 DEF Frames
  <2>4. PICK l \in Nat : l = Len(wrote) /\ l + 1 = Len(wrote')
    <3>1. wrote \in Seq(Nat)
      BY DEF WriteInv
    <3>2. PICK p \in OneChunk : p = PayloadOf(Head(toAgent)[2])
      BY <2>3
    <3>3. p \in Seq(Nat) /\ Len(p) = 1
      BY <3>2, ChunkOfOne
    <3>4. wrote' = wrote \o p
      BY <2>1, <3>2
    <3>5. Len(wrote) \in Nat /\ Len(wrote') = Len(wrote) + 1
      <4>1. Len(wrote) \in Nat /\ Len(wrote \o p) = Len(wrote) + Len(p)
        BY <3>1, <3>3, ConcatNat
      <4> QED BY <3>3, <3>4, <4>1
    <3> QED BY <3>5
  <2>5. wrote' = UpTo(l + 1)
    BY <2>4 DEF WriteInv
  <2>6. l < typed
    <3>1. PICK m \in Nat, n \in Nat : Underway(m, n)'
      BY <2>1, <2>2 DEF WriteInv
    <3>2. m <= n /\ n <= typed /\ EndToEnd(Framed(toAgent'), l + 1, m)
      BY <1>u, <2>4, <3>1 DEF Underway
    <3>3. Len(Framed(toAgent')) \in Nat /\ l + 1 \in Nat
      BY DEF Framed, CoreInv, MessagesInv
    <3>4. l + 1 <= m
      BY <3>2, <3>3, EndToEndBounds
    <3>5. typed \in Nat
      BY SystemOK DEF CoreInv, ComponentInv, A!TypeOK
    <3> QED BY <3>2, <3>4, <3>5
  <2>7. wrote' = T!UpTo(Len(wrote) + 1) /\ Len(wrote) < typed
    BY <2>4, <2>5, <2>6 DEF UpTo, T!UpTo
  <2> QED BY <1>u, <2>1, <2>2, <2>7 DEF T!Next, T!Write
<1>2. CASE ~ AgentWrites
  <2>1. wrote' = wrote
    BY <1>2 DEF AgentActs, AgentInitiates, AgentCloses, AgentTakesLate, AgentInternal,
       AgentReads, AgentPeers, AgentFlushes
  <2>2. CASE E!ReaderData(C)
    <3>1. writer' = writer /\ reads'[C] = reads[C] + 1 /\ writer[C] # "none"
      <4>1. writer' = writer /\ erpc[C] = "read"
        BY <2>2 DEF E!ReaderData, E!connVars
      <4>2. writer[C] # "none"
        BY <1>c, <4>1, OneConnection DEF AgentInv, E!AnswersInv, E!AnswerInv
      <4>3. reads'[C] = reads[C] + 1
        BY <1>c, <2>2, OneConnection DEF E!ReaderData, AgentInv, E!EdgeInv, E!TypeOK
      <4> QED BY <4>1, <4>2, <4>3
    <3> QED BY <1>u, <2>1, <3>1 DEF T!Next, T!Emit
  <2>3. CASE ~ E!ReaderData(C)
    <3>1. reads' = reads
      BY <1>c, <2>3, ReadsMoves
    <3>2. CASE writer'[C] = writer[C]
      BY <1>u, <2>1, <3>1, <3>2, TunnelQuiet
    <3>3. CASE writer[C] = "open" /\ writer'[C] = "closed"
      BY <1>u, <2>1, <3>1, <3>3 DEF T!Next, T!HangUp
    <3>4. CASE E!Connected(C) /\ writer[C] = "none" /\ writer'[C] = "open"
      <4>1. born[C] # 0
        <5>1. mpc = "connect" /\ ecur = C
          BY <3>4 DEF E!Connected
        <5>2. born[C] = session /\ session > 0
          BY <1>c, <5>1 DEF AgentInv, E!EdgeInv, E!ConnectInv, E!AnswersInv
        <5>3. session # 0
          BY <5>2
        <5> QED BY <5>2, <5>3
      <4>2. apc # "start"
        BY <4>1 DEF RequestInv, AskedInv, ClientInv
      <4> QED BY <1>u, <2>1, <3>1, <3>4, <4>2 DEF T!Next, T!Open
    <3> QED BY <1>c, <3>2, <3>3, <3>4, WriterOnce
  <2> QED BY <2>2, <2>3
<1> QED BY <1>1, <1>2

\* The three programs implement the tunnel: it is asked for before it is opened, hands
\* out prefixes of what was put in, in both directions, and each end leaves once.
THEOREM TunnelsHold == Spec => Tunnels
<1>1. Init => T!Init
  BY OneConnection DEF Init, A!Init, R!Init, E!Init, T!Init
<1>2. SystemInv /\ SystemInv' /\ [Next]_vars => [T!Next]_(T!vars)
  <2> SUFFICES ASSUME SystemInv, SystemInv', [Next]_vars PROVE [T!Next]_(T!vars)
    OBVIOUS
  <2>1. CASE RelayActs
    <3>1. UNCHANGED <<agentVars, clientVars, wrote>>
      BY <2>1, RelayStep DEF SystemInv, OrderInv, CoreInv, ComponentInv
    <3> QED BY <3>1, TunnelQuiet DEF agentVars, clientVars
  <2>2. CASE AgentConnects
    <3>1. UNCHANGED <<clientVars, wrote, writer, reads>>
      BY <2>2 DEF AgentConnects, channels, E!Connect, E!connVars, E!readerVars
    <3> QED BY <3>1, TunnelQuiet DEF clientVars
  <2>3. CASE UNCHANGED vars
    BY <2>3, TunnelQuiet DEF vars, clientVars, agentVars, channels
  <2> QED BY <2>1, <2>2, <2>3, TunnelClient, TunnelAgent, WhoseStep
<1> QED BY <1>1, <1>2, SystemHolds, PTL DEF Spec, Tunnels, T!Spec


-----------------------------------------------------------------------------
(* How the connection ends at both ends.                                   *)

\* The relay knows of the end of the target's connection exactly when it has taken
\* a reset.
ResetInv == remote[C] = "ended" <=> E!HasReset(sent[C], taken)

LEMMA ResetNext ==
  ASSUME NEW s, NEW n \in Nat, NEW m \in Nat, m = n + 1
  PROVE  E!HasReset(s, m) <=> E!HasReset(s, n) \/ s[m] = "reset"
<1>1. \A i \in 1 .. m : i \in 1 .. n \/ i = m
  OBVIOUS
<1>2. m \in 1 .. m /\ \A i \in 1 .. n : i \in 1 .. m
  OBVIOUS
<1> QED BY <1>1, <1>2 DEF E!HasReset

LEMMA ResetSame ==
  ASSUME NEW s, NEW t, NEW n \in Nat, \A i \in 1 .. n : s[i] = t[i]
  PROVE  E!HasReset(s, n) <=> E!HasReset(t, n)
BY DEF E!HasReset

\* The relay takes the messages in the order in which they were sent.
LEMMA ResetRelay ==
  ASSUME CoreInv, ResetInv, RelayActs
  PROVE  ResetInv'
<1>0. RelayInv /\ MeetInv /\ sent' = sent /\ taken \in Nat
  <2>1. RelayInv /\ MeetInv
    BY DEF CoreInv, ComponentInv
  <2>2. sent' = sent
    BY <2>1, RelayStep DEF agentVars
  <2>3. Len(sent[C]) \in Nat
    BY OneConnection DEF CoreInv, ComponentInv, AgentInv, E!EdgeInv, E!TypeOK
  <2>4. taken \in 0 .. Len(sent[C])
    BY DEF CoreInv, MessagesInv
  <2> QED BY <2>1, <2>2, <2>3, <2>4
<1>t. remote \in [{C} -> R!RemoteState] /\ C \in {C}
  BY <1>0, OneConnection DEF RelayInv, R!TypeOK
<1>1. CASE ~(RelayTakesAnswer \/ RelayTakesData \/ RelayTakesReset \/ RelayTakesLate)
  <2>1. taken' = taken
    BY <1>1, TakenMoves
  <2>2. remote'[C] = "ended" <=> remote[C] = "ended"
    BY <1>0, <1>1, RemoteMoves
  <2> QED BY <1>0, <2>1, <2>2 DEF ResetInv
<1>2. CASE RelayTakesAnswer \/ RelayTakesData \/ RelayTakesReset \/ RelayTakesLate
  <2>1. taken' = taken + 1
    BY <1>2, TakenMoves
  <2>2. NextFromAgent # "none"
    BY <1>2 DEF RelayTakesAnswer, RelayTakesData, RelayTakesReset, RelayTakesLate
  <2>3. NextFromAgent = sent[C][taken + 1]
    BY <2>2, NextIsSent
  <2>4. taken' \in Nat
    BY <1>0, <2>1
  <2>5. E!HasReset(sent[C], taken') <=> E!HasReset(sent[C], taken) \/ NextFromAgent = "reset"
    BY <1>0, <2>1, <2>3, <2>4, ResetNext
  <2>6. remote'[C] = "ended" <=> remote[C] = "ended" \/ NextFromAgent = "reset"
    <3>1. CASE RelayTakesAnswer
      <4>1. NextFromAgent \in {"ok", "error"} /\ remote[C] = "asked"
        BY <3>1 DEF RelayTakesAnswer, R!RecvAnswer
      <4>2. remote'[C] \in {"open", "refused"}
        BY <3>1 DEF RelayTakesAnswer
      <4> QED BY <4>1, <4>2
    <3>2. CASE RelayTakesData
      BY <3>2, <1>t DEF RelayTakesData, R!RecvData, R!readerVars
    <3>3. CASE RelayTakesReset
      BY <3>3, <1>t DEF RelayTakesReset, R!RecvReset
    <3>4. CASE RelayTakesLate
      BY <3>4 DEF RelayTakesLate, relayVars
    <3> QED BY <1>2, <3>1, <3>2, <3>3, <3>4
  <2> QED BY <1>0, <2>5, <2>6 DEF ResetInv
<1> QED BY <1>1, <1>2

LEMMA ResetStep ==
  ASSUME CoreInv, ResetInv, [Next]_vars
  PROVE  ResetInv'
<1>1. CASE UNCHANGED <<remote, taken, sent>>
  BY <1>1 DEF ResetInv
<1>2. CASE ClientActs
  BY <1>1, <1>2, ClientSteps DEF relayOwn, agentVars
<1>3. CASE AgentConnects
  BY <1>1, <1>3 DEF AgentConnects, E!Connect, R!AgentJoins, R!remoteVars, channels
<1>4. CASE UNCHANGED vars
  BY <1>1, <1>4 DEF vars, relayVars, agentVars, channels
<1>5. CASE AgentActs
  <2>1. UNCHANGED <<remote, taken>>
    BY <1>5, AgentStep DEF relayOwn
  <2>2. sent[C] \in Seq({"ok", "error", "data", "reset"})
    BY OneConnection DEF CoreInv, ComponentInv, AgentInv, E!EdgeInv, E!TypeOK
  <2>3. taken \in 0 .. Len(sent[C]) /\ Len(sent[C]) \in Nat
    BY <2>2 DEF CoreInv, MessagesInv
  <2>4. \A i \in 1 .. Len(sent[C]) : sent'[C][i] = sent[C][i]
    <3>1. ASSUME NEW m \in {"ok", "error", "data", "reset"}, sent'[C] = Append(sent[C], m)
          PROVE  \A i \in 1 .. Len(sent[C]) : sent'[C][i] = sent[C][i]
      BY <2>2, <3>1, ChannelAppend
    <3>2. AgentInv
      BY DEF CoreInv, ComponentInv
    <3> QED BY <1>5, <3>1, <3>2, AgentSends
  <2>5. \A i \in 1 .. taken : sent'[C][i] = sent[C][i]
    BY <2>3, <2>4
  <2>6. E!HasReset(sent'[C], taken) <=> E!HasReset(sent[C], taken)
    <3>1. taken \in Nat
      BY <2>3
    <3> QED BY <2>5, <3>1, ResetSame
  <2> QED BY <2>1, <2>6 DEF ResetInv
<1>6. CASE RelayActs
  BY <1>6, ResetRelay
<1> QED BY <1>2, <1>3, <1>4, <1>5, <1>6, WhoseStep

\* A message of a kind is in a channel.
Has(ch, kind) == \E i \in 1 .. Len(ch) : ch[i][1] = kind

LEMMA HasAppend ==
  ASSUME NEW M, NEW ch \in Seq(M), NEW m \in M, NEW kind
  PROVE  Has(Append(ch, m), kind) <=> Has(ch, kind) \/ m[1] = kind
<1>1. \A i \in 1 .. Len(Append(ch, m)) : i \in 1 .. Len(ch) \/ i = Len(ch) + 1
  BY ChannelAppend
<1>2. /\ \A i \in 1 .. Len(ch) : i \in 1 .. Len(Append(ch, m))
      /\ Len(ch) + 1 \in 1 .. Len(Append(ch, m))
  BY ChannelAppend
<1> QED BY <1>1, <1>2, ChannelAppend DEF Has

LEMMA HasTail ==
  ASSUME NEW M, NEW ch \in Seq(M), ch # <<>>, NEW kind
  PROVE  /\ Has(Tail(ch), kind) => Has(ch, kind)
         /\ Has(ch, kind) /\ Head(ch)[1] # kind => Has(Tail(ch), kind)
         /\ (\A i \in 1 .. Len(ch) : ch[i][1] = kind => i = 1) => ~ Has(Tail(ch), kind)
<1>1. /\ Head(ch) = ch[1] /\ Len(ch) \in Nat /\ Len(Tail(ch)) = Len(ch) - 1
      /\ \A i \in 1 .. Len(ch) - 1 : Tail(ch)[i] = ch[i + 1]
  BY ChannelTail
<1>2. \A i \in 1 .. Len(Tail(ch)) : i + 1 \in 1 .. Len(ch) /\ i + 1 # 1 /\ Tail(ch)[i] = ch[i + 1]
  BY <1>1
<1>3. Has(Tail(ch), kind) => Has(ch, kind)
  BY <1>2 DEF Has
<1>4. ASSUME Has(ch, kind), Head(ch)[1] # kind PROVE Has(Tail(ch), kind)
  <2>1. PICK i \in 1 .. Len(ch) : ch[i][1] = kind
    BY <1>4 DEF Has
  <2>2. i # 1
    BY <1>1, <1>4, <2>1
  <2>3. i - 1 \in 1 .. Len(Tail(ch)) /\ Tail(ch)[i - 1] = ch[i]
    BY <1>1, <2>2
  <2> QED BY <2>1, <2>3 DEF Has
<1>5. ASSUME \A i \in 1 .. Len(ch) : ch[i][1] = kind => i = 1 PROVE ~ Has(Tail(ch), kind)
  BY <1>2, <1>5 DEF Has
<1> QED BY <1>3, <1>4, <1>5

\* A target connection is open or still to be opened.
Opening == writer[C] = "open" \/ (mpc = "connect" /\ ecur = C) \/ Has(toAgent, "initiate")

\* Once the close was sent to an agent that is there, it is on its way as long as
\* there is something to close.
CloseUnderway ==
  C \in closeSent /\ agentOf[C] \in agentUp =>
    hpc[C] # "initiate" /\ (Opening => Has(toAgent, "close"))

\* A close is sent where close_relayed_connection informs the agent, and nowhere
\* else.
LEMMA CloseMoves ==
  ASSUME CoreInv, RequestInv, RelayActs, C \in closeSent', agentOf[C] \in agentUp
  PROVE  \/ C \in closeSent /\ ~ RelayCloses
         \/ /\ RelayCloses /\ hpc[C] \notin {"start", "initiate"}
            /\ toAgent' = Append(toAgent, Message("close", <<>>))
<1>1. CASE RelayCloses
  <2>1. toAgent' = Append(toAgent, Message("close", <<>>))
    BY <1>1 DEF RelayCloses, ToAgent
  <2>2. toAgent \in Seq(ToAgentMessages)
    BY DEF CoreInv, MessagesInv
  <2>3. toAgent' # toAgent
    <3>1. Len(toAgent') = Len(toAgent) + 1 /\ Len(toAgent) \in Nat
      BY <2>1, <2>2
    <3> QED BY <3>1
  <2>4. ~ RelayInitiates /\ ~ RelayForwards
    <3>1. ASSUME RelayInitiates PROVE FALSE
      <4>1. remote' = [remote EXCEPT ![C] = "asked"] /\ hpc[C] = "initiate"
        BY <3>1 DEF RelayInitiates, R!InitiateSent
      <4>2. remote[C] = "none" /\ remote \in [{C} -> R!RemoteState]
        BY <4>1, OneConnection DEF CoreInv, ComponentInv, RelayInv, R!TypeOK, R!SessionInv, R!ProgressInv
      <4>3. remote' = remote
        BY <1>1 DEF RelayCloses, R!HandlerClose, R!LoopClose
      <4> QED BY <4>1, <4>2, <4>3, OneConnection
    <3>2. ASSUME RelayForwards PROVE FALSE
      <4>1. toAgent' = Append(toAgent, Message("data", encode_tcp_binary_frame(Id, carried)))
        BY <3>2 DEF RelayForwards, ToAgent
      <4>2. Len(toAgent) \in Nat
        BY <2>2
      <4>3. Append(toAgent, Message("close", <<>>))[Len(toAgent) + 1] = Message("close", <<>>)
        BY <2>2
      <4>4. Append(toAgent, Message("data", encode_tcp_binary_frame(Id, carried)))[Len(toAgent) + 1]
              = Message("data", encode_tcp_binary_frame(Id, carried))
        BY <2>2
      <4> QED BY <2>1, <4>1, <4>3, <4>4 DEF Message
    <3> QED BY <3>1, <3>2
  <2>5. hpc[C] \notin {"start", "initiate"}
    BY <2>3, <2>4, ToAgentMoves
  <2> QED BY <1>1, <2>1, <2>5
<1>2. CASE RelayRejects \/ RelayAccepts \/ RelayInitiates \/ RelayConfirms \/ RelayRefuses
           \/ RelayReceives \/ RelayForwards \/ RelayDelivers
  <2>1. UNCHANGED closeSent
    BY <1>2 DEF RelayRejects, RelayAccepts, RelayInitiates, RelayConfirms, RelayRefuses,
     RelayReceives, RelayForwards, RelayDelivers, R!RejectStart, R!StartAccepted,
     R!InitiateSent, R!StartOK, R!Refused, R!ReceiveData, R!Forwarded, R!ReaderSent,
     R!remoteVars
  <2> QED BY <1>1, <2>1
<1>3. CASE RelayInternal
  <2>1. UNCHANGED closeSent
    BY <1>3 DEF RelayInternal, R!InitiateRaises, R!Answered, R!StartOKRaises,
       R!ForwardRaises, R!Disconnect, R!JoinTimeout, R!Joined, R!ReaderStart,
       R!ReaderWake, R!ReaderSendRaises, R!ReaderCancelled, R!RecvDisconnect, R!LoopDrop,
       R!remoteVars
  <2> QED BY <1>1, <2>1
<1>4. CASE RelayTakesAnswer \/ RelayTakesData \/ RelayTakesReset \/ RelayTakesLate
  <2>1. UNCHANGED closeSent
    BY <1>4 DEF RelayTakesAnswer, RelayTakesData, RelayTakesReset, RelayTakesLate,
     relayVars, R!RecvAnswer, R!RecvData, R!RecvReset
  <2> QED BY <1>1, <2>1
<1> QED BY <1>1, <1>2, <1>3, <1>4 DEF RelayActs

\* The relay's steps.
LEMMA UnderwayRelay ==
  ASSUME CoreInv, RequestInv, CloseUnderway, RelayActs
  PROVE  CloseUnderway'
<1> SUFFICES ASSUME C \in closeSent', agentOf'[C] \in agentUp'
             PROVE  hpc'[C] # "initiate" /\ (Opening' => Has(toAgent', "close"))
  BY DEF CloseUnderway
<1>0. /\ RelayInv /\ MeetInv /\ UNCHANGED <<agentVars, agentUp>>
      /\ toAgent \in Seq(ToAgentMessages)
  <2>1. RelayInv /\ MeetInv
    BY DEF CoreInv, ComponentInv
  <2> QED BY <2>1, RelayStep DEF CoreInv, MessagesInv
<1>1. agentOf' = agentOf
  <2>1. ASSUME RelayAccepts, hpc[C] = "start" PROVE FALSE
    <3>1. closeSent' = closeSent
      BY <2>1 DEF RelayAccepts, R!StartAccepted, R!remoteVars
    <3>2. C \notin closeSent
      BY <1>0, <2>1, OneConnection DEF RelayInv, R!WaitInv, R!WaitOK
    <3> QED BY <3>1, <3>2
  <2> QED BY <1>0, <2>1, GivenOnce
<1>2. agentOf[C] \in agentUp
  BY <1>0, <1>1
<1>3. CASE C \in closeSent /\ ~ RelayCloses
  <2>1. hpc[C] # "initiate" /\ (Opening => Has(toAgent, "close"))
    BY <1>2, <1>3 DEF CloseUnderway
  <2>2. hpc[C] # "start"
    BY <1>0, <1>3, OneConnection DEF RelayInv, R!WaitInv, R!WaitOK
  <2>3. hpc'[C] # "initiate"
    BY <1>0, <2>1, <2>2, HandlerMoves
  <2>4. ~ RelayInitiates
    BY <2>1 DEF RelayInitiates, R!InitiateSent
  <2>5. CASE toAgent' = toAgent
    BY <1>0, <2>1, <2>3, <2>5 DEF Opening, agentVars
  <2>6. CASE RelayForwards
             /\ toAgent' = Append(toAgent, Message("data", encode_tcp_binary_frame(Id, carried)))
    <3> DEFINE msg == Message("data", encode_tcp_binary_frame(Id, carried))
    <3>1. msg \in ToAgentMessages
      <4>1. hpc[C] = "forward"
        BY <2>6 DEF RelayForwards, R!Forwarded
      <4>2. carried \in OneChunk
        BY <4>1 DEF CoreInv, MessagesInv
      <4> QED BY <4>2, FrameOfChunk DEF Message, ToAgentMessages
    <3>2. msg[1] = "data"
      BY DEF Message
    <3> HIDE DEF msg
    <3>3. toAgent' = Append(toAgent, msg)
      BY <2>6 DEF msg
    <3>4. /\ Has(Append(toAgent, msg), "initiate") => Has(toAgent, "initiate")
          /\ Has(toAgent, "close") => Has(Append(toAgent, msg), "close")
      BY <1>0, <3>1, <3>2, HasAppend
    <3> QED BY <1>0, <2>1, <2>3, <3>3, <3>4 DEF Opening, agentVars
  <2> QED BY <1>3, <2>4, <2>5, <2>6, ToAgentMoves
<1>4. CASE /\ RelayCloses /\ hpc[C] \notin {"start", "initiate"}
           /\ toAgent' = Append(toAgent, Message("close", <<>>))
  <2>1. hpc'[C] # "initiate"
    BY <1>0, <1>4, HandlerMoves
  <2>2. Message("close", <<>>) \in ToAgentMessages /\ Message("close", <<>>)[1] = "close"
    BY DEF Message, ToAgentMessages
  <2>3. Has(toAgent', "close")
    BY <1>0, <1>4, <2>2, HasAppend
  <2> QED BY <2>1, <2>3
<1> QED BY <1>2, <1>3, <1>4, CloseMoves

\* The agent opens a connection where it takes the request for it.
LEMMA OpeningMoves ==
  ASSUME AgentInv, AgentInternal
  PROVE  /\ writer'[C] = "open" => writer[C] = "open" \/ (mpc = "connect" /\ ecur = C)
         /\ mpc' # "connect"  \/ (mpc = "connect" /\ ecur' = ecur)
<1> USE OneConnection DEF AgentInv, E!EdgeInv, E!TypeOK, E!CloseWriter, E!connVars,
        E!mainVars, E!LeaveSession, E!NextMessage
<1>1. CASE E!Connected(C) \/ E!ConnectFails(C) \/ E!Confirmed(C)
  BY <1>1 DEF E!Connected, E!ConnectFails, E!Confirmed
<1>2. CASE E!Reported \/ E!Drained(C) \/ E!DrainFails(C) \/ E!MainSendRaises
           \/ E!ReceiveRaises
  BY <1>2 DEF E!Reported, E!Drained, E!DrainFails, E!MainSendRaises, E!ReceiveRaises
<1>3. CASE E!DrainReset(C)
  <2>1. mpc' \in {"report", "leave"} /\ writer' = [writer EXCEPT ![C] = "closed"]
    BY <1>3 DEF E!DrainReset
  <2> QED BY <2>1
<1>4. CASE E!CleanUp
  BY <1>4 DEF E!CleanUp
<1>5. CASE E!ReaderSent(C) \/ E!ReaderDone(C)
  BY <1>5 DEF E!ReaderSent, E!ReaderDone
<1>6. CASE E!ReaderEnds(C) \/ E!ReaderSendRaises(C)
  <2>1. /\ writer' = [writer EXCEPT ![C] = "closed"] /\ UNCHANGED <<mpc, ecur>>
    BY <1>6 DEF E!ReaderEnds, E!ReaderSendRaises, E!Finally
  <2> QED BY <2>1
<1> QED BY <1>1, <1>2, <1>3, <1>4, <1>5, <1>6 DEF AgentInternal

\* The agent's steps: it takes the request before the close, and the close closes.
LEMMA UnderwayAgent ==
  ASSUME CoreInv, CoreInv', RequestInv, CloseUnderway, AgentActs
  PROVE  CloseUnderway'
<1> SUFFICES ASSUME C \in closeSent', agentOf'[C] \in agentUp'
             PROVE  hpc'[C] # "initiate" /\ (Opening' => Has(toAgent', "close"))
  BY DEF CloseUnderway
<1>0. /\ UNCHANGED <<closeSent, agentOf, hpc>> /\ agentUp' \subseteq agentUp
      /\ toAgent \in Seq(ToAgentMessages) /\ AgentInv
  <2>1. R!AgentLeaves(session) => agentUp' \subseteq agentUp
    BY DEF R!AgentLeaves
  <2> QED BY <2>1, AgentStep DEF relayOwn, CoreInv, ComponentInv, MessagesInv
<1>1. hpc[C] # "initiate" /\ (Opening => Has(toAgent, "close"))
  BY <1>0 DEF CloseUnderway
<1>2. mpc' # "leave"
  BY DEF CoreInv, ComponentInv, MeetInv
<1>t. writer \in [{C} -> {"none", "open", "closed"}] /\ C \in {C}
      /\ (writer[C] = "open" <=> C \in active)
  BY <1>0, OneConnection DEF AgentInv, E!EdgeInv, E!TypeOK, E!NoLeakedWriter
<1>3. CASE AgentInitiates
  <2>1. /\ toAgent # <<>> /\ Head(toAgent)[1] = "initiate" /\ toAgent' = Tail(toAgent)
    BY <1>3 DEF AgentInitiates, First
  <2>2. Head(toAgent) = toAgent[1] /\ 1 \in 1 .. Len(toAgent)
    BY <1>0, <2>1
  <2>3. Has(toAgent, "initiate")
    BY <2>1, <2>2 DEF Has
  <2>4. Has(toAgent', "close")
    BY <1>0, <1>1, <2>1, <2>3, HasTail DEF Opening
  <2> QED BY <1>0, <1>1, <2>4
<1>4. CASE AgentWrites
  <2>1. /\ toAgent # <<>> /\ Head(toAgent)[1] = "data" /\ toAgent' = Tail(toAgent)
        /\ writer' = writer /\ mpc' = "drain"
    BY <1>4 DEF AgentWrites, First, E!WriteData, E!connVars
  <2>2. Opening' => Opening
    BY <1>0, <2>1, HasTail DEF Opening
  <2>3. Has(toAgent, "close") => Has(toAgent', "close")
    BY <1>0, <2>1, HasTail
  <2> QED BY <1>0, <1>1, <2>2, <2>3
<1>5. CASE AgentCloses \/ AgentTakesLate
  <2>1. /\ toAgent # <<>> /\ toAgent' = Tail(toAgent)
        /\ mpc' = "receive" /\ writer'[C] # "open"
    <3>1. CASE AgentCloses
      BY <1>t, <3>1 DEF AgentCloses, First, E!RelayCloses, E!CloseWriter, E!mainVars
    <3>2. CASE AgentTakesLate
      BY <1>t, <3>2 DEF AgentTakesLate, First, agentVars
    <3> QED BY <1>5, <3>1, <3>2
  <2>2. ~ Has(toAgent', "initiate")
    BY <1>0, <2>1, HasTail DEF RequestInv, AskedInv
  <2> QED BY <1>0, <1>1, <2>1, <2>2 DEF Opening
<1>6. CASE AgentInternal
  <2>1. toAgent' = toAgent
    BY <1>2, <1>6 DEF AgentInternal
  <2>2. Opening' => Opening
    BY <1>0, <1>6, <2>1, OpeningMoves DEF Opening
  <2> QED BY <1>0, <1>1, <2>1, <2>2
<1>7. CASE AgentReads \/ AgentPeers \/ AgentFlushes
  <2>1. UNCHANGED <<toAgent, writer, mpc, ecur>>
    BY <1>7 DEF AgentReads, AgentPeers, AgentFlushes, E!ReaderData, E!TargetEnds,
       E!TargetResets, E!TargetReads, E!RelayLost, E!mainVars, E!connVars
  <2>2. Opening' => Opening
    BY <2>1 DEF Opening
  <2> QED BY <1>0, <1>1, <2>1, <2>2
<1> QED BY <1>3, <1>4, <1>5, <1>6, <1>7 DEF AgentActs

LEMMA UnderwayStep ==
  ASSUME CoreInv, CoreInv', RequestInv, CloseUnderway, [Next]_vars
  PROVE  CloseUnderway'
<1>1. CASE UNCHANGED <<closeSent, agentOf, agentUp, hpc, writer, mpc, ecur, toAgent>>
  BY <1>1 DEF CloseUnderway, Opening
<1>2. CASE ClientActs
  BY <1>1, <1>2, ClientSteps DEF relayOwn, agentVars
<1>3. CASE AgentConnects
  <2>1. /\ agentOf' = agentOf /\ session' = session + 1 /\ ws' = "up" /\ session \in Nat
    BY <1>3, SystemOK DEF AgentConnects, E!Connect, R!AgentJoins, R!tableVars, CoreInv,
       ComponentInv, AgentInv, E!EdgeInv, E!TypeOK
  <2>2. agentUp' = {session'}
    BY <2>1 DEF CoreInv, ComponentInv, MeetInv
  <2>3. agentOf[C] # session'
    <3>1. CASE agentOf[C] = 0
      BY <2>1, <3>1
    <3>2. CASE agentOf[C] # 0
      <4>1. agentOf[C] \in Nat /\ agentOf[C] <= session
        BY <3>2, AgentKnown
      <4> QED BY <2>1, <4>1
    <3> QED BY <3>1, <3>2
  <2> QED BY <2>1, <2>2, <2>3 DEF CloseUnderway
<1>4. CASE UNCHANGED vars
  BY <1>1, <1>4 DEF vars, relayVars, agentVars, channels
<1>5. CASE AgentActs
  BY <1>5, UnderwayAgent
<1>6. CASE RelayActs
  BY <1>6, UnderwayRelay
<1> QED BY <1>2, <1>3, <1>4, <1>5, <1>6, WhoseStep

-----------------------------------------------------------------------------
(* A client that is told, and handlers that raise.                         *)

\* A message loop never raises here, and a handler that has a reader raises only
\* because its agent is gone.
CrashInv ==
  /\ \A a \in 1 .. MaxSessions : lpc[a] # "raised"
  /\ hpc[C] = "crashed" /\ rpc[C] # "none" => agentOf[C] \notin agentUp

\* The client's connection is in both tables, or its socket is closed or broken, or
\* its target has ended.
Aware ==
  \/ C \in relayed \cap accessClients
  \/ C \in wsClosed \/ C \notin clientUp \/ remote[C] = "ended"

\* Data goes to the agent, and is written to the target, only for a connection whose
\* client the relay had registered.
HeldInv == Has(toAgent, "data") \/ mpc = "drain" => rpc[C] # "none" /\ Aware

LEMMA LoopsServe ==
  ASSUME RelayInv, MeetInv, RelayActs, NEW a \in 1 .. MaxSessions, lpc'[a] = "raised"
  PROVE  lpc[a] = "raised"
<1>t. lpc \in [1 .. MaxSessions -> R!LoopPC]
  BY DEF RelayInv, R!TypeOK
<1>0. ASSUME NEW b \in 1 .. MaxSessions, NEW l, l # "raised", lpc' = [lpc EXCEPT ![b] = l]
      PROVE  lpc[a] = "raised"
  BY <1>0, <1>t
<1>1. CASE UNCHANGED lpc
  BY <1>1
<1>2. ASSUME NEW b \in 1 .. MaxSessions, NEW todo, R!CloseNext(b, todo)
      PROVE  lpc[a] = "raised"
  <2>1. \E l \in {"receive", "done", "close"} : lpc' = [lpc EXCEPT ![b] = l]
    BY <1>2 DEF R!CloseNext, R!Goto
  <2> QED BY <1>0, <2>1
<1>3. CASE RelayRejects \/ RelayAccepts \/ RelayInitiates \/ RelayConfirms \/ RelayRefuses
           \/ RelayReceives \/ RelayForwards \/ RelayDelivers
  <2>1. UNCHANGED lpc
    BY <1>3 DEF RelayRejects, RelayAccepts, RelayInitiates, RelayConfirms, RelayRefuses,
       RelayReceives, RelayForwards, RelayDelivers, R!RejectStart, R!StartAccepted,
       R!InitiateSent, R!StartOK, R!Refused, R!ReceiveData, R!Forwarded, R!ReaderSent,
       R!loopVars
  <2> QED BY <1>1, <2>1
<1>4. CASE RelayCloses
  <2>1. CASE R!HandlerClose(C)
    BY <1>1, <2>1 DEF R!HandlerClose, R!loopVars
  <2>2. ASSUME NEW b \in 1 .. MaxSessions, R!LoopClose(b) PROVE lpc[a] = "raised"
    <3>1. lpc' = [lpc EXCEPT ![b] = "drop"] \/ R!CloseNext(b, pending[b])
      BY <2>2 DEF R!LoopClose, R!Goto
    <3> QED BY <1>0, <1>2, <3>1
  <2> QED BY <1>4, <2>1, <2>2 DEF RelayCloses
<1>5. CASE RelayInternal
  <2>1. CASE \/ R!InitiateRaises(C) \/ R!Answered(C) \/ R!StartOKRaises(C)
             \/ R!ForwardRaises(C) \/ R!Disconnect(C) \/ R!JoinTimeout(C) \/ R!Joined(C)
             \/ R!ReaderStart(C) \/ R!ReaderWake(C) \/ R!ReaderSendRaises(C)
             \/ R!ReaderCancelled(C)
    BY <1>1, <2>1 DEF R!InitiateRaises, R!Answered, R!StartOKRaises, R!ForwardRaises,
       R!Disconnect, R!JoinTimeout, R!Joined, R!ReaderStart, R!ReaderWake,
       R!ReaderSendRaises, R!ReaderCancelled, R!loopVars
  <2>2. ASSUME NEW b \in 1 .. MaxSessions, R!RecvDisconnect(b) \/ R!LoopDrop(b)
        PROVE  lpc[a] = "raised"
    <3>1. \E todo : R!CloseNext(b, todo)
      BY <2>2 DEF R!RecvDisconnect, R!LoopDrop
    <3> QED BY <1>2, <3>1
  <2> QED BY <1>5, <2>1, <2>2 DEF RelayInternal
<1>6. CASE RelayTakesAnswer \/ RelayTakesData \/ RelayTakesLate
  BY <1>1, <1>6 DEF RelayTakesAnswer, RelayTakesData, RelayTakesLate, R!RecvAnswer,
     R!RecvData, R!loopVars, relayVars
<1>7. CASE RelayTakesReset
  <2>1. agentOf[C] \in 1 .. MaxSessions
    <3>1. remote[C] # "none"
      BY <1>7 DEF RelayTakesReset, R!RecvReset
    <3> QED BY <3>1 DEF MeetInv, RelayInv, R!TypeOK
  <2>2. UNCHANGED lpc \/ lpc' = [lpc EXCEPT ![agentOf[C]] = "close"]
    BY <1>7 DEF RelayTakesReset, R!RecvReset, R!Goto
  <2> QED BY <1>0, <1>1, <2>1, <2>2
<1> QED BY <1>3, <1>4, <1>5, <1>6, <1>7 DEF RelayActs

\* What a handler raises while it forwards is the send to an agent that is gone.
LEMMA ForwardFails ==
  ASSUME RelayInv, MeetInv, RelayActs, hpc[C] = "forward", hpc'[C] = "crashed"
  PROVE  agentOf[C] \notin agentUp
<1>t. hpc \in [{C} -> R!HandlerPC] /\ C \in {C}
  BY OneConnection DEF RelayInv, R!TypeOK
<1>1. CASE R!HandlerStep(C)
  <2>1. CASE R!Forwarded(C)
    BY <1>t, <2>1 DEF R!Forwarded, R!Goto
  <2>2. CASE R!ForwardRaises(C)
    BY <2>2 DEF R!ForwardRaises, R!SendRaises
  <2> QED BY <1>1, <2>1, <2>2 DEF R!HandlerStep, R!RejectStart, R!StartAccepted,
       R!InitiateSent, R!InitiateRaises, R!Answered, R!StartOK, R!StartOKRaises, R!Refused,
       R!ReceiveData, R!MessageRaises, R!Disconnect, R!HandlerClose, R!JoinTimeout, R!Joined
<1>2. CASE R!ReaderStep(C)
  BY <1>2 DEF R!ReaderStep, R!ReaderStart, R!ReaderWake, R!ReaderSent, R!ReaderSendRaises,
     R!ReaderCancelled
<1>3. ASSUME NEW a \in 1 .. MaxSessions, R!LoopStep(a) PROVE FALSE
  BY <1>3 DEF R!LoopStep, R!RecvAnswer, R!RecvData, R!RecvReset, R!RecvDisconnect,
     R!LoopRaises, R!LoopClose, R!LoopDrop
<1>4. CASE UNCHANGED relayVars
  BY <1>4 DEF relayVars
<1> QED BY <1>1, <1>2, <1>3, <1>4, RelayStep

LEMMA CrashStep ==
  ASSUME CoreInv, CrashInv, [Next]_vars
  PROVE  CrashInv'
<1>c. RelayInv /\ MeetInv
  BY DEF CoreInv, ComponentInv
<1>1. CASE RelayActs
  <2>1. \A a \in 1 .. MaxSessions : lpc'[a] # "raised"
    BY <1>1, <1>c, LoopsServe DEF CrashInv
  <2>2. ASSUME hpc'[C] = "crashed", rpc'[C] # "none", agentOf'[C] \in agentUp'
        PROVE  FALSE
    <3>1. agentUp' = agentUp
      BY <1>1, <1>c, RelayStep
    <3>2. rpc[C] # "none"
      <4>1. ASSUME RelayConfirms PROVE FALSE
        <5>1. hpc' = [hpc EXCEPT ![C] = "receive"] /\ hpc \in [{C} -> R!HandlerPC]
          BY <1>c, <4>1 DEF RelayConfirms, R!StartOK, R!Goto, RelayInv, R!TypeOK
        <5> QED BY <2>2, <5>1, OneConnection
      <4> QED BY <1>1, <1>c, <2>2, <4>1, ReaderMoves
    <3>3. hpc[C] \in {"crashed", "forward"}
      <4>1. hpc[C] \notin {"initiate", "start_ok", "refused"}
        BY <1>c, <3>2, OneConnection DEF RelayInv, R!SessionInv, R!ProgressInv
      <4> QED BY <1>1, <1>c, <2>2, <4>1, HandlerMoves
    <3>4. agentOf' = agentOf
      BY <1>1, <1>c, <3>3, GivenOnce
    <3>5. hpc[C] # "crashed"
      BY <2>2, <3>1, <3>2, <3>4 DEF CrashInv
    <3> QED BY <1>1, <1>c, <2>2, <3>1, <3>3, <3>4, <3>5, ForwardFails
  <2> QED BY <2>1, <2>2 DEF CrashInv
<1>2. CASE AgentConnects
  <2>1. /\ UNCHANGED <<hpc, rpc, agentOf>> /\ session' = session + 1
        /\ agentUp' = agentUp \cup {session'} /\ session \in Nat
        /\ lpc' = [lpc EXCEPT ![session'] = "receive"]
    BY <1>2, SystemOK DEF AgentConnects, E!Connect, R!AgentJoins, R!tableVars, R!readerVars,
       R!Goto, CoreInv, ComponentInv, AgentInv, E!EdgeInv, E!TypeOK
  <2>2. rpc[C] # "none" => agentOf[C] # session'
    <3>1. ASSUME rpc[C] # "none" PROVE agentOf[C] \in Nat /\ agentOf[C] <= session
      <4>1. agentOf[C] # 0
        BY <1>c, <3>1, OneConnection DEF RelayInv, R!SessionInv, R!ProgressInv
      <4> QED BY <4>1, AgentKnown
    <3> QED BY <2>1, <3>1
  <2>3. lpc \in [1 .. MaxSessions -> R!LoopPC]
    BY <1>c DEF RelayInv, R!TypeOK
  <2>4. \A a \in 1 .. MaxSessions : lpc'[a] # "raised"
    BY <2>1, <2>3 DEF CrashInv
  <2> QED BY <2>1, <2>2, <2>4 DEF CrashInv
<1>3. CASE ClientActs \/ AgentActs
  <2>1. UNCHANGED <<lpc, hpc, rpc, agentOf>> /\ agentUp' \subseteq agentUp
    <3>1. R!AgentLeaves(session) => agentUp' \subseteq agentUp
      BY DEF R!AgentLeaves
    <3> QED BY <1>3, <3>1, ClientSteps, AgentStep DEF relayOwn
  <2> QED BY <2>1 DEF CrashInv
<1>4. CASE UNCHANGED vars
  BY <1>4 DEF vars, relayVars, CrashInv
<1> QED BY <1>1, <1>2, <1>3, <1>4, WhoseStep

\* The relay closes a socket for good, and a reader that was started stays known.
LEMMA ClosedStays ==
  ASSUME RelayInv, MeetInv, RelayActs
  PROVE  wsClosed \subseteq wsClosed' /\ (rpc[C] # "none" => rpc'[C] # "none")
<1>t. rpc \in [{C} -> R!ReaderPC] /\ C \in {C}
  BY OneConnection DEF RelayInv, R!TypeOK
<1>1. CASE R!HandlerStep(C)
  <2>1. UNCHANGED rpc \/ rpc' = [rpc EXCEPT ![C] = "start"]
    BY <1>1 DEF R!readerVars, R!HandlerStep, R!RejectStart, R!StartAccepted, R!InitiateSent,
       R!InitiateRaises, R!Answered, R!StartOK, R!StartOKRaises, R!Refused, R!ReceiveData,
       R!MessageRaises, R!Forwarded, R!ForwardRaises, R!Disconnect, R!HandlerClose,
       R!JoinTimeout, R!Joined, R!Goto
  <2>2. wsClosed \subseteq wsClosed'
    BY <1>1 DEF R!socketVars, R!HandlerStep, R!RejectStart, R!StartAccepted, R!InitiateSent,
       R!InitiateRaises, R!Answered, R!StartOK, R!StartOKRaises, R!Refused, R!ReceiveData,
       R!MessageRaises, R!Forwarded, R!ForwardRaises, R!Disconnect, R!HandlerClose,
       R!JoinTimeout, R!Joined, R!Crash
  <2> QED BY <1>t, <2>1, <2>2
<1>2. CASE R!ReaderStep(C)
  <2>1. \E place \in {"send", "wait", "done"} : rpc' = [rpc EXCEPT ![C] = place]
    BY <1>2 DEF R!ReaderStep, R!ReaderStart, R!ReaderWake, R!ReaderSent, R!ReaderSendRaises,
       R!ReaderCancelled, R!LoopAgain, R!Take, R!Park, R!Stop, R!Goto
  <2>2. UNCHANGED wsClosed
    BY <1>2 DEF R!ReaderStep, R!ReaderStart, R!ReaderWake, R!ReaderSent, R!ReaderSendRaises,
       R!ReaderCancelled, R!socketVars
  <2> QED BY <1>t, <2>1, <2>2
<1>3. ASSUME NEW a \in 1 .. MaxSessions, R!LoopStep(a)
      PROVE  wsClosed \subseteq wsClosed' /\ UNCHANGED rpc
  BY <1>3 DEF R!LoopStep, R!RecvAnswer, R!RecvData, R!RecvReset, R!RecvDisconnect,
     R!LoopRaises, R!LoopClose, R!LoopDrop, R!socketVars, R!readerVars
<1>4. CASE UNCHANGED relayVars
  BY <1>4 DEF relayVars
<1> QED BY <1>1, <1>2, <1>3, <1>4, RelayStep

\* A client is taken out of the table by its own handler, once it is gone.
LEMMA ClientForgotten ==
  ASSUME RelayInv, MeetInv, RelayActs, C \in accessClients, C \notin accessClients'
  PROVE  C \notin clientUp \/ C \in wsClosed
<1>1. CASE R!HandlerStep(C)
  <2>1. R!Disconnect(C)
    BY <1>1 DEF R!tableVars, R!HandlerStep, R!RejectStart, R!StartAccepted, R!InitiateSent,
       R!InitiateRaises, R!Answered, R!StartOK, R!StartOKRaises, R!Refused, R!ReceiveData,
       R!MessageRaises, R!Forwarded, R!ForwardRaises, R!HandlerClose, R!JoinTimeout,
       R!Joined
  <2> QED BY <2>1 DEF R!Disconnect
<1>2. CASE R!ReaderStep(C)
  BY <1>2 DEF R!ReaderStep, R!ReaderStart, R!ReaderWake, R!ReaderSent, R!ReaderSendRaises,
     R!ReaderCancelled, R!tableVars
<1>3. ASSUME NEW a \in 1 .. MaxSessions, R!LoopStep(a) PROVE UNCHANGED accessClients
  BY <1>3 DEF R!LoopStep, R!RecvAnswer, R!RecvData, R!RecvReset, R!RecvDisconnect,
     R!LoopRaises, R!LoopClose, R!LoopDrop, R!tableVars
<1>4. CASE UNCHANGED relayVars
  BY <1>4 DEF relayVars
<1> QED BY <1>1, <1>2, <1>3, <1>4, RelayStep

LEMMA AwareStays ==
  ASSUME CoreInv, CoreInv', CloseInv, RelayActs, Next, Aware
  PROVE  Aware'
<1>c. RelayInv /\ MeetInv /\ MeetInv'
  BY DEF CoreInv, ComponentInv
<1>1. wsClosed \subseteq wsClosed' /\ UNCHANGED clientUp
  BY <1>c, ClosedStays, RelayStep
<1>2. remote[C] = "ended" => remote'[C] = "ended"
  BY <1>c, RemoteMoves
<1>3. ASSUME C \in relayed, C \in accessClients PROVE Aware'
  <2>1. CASE C \notin relayed'
    BY <1>3, <1>c, <2>1, DropTold DEF Aware, MeetInv
  <2>2. CASE C \notin accessClients'
    BY <1>1, <1>3, <1>c, <2>2, ClientForgotten DEF Aware
  <2>3. CASE C \in relayed' /\ C \in accessClients'
    BY <2>3 DEF Aware
  <2> QED BY <2>1, <2>2, <2>3
<1> QED BY <1>1, <1>2, <1>3 DEF Aware

\* Data is forwarded for a client that the relay has registered.
LEMMA ForwardAware ==
  ASSUME CoreInv, RelayForwards, agentOf[C] \in agentUp
  PROVE  rpc[C] # "none" /\ Aware
<1>c. RelayInv
  BY DEF CoreInv, ComponentInv
<1>1. hpc[C] = "forward"
  BY DEF RelayForwards, R!Forwarded
<1>2. rpc[C] # "none" /\ agentOf[C] # 0
  BY <1>1, <1>c, OneConnection DEF RelayInv, R!SessionInv, R!ProgressInv
<1>3. C \in accessClients
  BY <1>1, <1>2, <1>c, OneConnection DEF RelayInv, R!OrphanInv, R!OrphanOK
<1>4. C \notin relayed => C \notin clientUp \/ remote[C] = "ended"
  BY <1>1, <1>2, <1>c, OneConnection DEF RelayInv, R!SessionInv, R!CauseInv,
     R!NoUncausedTeardown, R!Cause, R!TargetLost
<1> QED BY <1>2, <1>3, <1>4 DEF Aware

LEMMA HeldRelay ==
  ASSUME CoreInv, CoreInv', RequestInv, CloseInv, HeldInv, RelayActs, Next
  PROVE  HeldInv'
<1> SUFFICES ASSUME Has(toAgent', "data") \/ mpc' = "drain" PROVE rpc'[C] # "none" /\ Aware'
  BY DEF HeldInv
<1>c. /\ RelayInv /\ MeetInv /\ toAgent \in Seq(ToAgentMessages) /\ UNCHANGED agentVars
  <2>1. RelayInv /\ MeetInv
    BY DEF CoreInv, ComponentInv
  <2> QED BY <2>1, RelayStep DEF CoreInv, MessagesInv
<1>1. rpc[C] # "none" /\ Aware
  <2>1. CASE Has(toAgent, "data") \/ mpc = "drain"
    BY <2>1 DEF HeldInv
  <2>2. CASE RelayForwards /\ agentOf[C] \in agentUp
    BY <2>2, ForwardAware
  <2>3. CASE toAgent' = toAgent
    BY <1>c, <2>1, <2>3 DEF agentVars
  <2>4. ASSUME NEW kind \in {"initiate", "close"},
               toAgent' = Append(toAgent, Message(kind, <<>>))
        PROVE  Has(toAgent, "data") \/ mpc = "drain"
    <3>1. Message(kind, <<>>) \in ToAgentMessages /\ Message(kind, <<>>)[1] # "data"
      BY DEF Message, ToAgentMessages
    <3>2. Has(toAgent', "data") => Has(toAgent, "data")
      BY <1>c, <2>4, <3>1, HasAppend
    <3> QED BY <1>c, <3>2 DEF agentVars
  <2> QED BY <2>1, <2>2, <2>3, <2>4, ToAgentMoves
<1> QED BY <1>1, <1>c, ClosedStays, AwareStays

LEMMA HeldAgent ==
  ASSUME CoreInv, HeldInv, AgentActs
  PROVE  HeldInv'
<1>1. UNCHANGED <<rpc, relayed, accessClients, wsClosed, clientUp, remote>>
  BY AgentStep DEF relayOwn
<1>2. toAgent \in Seq(ToAgentMessages)
  BY DEF CoreInv, MessagesInv
<1>3. Has(toAgent', "data") \/ mpc' = "drain" => Has(toAgent, "data") \/ mpc = "drain"
  <2>0. Has(Tail(toAgent), "data") /\ toAgent # <<>> => Has(toAgent, "data")
    BY <1>2, HasTail
  <2>1. CASE AgentWrites
    <3>1. toAgent # <<>> /\ Head(toAgent)[1] = "data"
      BY <2>1 DEF AgentWrites, First
    <3>2. Head(toAgent) = toAgent[1] /\ 1 \in 1 .. Len(toAgent)
      BY <1>2, <3>1
    <3> QED BY <3>1, <3>2 DEF Has
  <2>2. CASE AgentInitiates \/ AgentCloses \/ AgentTakesLate
    <3>1. toAgent # <<>> /\ toAgent' = Tail(toAgent) /\ mpc' # "drain"
      BY <2>2 DEF AgentInitiates, AgentCloses, AgentTakesLate, First, E!Initiate,
         E!RelayCloses, E!mainVars, agentVars
    <3> QED BY <2>0, <3>1
  <2>3. CASE AgentReads \/ AgentPeers \/ AgentFlushes
    BY <2>3 DEF AgentReads, AgentPeers, AgentFlushes, E!ReaderData, E!TargetEnds,
       E!TargetResets, E!TargetReads, E!RelayLost, E!mainVars
  <2>4. CASE AgentInternal
    <3>1. toAgent' \in {toAgent, <<>>} /\ ~ Has(<<>>, "data")
      BY <2>4 DEF AgentInternal, Has
    <3>2. mpc' = "drain" => mpc = "drain"
      BY <2>4 DEF AgentInternal, E!Connected, E!ConnectFails, E!Confirmed, E!Reported,
         E!Drained, E!DrainReset, E!DrainFails, E!MainSendRaises, E!ReceiveRaises,
         E!CleanUp, E!ReaderSent, E!ReaderEnds, E!ReaderSendRaises, E!ReaderDone,
         E!Finally, E!LeaveSession, E!NextMessage, E!mainVars
    <3> QED BY <3>1, <3>2
  <2> QED BY <2>1, <2>2, <2>3, <2>4 DEF AgentActs
<1> QED BY <1>1, <1>3 DEF HeldInv, Aware

LEMMA HeldStep ==
  ASSUME CoreInv, CoreInv', RequestInv, CloseInv, HeldInv, [Next]_vars
  PROVE  HeldInv'
<1>1. CASE RelayActs /\ Next
  BY <1>1, HeldRelay
<1>2. CASE AgentActs
  BY <1>2, HeldAgent
<1>3. CASE ClientActs
  <2>1. /\ UNCHANGED <<relayOwn, agentVars, toAgent>> /\ clientUp' \subseteq clientUp
    <3>1. R!ClientLeaves(C) => clientUp' \subseteq clientUp
      BY DEF R!ClientLeaves
    <3> QED BY <1>3, <3>1, ClientSteps
  <2> QED BY <2>1 DEF HeldInv, Aware, relayOwn, agentVars
<1>4. CASE AgentConnects
  <2>1. /\ UNCHANGED <<rpc, relayed, accessClients, wsClosed, clientUp, remote, toAgent>>
        /\ mpc' = "receive"
    BY <1>4 DEF AgentConnects, E!Connect, R!AgentJoins, R!tableVars, R!readerVars,
       R!remoteVars, channels
  <2> QED BY <2>1 DEF HeldInv, Aware
<1>5. CASE UNCHANGED vars
  BY <1>5 DEF vars, relayVars, agentVars, channels, HeldInv, Aware
<1> QED BY <1>1, <1>2, <1>3, <1>4, <1>5, WhoseStep

\* The inductive invariant of the states of rest.
RestInv ==
  SystemInv /\ ResetInv /\ CloseUnderway /\ CloseInv /\ CrashInv /\ HeldInv

LEMMA RestInit == Init => RestInv
<1> SUFFICES ASSUME Init
             PROVE  ResetInv /\ CloseUnderway /\ CloseInv /\ CrashInv /\ HeldInv
  BY SystemInit DEF RestInv
<1>1. remote[C] = "none" /\ taken = 0 /\ closeSent = {}
  BY OneConnection DEF Init, R!Init
<1>2. CloseInv /\ CrashInv
  BY OneConnection DEF Init, R!Init, CloseInv, CrashInv
<1>3. HeldInv
  BY DEF Init, E!Init, HeldInv, Has
<1> QED BY <1>1, <1>2, <1>3 DEF ResetInv, CloseUnderway, E!HasReset

LEMMA RestStep == RestInv /\ [Next]_vars => RestInv'
<1> SUFFICES ASSUME RestInv, [Next]_vars PROVE RestInv'
  OBVIOUS
<1>1. SystemInv'
  BY SystemStep DEF RestInv
<1>2. CoreInv /\ CoreInv' /\ RequestInv
  BY <1>1 DEF RestInv, SystemInv, OrderInv
<1>3. ResetInv' /\ CloseUnderway'
  BY <1>2, ResetStep, UnderwayStep DEF RestInv
<1>4. CloseInv' /\ CrashInv' /\ HeldInv'
  BY <1>2, CloseStep, CrashStep, HeldStep DEF RestInv
<1> QED BY <1>1, <1>3, <1>4 DEF RestInv

LEMMA RestHolds == Spec => []RestInv
<1> QED BY RestInit, RestStep, PTL DEF Spec

-----------------------------------------------------------------------------
(* What the states of rest are like.                                       *)

LEMMA EmptyEnds ==
  ASSUME NEW m, NEW n, EndToEnd(Contents(<<>>), m, n) \/ EndToEnd(Framed(<<>>), m, n)
  PROVE  m = n
<1>1. Len(Contents(<<>>)) = 0 /\ Len(Framed(<<>>)) = 0
  BY DEF Contents, Framed
<1> QED BY <1>1 DEF EndToEnd

\* A message loop at rest whose agent is there has taken everything, and so has
\* the agent, unless it waits for the target to read.
LEMMA LinkRests ==
  ASSUME RestInv, AtRest, agentOf[C] # 0, lpc[agentOf[C]] = "receive"
  PROVE  /\ ws = "up" /\ agentUp = {session} /\ agentOf[C] = session
         /\ Held \/ (mpc = "receive" /\ toAgent = <<>>)
         /\ taken = Len(sent[C])
<1>0. CoreInv /\ MeetInv /\ AgentInv
  BY DEF RestInv, SystemInv, OrderInv, CoreInv, ComponentInv
<1>1. agentOf[C] \in 1 .. MaxSessions
  BY <1>0, AgentKnown
<1>2. agentOf[C] \in agentUp /\ NextFromAgent = "none"
  BY <1>1 DEF AtRest, LoopRests
<1>3. ws = "up" /\ agentUp = {session} /\ agentOf[C] = session /\ mpc # "down"
  BY <1>0, <1>2 DEF MeetInv
<1>4. Held \/ (mpc = "receive" /\ toAgent = <<>>)
  BY <1>3 DEF AtRest, AgentRests
<1>5. taken = Len(sent[C])
  <2>1. sent[C] \in Seq({"ok", "error", "data", "reset"}) /\ taken \in 0 .. Len(sent[C])
    BY <1>0, OneConnection DEF AgentInv, E!EdgeInv, E!TypeOK, CoreInv, MessagesInv
  <2>2. CASE taken < Len(sent[C])
    <3>1. taken + 1 \in 1 .. Len(sent[C])
      BY <2>1, <2>2
    <3>2. sent[C][taken + 1] \in {"ok", "error", "data", "reset"}
      BY <2>1, <3>1
    <3> QED BY <1>2, <2>2, <3>2 DEF NextFromAgent
  <2> QED BY <2>1, <2>2
<1> QED BY <1>3, <1>4, <1>5

\* What is known of a connection whose relay has not dropped it, at rest.
LEMMA RelayedRests ==
  ASSUME RestInv, AtRest, C \in relayed
  PROVE  agentOf[C] # 0 /\ lpc[agentOf[C]] = "receive"
<1>0. RelayInv
  BY DEF RestInv, SystemInv, OrderInv, CoreInv, ComponentInv
<1>1. /\ agentOf[C] \in 1 .. MaxSessions
      /\ agentOf[C] \in registered \/ lpc[agentOf[C]] \in {"close", "drop"}
  BY <1>0 DEF RelayInv, R!SessionInv, R!CoverInv
<1>2. agentOf[C] \in registered => lpc[agentOf[C]] \notin {"absent", "done"}
  BY <1>0, <1>1 DEF RelayInv, R!SessionInv, R!LoopInv
<1>3. lpc[agentOf[C]] \in {"absent", "done", "receive"}
  BY <1>1 DEF AtRest, LoopRests
<1> QED BY <1>1, <1>2, <1>3

\* What the target was sent is of a client that the relay still serves: an agent that
\* waits for the target to read is in a session.
LEMMA HeldRests ==
  ASSUME RestInv, AtRest, apc = "pump", writer[C] = "open", mpc = "drain"
  PROVE  ws = "up"
<1>0. CoreInv /\ MeetInv /\ AgentInv
  BY DEF RestInv, SystemInv, OrderInv, CoreInv, ComponentInv
<1>1. C \notin wsClosed /\ C \in clientUp
  BY <1>0 DEF AtRest, ClientRests, MeetInv
<1>2. remote[C] # "ended"
  <2>1. E!HasReset(sent[C], taken) => E!HasReset(sent[C], Len(sent[C]))
    <3>1. taken \in 0 .. Len(sent[C])
      BY <1>0 DEF CoreInv, MessagesInv
    <3>2. \A i \in 1 .. taken : i \in 1 .. Len(sent[C])
      BY <3>1
    <3> QED BY <3>2 DEF E!HasReset
  <2>2. ~ E!HasReset(sent[C], Len(sent[C]))
    BY <1>0, OneConnection DEF AgentInv, E!EndInv, E!EndOK
  <2> QED BY <2>1, <2>2 DEF RestInv, ResetInv
<1>3. C \in relayed
  BY <1>1, <1>2 DEF RestInv, HeldInv, Aware
<1> QED BY <1>3, RelayedRests, LinkRests

\* A target connection that is open at rest belongs to an agent that is there, all
\* of whose messages were taken, its answer among them.
LEMMA OpenRests ==
  ASSUME RestInv, AtRest, writer[C] = "open", Held => apc = "pump"
  PROVE  /\ agentOf[C] # 0 /\ lpc[agentOf[C]] = "receive" /\ agentOf[C] \in agentUp
         /\ ws = "up" /\ born[C] = session /\ taken = Len(sent[C])
         /\ Held \/ toAgent = <<>>
         /\ remote[C] \notin {"none", "asked", "ended"}
<1>0. CoreInv /\ RelayInv /\ MeetInv /\ AgentInv /\ C \in active
  BY OneConnection DEF RestInv, SystemInv, OrderInv, CoreInv, ComponentInv, AgentInv, E!EdgeInv,
     E!NoLeakedWriter
<1>1. mpc # "down" /\ born[C] = session
  BY <1>0 DEF AgentInv, E!EdgeInv, E!SessionOwnsConnections
<1>2. ws = "up"
  <2>1. CASE Held
    BY <2>1, HeldRests DEF Held
  <2>2. CASE ~ Held
    BY <1>1, <2>2 DEF AtRest, AgentRests
  <2> QED BY <2>1, <2>2
<1>3. agentUp = {session} /\ session # 0
  BY <1>0, <1>2 DEF MeetInv
<1>4. agentOf[C] = session
  BY <1>1, <1>3 DEF RestInv, SystemInv, BornInv
<1>5. agentOf[C] \in registered /\ agentOf[C] \in 1 .. MaxSessions
  BY <1>0, <1>3, <1>4, AgentKnown DEF RelayInv, R!WaitInv
<1>6. lpc[agentOf[C]] = "receive"
  <2>1. lpc[agentOf[C]] \notin {"absent", "done"}
    BY <1>0, <1>5 DEF RelayInv, R!SessionInv, R!LoopInv
  <2> QED BY <1>5, <2>1 DEF AtRest, LoopRests
<1>7. agentOf[C] # 0 /\ (Held \/ toAgent = <<>>) /\ taken = Len(sent[C])
  BY <1>3, <1>4, <1>6, LinkRests
<1>8. E!AnswerInv(C) /\ E!EndOK(C) /\ sent[C] \in Seq({"ok", "error", "data", "reset"})
  BY <1>0, OneConnection DEF AgentInv, E!AnswersInv, E!EndInv, E!EdgeInv, E!TypeOK
<1>9. sent[C] # <<>>
  BY <1>1, <1>2, <1>8 DEF E!AnswerInv, E!SendRaises
<1>10. taken # 0
  BY <1>7, <1>8, <1>9
<1>11. remote[C] \notin {"none", "asked"}
  BY <1>10 DEF RestInv, SystemInv, OrderInv, RequestInv, AnsweredInv
<1>12. remote[C] # "ended"
  BY <1>7, <1>8 DEF RestInv, ResetInv, E!EndOK
<1> QED BY <1>1, <1>2, <1>3, <1>4, <1>6, <1>7, <1>11, <1>12

\* The end of a client closes the connection to its target, whoever of client,
\* relay, agent and target ended what before, unless the handler raised when it
\* wanted to confirm the connection to the client, or the agent waits for the target
\* to read and does not take the relay's close.
THEOREM ClientEndClosesTargetHolds == Spec => []ClientEndClosesTarget
<1>1. RestInv => ClientEndClosesTarget
  <2> SUFFICES ASSUME RestInv, apc = "done", writer[C] = "open", AtRest, ~ Held
               PROVE  hpc[C] = "crashed" /\ rpc[C] = "none"
    BY DEF ClientEndClosesTarget
  <2>0. CoreInv /\ RelayInv /\ MeetInv
    BY DEF RestInv, SystemInv, OrderInv, CoreInv, ComponentInv
  <2>1. /\ agentOf[C] \in agentUp /\ toAgent = <<>>
        /\ remote[C] \notin {"none", "asked", "ended"}
    BY OpenRests
  <2>2. aws = "closed" /\ C \notin clientUp
    BY <2>0 DEF MeetInv
  <2>3. R!WaitOK(C)
    BY <2>0, OneConnection DEF RelayInv, R!WaitInv
  <2>4. hpc[C] # "answer"
    BY <2>1, <2>2, <2>3 DEF AtRest, HandlerRests, R!WaitOK
  <2>5. hpc[C] # "done"
    <3>1. ASSUME hpc[C] = "done" PROVE FALSE
      <4>1. C \in closeSent
        BY <2>1, <2>3, <3>1 DEF R!WaitOK
      <4>2. Has(toAgent, "close")
        BY <2>1, <4>1 DEF RestInv, CloseUnderway, Opening
      <4> QED BY <2>1, <4>2 DEF Has
    <3> QED BY <3>1
  <2>6. hpc[C] = "crashed"
    BY <2>2, <2>4, <2>5 DEF AtRest, HandlerRests
  <2>7. rpc[C] = "none"
    BY <2>1, <2>6 DEF RestInv, CrashInv
  <2> QED BY <2>6, <2>7
<1> QED BY <1>1, RestHolds, PTL

\* The end of a target connection reaches the relay, which drops its entry, and a
\* client whose WebSocket the relay has closed ends.
THEOREM TargetEndReachesClientHolds == Spec => []TargetEndReachesClient
<1>1. RestInv => TargetEndReachesClient
  <2> SUFFICES ASSUME RestInv, target[C] \notin {"none", "open"}, AtRest
               PROVE  C \notin relayed /\ (C \in wsClosed => apc \in {"start", "done"})
    BY DEF TargetEndReachesClient
  <2>1. C \in wsClosed => apc \in {"start", "done"}
    BY DEF AtRest, ClientRests
  <2>2. ASSUME C \in relayed PROVE FALSE
    <3>0. CoreInv /\ RelayInv /\ MeetInv /\ AgentInv
      BY DEF RestInv, SystemInv, OrderInv, CoreInv, ComponentInv
    <3>1. agentOf[C] # 0 /\ lpc[agentOf[C]] = "receive"
      BY <2>2, RelayedRests
    <3>2. /\ ws = "up" /\ agentOf[C] = session /\ mpc # "confirm" /\ taken = Len(sent[C])
      BY <3>1, LinkRests DEF Held
    <3>3. E!AnswerInv(C) /\ E!EndOK(C)
      BY <3>0, OneConnection DEF AgentInv, E!AnswersInv, E!EndInv
    <3>4. writer[C] # "none"
      BY <3>3 DEF E!EndOK
    <3>5. born[C] = session
      BY <3>2, <3>3, <3>4 DEF E!AnswerInv, RestInv, SystemInv, BornInv
    <3>6. ~ E!SendRaises(C)
      BY <3>2, <3>5 DEF E!SendRaises
    <3>7. erpc[C] = "done"
      <4>1. erpc[C] # "none"
        BY <3>2, <3>3, <3>4, <3>6 DEF E!EndOK
      <4> QED BY <4>1 DEF AtRest, AgentReaderRests
    <3>8. remote[C] = "ended"
      BY <3>2, <3>3, <3>6, <3>7 DEF E!EndOK, RestInv, ResetInv
    <3> QED BY <2>2, <3>1, <3>8 DEF RestInv, SystemInv, OrderInv, RequestInv, AnsweredInv
  <2> QED BY <2>1, <2>2
<1> QED BY <1>1, RestHolds, PTL

\* A chunk that entered comes out at the other end, unless an end is gone: when
\* nothing can happen any more, nothing is left in a buffer or a channel between,
\* but what is for a target that does not read.
THEOREM ChunksArriveHolds == Spec => []ChunksArrive
<1>1. RestInv => ChunksArrive
  <2> SUFFICES ASSUME RestInv, apc = "pump", writer[C] = "open", AtRest
               PROVE  (Held \/ Len(wrote) = typed) /\ Len(shown) = reads[C]
    <3>1. RestInv => typed \in Nat /\ reads[C] \in Nat
      BY OneConnection, SystemOK DEF RestInv, SystemInv, OrderInv, CoreInv, ComponentInv, A!TypeOK,
         AgentInv, E!EdgeInv, E!TypeOK
    <3> QED BY <3>1 DEF ChunksArrive
  <2>0. /\ CoreInv /\ RelayInv /\ MeetInv /\ AgentInv /\ MessagesInv
        /\ ClientInv /\ CountInv /\ WriteInv /\ ShowInv
    BY DEF RestInv, SystemInv, OrderInv, CoreInv, ComponentInv
  <2>1. /\ agentOf[C] \in agentUp /\ (Held \/ toAgent = <<>>) /\ agentOf[C] # 0
        /\ ws = "up" /\ born[C] = session /\ taken = Len(sent[C])
        /\ remote[C] # "ended"
    BY OpenRests
  <2>2. aws = "up" /\ C \notin wsClosed /\ toClient = <<>> /\ C \in clientUp
    BY <2>0 DEF AtRest, ClientRests, MeetInv
  <2>3. hpc[C] = "receive" /\ fromClient = <<>>
    <3>1. hpc[C] \notin {"done", "crashed"}
      BY <2>0, <2>2, OneConnection DEF RelayInv, R!WaitInv, R!WaitOK
    <3>2. hpc[C] \notin {"start", "answer"}
      BY <2>0 DEF ClientInv, BeforeAnswer
    <3> QED BY <3>1, <3>2 DEF AtRest, HandlerRests
  <2>4. ASSUME ~ Held PROVE Len(wrote) = typed
    <3>1. PICK m \in Nat, n \in Nat : Underway(m, n)
      BY <2>0 DEF WriteInv
    <3>2. Len(wrote) = m
      BY <2>1, <2>4, <3>1, EmptyEnds DEF Underway
    <3>3. Reaching /\ carried = <<>>
      BY <2>0, <2>1, <2>3 DEF Reaching, MessagesInv
    <3>4. m <= n /\ Block(m, n) = <<>> /\ EndToEnd(Contents(<<>>), n, typed)
      BY <2>3, <3>1, <3>3 DEF Underway, Receiving
    <3>5. m = n /\ n = typed
      BY <3>4, EmptyBlock, EmptyEnds
    <3> QED BY <3>2, <3>5
  <2>5. C \in relayed
    BY <2>0, <2>1, <2>2, <2>3, OneConnection DEF RelayInv, R!SessionInv, R!CauseInv,
       R!NoUncausedTeardown, R!Cause, R!TargetLost
  <2>6. Len(shown) = Len(delivered[C])
    <3>1. PICK k \in Nat : Arriving(k)
      BY <2>0 DEF ShowInv
    <3> QED BY <2>2, <3>1, EmptyEnds DEF Arriving
  <2>7. Len(delivered[C]) = emitted[C]
    <3>1. R!StreamOK(C) /\ rpc[C] # "none"
      BY <2>0, <2>3, OneConnection DEF RelayInv, R!StreamInv, R!SessionInv, R!ProgressInv
    <3>2. rpc[C] = "wait" /\ ~ event[C]
      BY <2>5, <3>1 DEF AtRest, ReaderRests, R!StreamOK
    <3>3. buf[C] = <<>> /\ hand[C] = <<>>
      BY <2>0, <3>1, <3>2, OneConnection DEF RelayInv, R!NoLostWakeup, R!StreamOK
    <3>4. delivered[C] \in Seq(Nat) /\ emitted[C] \in Nat
      BY <2>0, OneConnection, SystemOK DEF RelayInv, R!TypeOK
    <3>5. delivered[C] \o <<>> \o <<>> = delivered[C]
      BY <3>4
    <3>6. delivered[C] = UpTo(emitted[C])
      BY <2>5, <3>1, <3>3, <3>5 DEF R!StreamOK, R!Through, R!UpTo, UpTo
    <3> QED BY <3>4, <3>6, UpToIsSeq
  <2>8. emitted[C] = reads[C]
    BY <2>0, <2>1 DEF CountInv
  <2> QED BY <2>4, <2>6, <2>7, <2>8
<1> QED BY <1>1, RestHolds, PTL

-----------------------------------------------------------------------------
(* The programs come to rest.  Work is what is left to do: every place of a *)
(* task, every message, chunk and table entry weighs more than all that can *)
(* be made of it.                                                           *)

\* A weight that counts where a condition holds.
Where(condition, weight) == IF condition THEN weight ELSE 0

ClientWork ==
  Where(apc = "start", 13) + Where(apc = "answer", 2) + Where(apc = "pump", 1)
  + Where(aws = "up", 1)

HandlerWork(place) ==
  Where(place = "start", 46) + Where(place = "initiate", 24) + Where(place = "answer", 16)
  + Where(place = "start_ok", 15) + Where(place = "forward", 19)
  + Where(place = "receive", 11) + Where(place = "close", 10)
  + Where(place \in {"join", "refused"}, 2) + Where(place = "cancel_join", 1)

ReaderWork(place) ==
  Where(place = "send", 3) + Where(place = "start", 2) + Where(place = "wait", 1)

ConnectionWork ==
  Where(C \in relayed, 2) + Where(event[C], 1) + 2 * Len(buf[C])
  + Where(remote[C] \notin {"ended", "refused"}, 6)

\* What the message loop of an agent still has to do for the connection.
LoopWork(a) ==
  Where(lpc[a] = "close", 9) + Where(lpc[a] = "drop", 1) + Where(C \in pending[a], 9)
CloseWork == IF agentOf[C] = 0 THEN 0 ELSE LoopWork(agentOf[C])

\* The message loops that will see their agents go.
Serving == {a \in 1 .. MaxSessions : a \in registered \/ lpc[a] = "receive"}

RelayWork ==
  HandlerWork(hpc[C]) + ReaderWork(rpc[C]) + ConnectionWork + CloseWork
  + 10 * Cardinality(Serving)

MainWork(place) ==
  Where(place \in {"drain", "connect"}, 8)
  + Where(place \in {"report", "refuse", "confirm"}, 3)
  + Where(place = "receive", 2) + Where(place = "leave", 1)

AgentReaderWork(place) ==
  Where(place = "none", 8) + Where(place = "send", 7) + Where(place = "read", 6)
  + Where(place = "report", 1)

AgentWork == MainWork(mpc) + AgentReaderWork(erpc[C]) + 13 * (MaxSessions - session)

ChannelWork ==
  9 * Len(fromClient) + Len(toClient) + 7 * Len(toAgent) + 4 * (Len(sent[C]) - taken)

Work == ClientWork + RelayWork + AgentWork + ChannelWork

\* Every step of the programs leaves less to do, what the user and the target send
\* adds a bounded amount, and a failure adds nothing.
WorkDone ==
  /\ Progress => Work' < Work
  /\ ClientTypes => Work' <= Work + 9
  /\ AgentReads => Work' <= Work + 5
  /\ Failure \/ AgentFlushes => Work' <= Work

\* The weights are numbers.
WorkTyped ==
  /\ ClientWork \in Nat /\ ConnectionWork \in Nat /\ CloseWork \in Nat
  /\ RelayWork \in Nat /\ AgentWork \in Nat /\ ChannelWork \in Nat
  /\ IsFiniteSet(Serving) /\ Cardinality(Serving) \in Nat

LEMMA PlaceTypes ==
  ASSUME NEW place
  PROVE  /\ HandlerWork(place) \in Nat /\ ReaderWork(place) \in Nat
         /\ MainWork(place) \in Nat /\ AgentReaderWork(place) \in Nat
<1>1. \A b, n : n \in Nat => Where(b, n) \in Nat
  BY DEF Where
<1> QED BY <1>1 DEF HandlerWork, ReaderWork, MainWork, AgentReaderWork

LEMMA WorkTypes == CoreInv => WorkTyped
<1> SUFFICES ASSUME CoreInv PROVE WorkTyped
  OBVIOUS
<1>0. /\ R!TypeOK /\ E!TypeOK /\ MessagesInv
  BY DEF CoreInv, ComponentInv, RelayInv, AgentInv, E!EdgeInv
<1>w. \A b, n : n \in Nat => Where(b, n) \in Nat
  BY DEF Where
<1>1. ClientWork \in Nat
  BY <1>w DEF ClientWork
<1>2. ConnectionWork \in Nat
  <2>1. Len(buf[C]) \in Nat
    BY <1>0, OneConnection DEF R!TypeOK
  <2> QED BY <1>w, <2>1 DEF ConnectionWork
<1>3. CloseWork \in Nat
  BY <1>w DEF CloseWork, LoopWork
<1>5. AgentWork \in Nat
  <2>1. session \in 0 .. MaxSessions
    BY <1>0 DEF E!TypeOK
  <2> QED BY <2>1, SystemOK, PlaceTypes DEF AgentWork
<1>6. ChannelWork \in Nat
  <2>1. Len(fromClient) \in Nat /\ Len(toClient) \in Nat /\ Len(toAgent) \in Nat
    BY <1>0 DEF MessagesInv
  <2>2. Len(sent[C]) \in Nat /\ taken \in 0 .. Len(sent[C])
    BY <1>0, OneConnection DEF MessagesInv, E!TypeOK
  <2>3. \A p, q, r, s \in Nat : \A t \in 0 .. s : 9 * p + q + 7 * r + 4 * (s - t) \in Nat
    OBVIOUS
  <2> QED BY <2>1, <2>2, <2>3 DEF ChannelWork
<1>7. IsFiniteSet(Serving) /\ Cardinality(Serving) \in Nat
  <2>1. IsFiniteSet(1 .. MaxSessions)
    BY SystemOK, FS_Interval
  <2>2. Serving \in SUBSET (1 .. MaxSessions)
    BY DEF Serving
  <2>3. IsFiniteSet(Serving)
    BY <2>1, <2>2, FS_Subset
  <2> QED BY <2>3, FS_CardinalityType
<1>8. RelayWork \in Nat
  BY <1>2, <1>3, <1>7, PlaceTypes DEF RelayWork
<1> QED BY <1>1, <1>2, <1>3, <1>5, <1>6, <1>7, <1>8 DEF WorkTyped

LEMMA WorkTypesNext == CoreInv' => WorkTyped'
<1> QED BY WorkTypes, PTL

LEMMA WorkIsNat == CoreInv => Work \in Nat
<1> SUFFICES ASSUME CoreInv PROVE Work \in Nat
  OBVIOUS
<1> QED BY WorkTypes DEF Work, WorkTyped

\* What leaves the message loops alone leaves their work as it is.
LEMMA LoopsSame ==
  ASSUME registered' = registered, lpc' = lpc, pending' = pending, agentOf' = agentOf
  PROVE  CloseWork' = CloseWork /\ Cardinality(Serving)' = Cardinality(Serving)
<1>1. Serving' = Serving
  BY DEF Serving
<1> QED BY <1>1 DEF CloseWork, LoopWork

\* A connection that is dropped has no more work, even if its reader is woken.
LEMMA DropLess ==
  ASSUME CoreInv, R!Drop(C), buf' = buf, remote' = remote
  PROVE  ConnectionWork' <= ConnectionWork
<1>1. event \in [{C} -> BOOLEAN] /\ Len(buf[C]) \in Nat
  BY OneConnection DEF CoreInv, ComponentInv, RelayInv, R!TypeOK
<1>2. C \notin relayed' /\ (event'[C] <=> event[C] \/ C \in relayed)
  BY <1>1, OneConnection DEF R!Drop
<1>3. CASE C \in relayed
  BY <1>1, <1>2, <1>3 DEF ConnectionWork, Where
<1>4. CASE C \notin relayed
  BY <1>1, <1>2, <1>4 DEF ConnectionWork, Where
<1> QED BY <1>3, <1>4

\* What the reader takes from the buffer is more work there than in its hand.
LEMMA TakeLess ==
  ASSUME CoreInv, buf[C] # <<>>, R!Take(C)
  PROVE  rpc'[C] = "send" /\ Len(buf'[C]) \in Nat /\ Len(buf'[C]) <= Len(buf[C]) - 1
<1>0. /\ buf \in [{C} -> Seq(Nat)] /\ hand \in [{C} -> Seq(Nat)] /\ rpc \in [{C} -> R!ReaderPC]
  BY OneConnection DEF CoreInv, ComponentInv, RelayInv, R!TypeOK
<1>1. PICK n : /\ n = IF Len(buf[C]) < ReadSize THEN Len(buf[C]) ELSE ReadSize
               /\ buf' = [buf EXCEPT ![C] = SubSeq(buf[C], n + 1, Len(buf[C]))]
               /\ rpc' = [rpc EXCEPT ![C] = "send"]
  BY DEF R!Take, R!Goto
<1>2. PICK s \in Seq(Nat) : s = buf[C]
  BY <1>0, OneConnection
<1>3. Len(s) \in Nat \ {0}
  BY <1>2
<1>4. n \in 1 .. Len(s)
  BY <1>1, <1>2, <1>3, SystemOK
<1>5. buf'[C] = SubSeq(s, n + 1, Len(s)) /\ rpc'[C] = "send"
  BY <1>0, <1>1, <1>2, OneConnection
<1>6. Len(SubSeq(s, n + 1, Len(s))) = Len(s) - n
  BY <1>3, <1>4
<1> QED BY <1>2, <1>3, <1>4, <1>5, <1>6

\* The weights of the places.
LEMMA HandlerWeights ==
  /\ HandlerWork("start") = 46 /\ HandlerWork("initiate") = 24 /\ HandlerWork("answer") = 16
  /\ HandlerWork("start_ok") = 15 /\ HandlerWork("forward") = 19
  /\ HandlerWork("receive") = 11 /\ HandlerWork("close") = 10 /\ HandlerWork("join") = 2
  /\ HandlerWork("refused") = 2 /\ HandlerWork("cancel_join") = 1
  /\ HandlerWork("done") = 0 /\ HandlerWork("crashed") = 0
BY DEF HandlerWork, Where

LEMMA OtherWeights ==
  /\ ReaderWork("send") = 3 /\ ReaderWork("start") = 2 /\ ReaderWork("wait") = 1
  /\ ReaderWork("none") = 0 /\ ReaderWork("done") = 0
  /\ MainWork("drain") = 8 /\ MainWork("connect") = 8 /\ MainWork("report") = 3
  /\ MainWork("refuse") = 3 /\ MainWork("confirm") = 3 /\ MainWork("receive") = 2
  /\ MainWork("leave") = 1 /\ MainWork("down") = 0
  /\ AgentReaderWork("none") = 8 /\ AgentReaderWork("send") = 7 /\ AgentReaderWork("read") = 6
  /\ AgentReaderWork("report") = 1 /\ AgentReaderWork("done") = 0
BY DEF ReaderWork, MainWork, AgentReaderWork, Where

LEMMA RelayShape ==
  ASSUME CoreInv
  PROVE  /\ hpc \in [{C} -> R!HandlerPC] /\ rpc \in [{C} -> R!ReaderPC]
         /\ \A place : R!Goto(hpc, C, place)[C] = place /\ R!Goto(rpc, C, place)[C] = place
         /\ agentOf[C] \in 0 .. MaxSessions
         /\ lpc \in [1 .. MaxSessions -> R!LoopPC] /\ cur \in [1 .. MaxSessions -> {C, 0}]
         /\ pending \in [1 .. MaxSessions -> SUBSET {C}]
         /\ \A a \in 1 .. MaxSessions : lpc[a] \in {"close", "drop"} => cur[a] = C
<1>1. R!TypeOK
  BY DEF CoreInv, ComponentInv, RelayInv
<1>2. /\ hpc \in [{C} -> R!HandlerPC] /\ rpc \in [{C} -> R!ReaderPC]
      /\ lpc \in [1 .. MaxSessions -> R!LoopPC]
      /\ pending \in [1 .. MaxSessions -> SUBSET {C}]
  BY <1>1 DEF R!TypeOK
<1>3. \A place : R!Goto(hpc, C, place)[C] = place /\ R!Goto(rpc, C, place)[C] = place
  BY <1>2 DEF R!Goto
<1>4. agentOf[C] \in 0 .. MaxSessions
  BY <1>1, OneConnection, SystemOK DEF R!TypeOK
<1>5. cur \in [1 .. MaxSessions -> {C, 0}]
  BY <1>1 DEF R!TypeOK
<1>6. \A a \in 1 .. MaxSessions : lpc[a] \in {"close", "drop"} => cur[a] = C
  BY <1>1 DEF R!TypeOK
<1> QED BY <1>2, <1>3, <1>4, <1>5, <1>6

\* What a step leaves alone that only moves the handler, and the connection.
HandlerAlone == UNCHANGED <<registered, lpc, pending, agentOf, rpc>>
ConnectionAlone == UNCHANGED <<relayed, event, buf, remote>>

\* A handler that moves and leaves everything else but its client's socket alone.
LEMMA HandlerOnly ==
  ASSUME CoreInv, CoreInv', HandlerAlone, ConnectionWork' <= ConnectionWork,
         NEW k \in Int, HandlerWork(hpc'[C]) = HandlerWork(hpc[C]) + k
  PROVE  RelayWork' <= RelayWork + k
<1>1. HandlerWork(hpc[C]) \in Nat
  BY PlaceTypes
<1>2. ReaderWork(rpc'[C]) = ReaderWork(rpc[C]) /\ ReaderWork(rpc[C]) \in Nat
  BY PlaceTypes DEF HandlerAlone
<1>3. /\ ConnectionWork \in Nat /\ ConnectionWork' \in Nat
      /\ CloseWork \in Nat /\ Cardinality(Serving) \in Nat
  BY WorkTypes, WorkTypesNext DEF WorkTyped
<1>4. CloseWork' = CloseWork /\ Cardinality(Serving)' = Cardinality(Serving)
  BY LoopsSame DEF HandlerAlone
<1> QED BY <1>1, <1>2, <1>3, <1>4 DEF RelayWork

LEMMA HandlerSpends ==
  ASSUME CoreInv, CoreInv'
  PROVE  /\ R!RejectStart(C) => RelayWork' <= RelayWork - 46
         /\ R!InitiateSent(C) => RelayWork' <= RelayWork - 8
         /\ R!InitiateRaises(C) \/ R!Answered(C) \/ R!StartOKRaises(C) \/ R!ForwardRaises(C)
              => RelayWork' <= RelayWork - 1
         /\ R!Refused(C) => RelayWork' <= RelayWork - 2
         /\ R!ReceiveData(C) => RelayWork' <= RelayWork + 8
         /\ R!Forwarded(C) => RelayWork' <= RelayWork - 8
         /\ R!Disconnect(C) \/ R!JoinTimeout(C) \/ R!Joined(C) => RelayWork' <= RelayWork - 1
         /\ R!HandlerClose(C) => RelayWork' <= RelayWork - 8
<1>0. RelayWork \in Int /\ RelayWork' \in Int
  BY WorkTypes, WorkTypesNext DEF WorkTyped
<1>s. ASSUME ConnectionAlone PROVE ConnectionWork' <= ConnectionWork
  <2>1. ConnectionWork' = ConnectionWork
    BY <1>s DEF ConnectionWork, ConnectionAlone
  <2> QED BY <2>1, WorkTypes DEF WorkTyped
<1>1. ASSUME R!RejectStart(C) PROVE RelayWork' <= RelayWork - 46
  <2>1. HandlerAlone /\ ConnectionAlone /\ hpc[C] = "start" /\ hpc'[C] = "done"
    BY <1>1, RelayShape DEF R!RejectStart, HandlerAlone, ConnectionAlone, R!loopVars, R!tableVars, R!readerVars, R!remoteVars
  <2>2. HandlerWork(hpc'[C]) = HandlerWork(hpc[C]) + (-46)
    BY <2>1, HandlerWeights
  <2>3. RelayWork' <= RelayWork + (-46)
    BY <2>1, <2>2, <1>s, HandlerOnly
  <2> QED BY <2>3, <1>0
<1>2. ASSUME R!InitiateSent(C) PROVE RelayWork' <= RelayWork - 8
  <2>1. HandlerAlone /\ hpc[C] = "initiate" /\ hpc'[C] = "answer" /\ UNCHANGED <<relayed, event, buf>>
    BY <1>2, RelayShape DEF R!InitiateSent, HandlerAlone, ConnectionAlone, R!loopVars, R!tableVars, R!readerVars
  <2>2. remote[C] = "none" /\ remote'[C] \in {"none", "asked"}
    <3>1. remote[C] = "none" /\ remote \in [{C} -> R!RemoteState]
      BY <2>1, OneConnection DEF CoreInv, ComponentInv, RelayInv, R!SessionInv, R!ProgressInv,
         R!TypeOK
    <3> QED BY <1>2, <3>1, OneConnection DEF R!InitiateSent
  <2>3. ConnectionWork' = ConnectionWork
    BY <2>1, <2>2 DEF ConnectionWork
  <2>4. ConnectionWork' <= ConnectionWork
    BY <2>3, WorkTypes DEF WorkTyped
  <2>5. HandlerWork(hpc'[C]) = HandlerWork(hpc[C]) + (-8)
    BY <2>1, HandlerWeights
  <2>6. RelayWork' <= RelayWork + (-8)
    BY <2>1, <2>4, <2>5, HandlerOnly
  <2> QED BY <2>6, <1>0
<1>3. ASSUME R!InitiateRaises(C) \/ R!Answered(C) \/ R!StartOKRaises(C) \/ R!ForwardRaises(C)
      PROVE  RelayWork' <= RelayWork - 1
  <2>1. HandlerAlone /\ ConnectionAlone
    BY <1>3 DEF R!InitiateRaises, R!Answered, R!StartOKRaises, R!ForwardRaises, HandlerAlone, ConnectionAlone, R!loopVars,
       R!tableVars, R!readerVars, R!remoteVars
  <2>2. \/ hpc[C] = "initiate" /\ hpc'[C] = "crashed"
        \/ hpc[C] = "answer" /\ hpc'[C] \in {"start_ok", "refused"}
        \/ hpc[C] = "start_ok" /\ hpc'[C] = "crashed"
        \/ hpc[C] = "forward" /\ hpc'[C] = "crashed"
    BY <1>3, RelayShape DEF R!InitiateRaises, R!Answered, R!StartOKRaises, R!ForwardRaises,
       R!Crash
  <2>3. PICK k \in Int : k <= -1 /\ HandlerWork(hpc'[C]) = HandlerWork(hpc[C]) + k
    <3>1. \E k \in {-24, -1, -14, -15, -19} : HandlerWork(hpc'[C]) = HandlerWork(hpc[C]) + k
      BY <2>2, HandlerWeights
    <3> QED BY <3>1
  <2>4. RelayWork' <= RelayWork + k
    BY <2>1, <2>3, <1>s, HandlerOnly
  <2> QED BY <2>3, <2>4, <1>0
<1>4. ASSUME R!Refused(C) PROVE RelayWork' <= RelayWork - 2
  <2>1. HandlerAlone /\ ConnectionAlone /\ hpc[C] = "refused" /\ hpc'[C] = "crashed"
    BY <1>4, RelayShape DEF R!Refused, R!Crash, HandlerAlone, ConnectionAlone, R!loopVars, R!tableVars, R!readerVars,
       R!remoteVars
  <2>2. HandlerWork(hpc'[C]) = HandlerWork(hpc[C]) + (-2)
    BY <2>1, HandlerWeights
  <2>3. RelayWork' <= RelayWork + (-2)
    BY <2>1, <2>2, <1>s, HandlerOnly
  <2> QED BY <2>3, <1>0
<1>5. ASSUME R!ReceiveData(C) PROVE RelayWork' <= RelayWork + 8
  <2>1. HandlerAlone /\ ConnectionAlone /\ hpc[C] = "receive" /\ hpc'[C] = "forward"
    BY <1>5, RelayShape DEF R!ReceiveData, HandlerAlone, ConnectionAlone, R!loopVars, R!tableVars, R!readerVars, R!remoteVars
  <2>2. HandlerWork(hpc'[C]) = HandlerWork(hpc[C]) + 8
    BY <2>1, HandlerWeights
  <2> QED BY <2>1, <2>2, <1>s, HandlerOnly
<1>6. ASSUME R!Forwarded(C) PROVE RelayWork' <= RelayWork - 8
  <2>1. HandlerAlone /\ ConnectionAlone /\ hpc[C] = "forward" /\ hpc'[C] = "receive"
    BY <1>6, RelayShape DEF R!Forwarded, HandlerAlone, ConnectionAlone, R!loopVars, R!tableVars, R!readerVars, R!remoteVars
  <2>2. HandlerWork(hpc'[C]) = HandlerWork(hpc[C]) + (-8)
    BY <2>1, HandlerWeights
  <2>3. RelayWork' <= RelayWork + (-8)
    BY <2>1, <2>2, <1>s, HandlerOnly
  <2> QED BY <2>3, <1>0
<1>7. ASSUME R!Disconnect(C) PROVE RelayWork' <= RelayWork - 1
  <2>1. HandlerAlone /\ hpc[C] = "receive" /\ hpc'[C] = "close"
    BY <1>7, RelayShape DEF R!Disconnect, HandlerAlone, ConnectionAlone, R!loopVars, R!readerVars
  <2>2. ConnectionWork' <= ConnectionWork
    BY <1>7, DropLess DEF R!Disconnect, R!remoteVars
  <2>3. HandlerWork(hpc'[C]) = HandlerWork(hpc[C]) + (-1)
    BY <2>1, HandlerWeights
  <2>4. RelayWork' <= RelayWork + (-1)
    BY <2>1, <2>2, <2>3, HandlerOnly
  <2> QED BY <2>4, <1>0
<1>8. ASSUME R!JoinTimeout(C) \/ R!Joined(C) PROVE RelayWork' <= RelayWork - 1
  <2>1. HandlerAlone /\ ConnectionAlone
    BY <1>8 DEF R!JoinTimeout, R!Joined, HandlerAlone, ConnectionAlone, R!loopVars, R!tableVars, R!readerVars, R!remoteVars
  <2>2. \/ hpc[C] = "join" /\ hpc'[C] \in {"cancel_join", "done"}
        \/ hpc[C] = "cancel_join" /\ hpc'[C] = "done"
    BY <1>8, RelayShape DEF R!JoinTimeout, R!Joined
  <2>3. PICK k \in Int : k <= -1 /\ HandlerWork(hpc'[C]) = HandlerWork(hpc[C]) + k
    <3>1. \E k \in {-1, -2} : HandlerWork(hpc'[C]) = HandlerWork(hpc[C]) + k
      BY <2>2, HandlerWeights
    <3> QED BY <3>1
  <2>4. RelayWork' <= RelayWork + k
    BY <2>1, <2>3, <1>s, HandlerOnly
  <2> QED BY <2>3, <2>4, <1>0
<1>9. ASSUME R!HandlerClose(C) PROVE RelayWork' <= RelayWork - 8
  <2>1. HandlerAlone /\ hpc[C] = "close" /\ hpc'[C] = "join"
    BY <1>9, RelayShape DEF R!HandlerClose, HandlerAlone, ConnectionAlone, R!loopVars, R!readerVars
  <2>2. ConnectionWork' <= ConnectionWork
    BY <1>9, DropLess DEF R!HandlerClose
  <2>3. HandlerWork(hpc'[C]) = HandlerWork(hpc[C]) + (-8)
    BY <2>1, HandlerWeights
  <2>4. RelayWork' <= RelayWork + (-8)
    BY <2>1, <2>2, <2>3, HandlerOnly
  <2> QED BY <2>4, <1>0
<1>10. ASSUME R!Disconnect(C) \/ R!JoinTimeout(C) \/ R!Joined(C)
       PROVE  RelayWork' <= RelayWork - 1
  BY <1>7, <1>8, <1>10
<1> QED BY <1>1, <1>2, <1>3, <1>4, <1>5, <1>6, <1>9, <1>10

\* A reader that moves and takes from its buffer or drops its connection.
LEMMA ReaderOnly ==
  ASSUME CoreInv, CoreInv', UNCHANGED <<registered, lpc, pending, agentOf, hpc>>,
         NEW k \in Int,
         ReaderWork(rpc'[C]) + ConnectionWork' <= ReaderWork(rpc[C]) + ConnectionWork + k
  PROVE  RelayWork' <= RelayWork + k
<1>1. HandlerWork(hpc'[C]) = HandlerWork(hpc[C]) /\ HandlerWork(hpc[C]) \in Nat
  BY PlaceTypes
<1>2. ReaderWork(rpc'[C]) \in Nat /\ ReaderWork(rpc[C]) \in Nat
  BY PlaceTypes
<1>3. /\ ConnectionWork \in Nat /\ ConnectionWork' \in Nat
      /\ CloseWork \in Nat /\ Cardinality(Serving) \in Nat
  BY WorkTypes, WorkTypesNext DEF WorkTyped
<1>4. CloseWork' = CloseWork /\ Cardinality(Serving)' = Cardinality(Serving)
  BY LoopsSame
<1> QED BY <1>1, <1>2, <1>3, <1>4 DEF RelayWork

LEMMA BufferSum ==
  \A p, q, e, f, d, l, m, n \in Nat :
    l <= m - n /\ f <= e - d => p + f + 2 * l + q <= p + e + 2 * m + q - 2 * n - d
OBVIOUS

LEMMA BufferLess ==
  ASSUME CoreInv, NEW n \in Nat, Len(buf'[C]) \in Nat, Len(buf'[C]) <= Len(buf[C]) - n,
         relayed' = relayed, remote' = remote, event'[C] => event[C]
  PROVE  /\ ConnectionWork' <= ConnectionWork - 2 * n
         /\ event[C] /\ ~ event'[C] => ConnectionWork' <= ConnectionWork - 2 * n - 1
<1>1. Len(buf[C]) \in Nat
  BY OneConnection DEF CoreInv, ComponentInv, RelayInv, R!TypeOK
<1>2. PICK l, m \in Nat : l = Len(buf'[C]) /\ m = Len(buf[C]) /\ l <= m - n
  BY <1>1
<1>3. PICK p, q \in Nat : /\ p = Where(C \in relayed, 2)
                          /\ q = Where(remote[C] \notin {"ended", "refused"}, 6)
  BY DEF Where
<1>4. PICK e, f \in Nat : e = Where(event[C], 1) /\ f = Where(event'[C], 1)
  BY DEF Where
<1>5. f <= e - 0 /\ (event[C] /\ ~ event'[C] => f <= e - 1)
  BY <1>4 DEF Where
<1>6. ConnectionWork' = p + f + 2 * l + q
  BY <1>2, <1>3, <1>4 DEF ConnectionWork
<1>7. ConnectionWork = p + e + 2 * m + q
  BY <1>2, <1>3, <1>4 DEF ConnectionWork
<1>8. ConnectionWork' <= ConnectionWork - 2 * n
  <2>1. p + f + 2 * l + q <= p + e + 2 * m + q - 2 * n - 0
    BY <1>2, <1>5, BufferSum
  <2> QED BY <1>6, <1>7, <2>1
<1>9. ASSUME event[C] /\ ~ event'[C] PROVE ConnectionWork' <= ConnectionWork - 2 * n - 1
  <2>1. p + f + 2 * l + q <= p + e + 2 * m + q - 2 * n - 1
    BY <1>2, <1>5, <1>9, BufferSum
  <2> QED BY <1>6, <1>7, <2>1
<1> QED BY <1>8, <1>9

\* Where a reader gets to from the places in which it looks at its buffer.
LEMMA LookSpends ==
  ASSUME CoreInv, R!Stop(C) \/ R!Park(C) \/ (buf[C] # <<>> /\ R!Take(C))
  PROVE  \E n \in Nat : /\ Len(buf'[C]) \in Nat /\ Len(buf'[C]) <= Len(buf[C]) - n
                        /\ ReaderWork(rpc'[C]) <= 1 + 2 * n
<1>0. Len(buf[C]) \in Nat
  BY OneConnection DEF CoreInv, ComponentInv, RelayInv, R!TypeOK
<1>1. CASE R!Stop(C) \/ R!Park(C)
  <2>1. buf'[C] = buf[C] /\ rpc'[C] \in {"done", "wait"}
    BY <1>1, RelayShape DEF R!Stop, R!Park
  <2>2. ReaderWork(rpc'[C]) <= 1 + 2 * 0 /\ Len(buf'[C]) <= Len(buf[C]) - 0
    BY <1>0, <2>1, OtherWeights
  <2> QED BY <1>0, <2>1, <2>2
<1>2. CASE buf[C] # <<>> /\ R!Take(C)
  <2>1. rpc'[C] = "send" /\ Len(buf'[C]) \in Nat /\ Len(buf'[C]) <= Len(buf[C]) - 1
    BY <1>2, TakeLess
  <2>2. ReaderWork(rpc'[C]) <= 1 + 2 * 1
    BY <2>1, OtherWeights
  <2> QED BY <2>1, <2>2
<1> QED BY <1>1, <1>2

LEMMA ReaderSpends ==
  ASSUME CoreInv, CoreInv'
  PROVE  /\ R!ReaderStart(C) => RelayWork' <= RelayWork - 1
         /\ R!ReaderWake(C) => RelayWork' <= RelayWork - 1
         /\ R!ReaderSent(C) => RelayWork' <= RelayWork - 2
         /\ R!ReaderSendRaises(C) => RelayWork' <= RelayWork - 1
         /\ R!ReaderCancelled(C) => RelayWork' <= RelayWork - 1
<1>0. /\ RelayWork \in Int /\ ConnectionWork \in Nat /\ ConnectionWork' \in Nat
      /\ ReaderWork(rpc'[C]) \in Nat
  BY WorkTypes, WorkTypesNext, PlaceTypes DEF WorkTyped
<1>l. ASSUME R!LoopAgain(C), event' = event, relayed' = relayed, remote' = remote
      PROVE  ReaderWork(rpc'[C]) + ConnectionWork' <= ConnectionWork + 1
  <2>1. PICK n \in Nat : /\ Len(buf'[C]) \in Nat /\ Len(buf'[C]) <= Len(buf[C]) - n
                         /\ ReaderWork(rpc'[C]) <= 1 + 2 * n
    BY <1>l, LookSpends DEF R!LoopAgain
  <2>2. ConnectionWork' <= ConnectionWork - 2 * n
    BY <1>l, <2>1, BufferLess
  <2> QED BY <1>0, <2>1, <2>2
<1>1. ASSUME R!ReaderStart(C) PROVE RelayWork' <= RelayWork - 1
  <2>1. /\ UNCHANGED <<registered, lpc, pending, agentOf, hpc>> /\ rpc[C] = "start"
        /\ R!LoopAgain(C) /\ event' = event /\ relayed' = relayed /\ remote' = remote
    BY <1>1 DEF R!ReaderStart, R!loopVars, R!tableVars, R!remoteVars
  <2>2. ReaderWork(rpc'[C]) + ConnectionWork' <= ReaderWork(rpc[C]) + ConnectionWork + (-1)
    BY <1>0, <1>l, <2>1, OtherWeights
  <2>3. RelayWork' <= RelayWork + (-1)
    BY <2>1, <2>2, ReaderOnly
  <2> QED BY <1>0, <2>3
<1>2. ASSUME R!ReaderWake(C) PROVE RelayWork' <= RelayWork - 1
  <2>1. /\ UNCHANGED <<registered, lpc, pending, agentOf, hpc>> /\ rpc[C] = "wait"
        /\ relayed' = relayed /\ remote' = remote /\ event[C]
        /\ R!Stop(C) \/ R!Park(C) \/ (buf[C] # <<>> /\ R!Take(C))
    BY <1>2 DEF R!ReaderWake, R!loopVars, R!tableVars, R!remoteVars
  <2>2. ~ event'[C]
    <3>1. event \in [{C} -> BOOLEAN]
      BY DEF CoreInv, ComponentInv, RelayInv, R!TypeOK
    <3> QED BY <1>2, <3>1 DEF R!ReaderWake
  <2>3. PICK n \in Nat : /\ Len(buf'[C]) \in Nat /\ Len(buf'[C]) <= Len(buf[C]) - n
                         /\ ReaderWork(rpc'[C]) <= 1 + 2 * n
    BY <2>1, LookSpends
  <2>4. ConnectionWork' <= ConnectionWork - 2 * n - 1
    BY <2>1, <2>2, <2>3, BufferLess
  <2>6. ReaderWork(rpc'[C]) + ConnectionWork' <= ReaderWork(rpc[C]) + ConnectionWork + (-1)
    BY <1>0, <2>1, <2>3, <2>4, OtherWeights
  <2>7. RelayWork' <= RelayWork + (-1)
    BY <2>1, <2>6, ReaderOnly
  <2> QED BY <1>0, <2>7
<1>3. ASSUME R!ReaderSent(C) PROVE RelayWork' <= RelayWork - 2
  <2>1. /\ UNCHANGED <<registered, lpc, pending, agentOf, hpc>> /\ rpc[C] = "send"
        /\ R!LoopAgain(C) /\ event' = event /\ relayed' = relayed /\ remote' = remote
    BY <1>3 DEF R!ReaderSent, R!loopVars, R!tableVars, R!remoteVars
  <2>2. ReaderWork(rpc'[C]) + ConnectionWork' <= ReaderWork(rpc[C]) + ConnectionWork + (-2)
    BY <1>0, <1>l, <2>1, OtherWeights
  <2>3. RelayWork' <= RelayWork + (-2)
    BY <2>1, <2>2, ReaderOnly
  <2> QED BY <1>0, <2>3
<1>4. ASSUME R!ReaderSendRaises(C) \/ R!ReaderCancelled(C) PROVE RelayWork' <= RelayWork - 1
  <2>1. /\ UNCHANGED <<registered, lpc, pending, agentOf, hpc>>
        /\ R!Stop(C) /\ R!Drop(C) /\ remote' = remote
    BY <1>4 DEF R!ReaderSendRaises, R!ReaderCancelled, R!loopVars, R!remoteVars
  <2>2. rpc[C] \in {"start", "wait", "send"}
    <3>1. R!ProgressInv
      BY DEF CoreInv, ComponentInv, RelayInv, R!SessionInv
    <3>2. hpc[C] = "cancel_join" => rpc[C] # "none"
      BY <3>1, OneConnection DEF R!ProgressInv
    <3> QED BY <1>4, <3>2, RelayShape DEF R!ReaderSendRaises, R!ReaderCancelled, R!ReaderPC
  <2>3. rpc'[C] = "done" /\ buf' = buf
    BY <2>1, RelayShape DEF R!Stop
  <2>4. ConnectionWork' <= ConnectionWork
    BY <2>1, <2>3, DropLess
  <2>5. ReaderWork(rpc'[C]) = 0 /\ ReaderWork(rpc[C]) \in {1, 2, 3}
    BY <2>2, <2>3, OtherWeights
  <2>6. ReaderWork(rpc'[C]) + ConnectionWork' <= ReaderWork(rpc[C]) + ConnectionWork + (-1)
    BY <1>0, <2>4, <2>5
  <2>7. RelayWork' <= RelayWork + (-1)
    BY <2>1, <2>6, ReaderOnly
  <2> QED BY <1>0, <2>7
<1>5. ASSUME R!ReaderSendRaises(C) PROVE RelayWork' <= RelayWork - 1
  BY <1>4, <1>5
<1>6. ASSUME R!ReaderCancelled(C) PROVE RelayWork' <= RelayWork - 1
  BY <1>4, <1>6
<1> QED BY <1>1, <1>2, <1>3, <1>5, <1>6

\* A handler that starts may meet a loop in the middle of its clean-up.
LEMMA AcceptSpends ==
  ASSUME CoreInv, CoreInv', NEW a \in 1 .. MaxSessions, R!StartAccepted(C, a)
  PROVE  RelayWork' <= RelayWork - 1
<1>1. /\ UNCHANGED <<registered, lpc, pending, rpc, event, buf, remote>>
      /\ hpc[C] = "start" /\ hpc'[C] = "initiate"
  BY RelayShape DEF R!StartAccepted, R!loopVars, R!readerVars, R!remoteVars
<1>2. PICK l \in Nat : l = Len(buf[C])
  BY OneConnection DEF CoreInv, ComponentInv, RelayInv, R!TypeOK
<1>3. ConnectionWork' <= ConnectionWork + 2
  <2>1. PICK e, f \in Nat : /\ e = Where(event[C], 1)
                            /\ f = Where(remote[C] \notin {"ended", "refused"}, 6)
    BY DEF Where
  <2>2. PICK p, q \in Nat : /\ p = Where(C \in relayed, 2) /\ q = Where(C \in relayed', 2)
                            /\ q <= p + 2
    BY DEF Where
  <2>3. ConnectionWork = p + e + 2 * l + f
    BY <1>2, <2>1, <2>2 DEF ConnectionWork
  <2>4. ConnectionWork' = q + e + 2 * l + f
    BY <1>1, <1>2, <2>1, <2>2 DEF ConnectionWork
  <2> QED BY <2>2, <2>3, <2>4
<1>4. CloseWork' <= CloseWork + 19
  <2>1. CloseWork' \in 0 .. 19
    <3>1. \A b : (LoopWork(b) \in 0 .. 19)'
      BY DEF LoopWork, Where
    <3> QED BY <3>1 DEF CloseWork
  <2> QED BY <2>1, WorkTypes DEF WorkTyped
<1>5. Cardinality(Serving)' = Cardinality(Serving)
  <2>1. Serving' = Serving
    BY <1>1 DEF Serving
  <2> QED BY <2>1
<1>6. HandlerWork(hpc[C]) = 46 /\ HandlerWork(hpc'[C]) = 24
  BY <1>1, HandlerWeights
<1>7. ReaderWork(rpc'[C]) = ReaderWork(rpc[C]) /\ ReaderWork(rpc[C]) \in Nat
  BY <1>1, PlaceTypes
<1>8. /\ ConnectionWork \in Nat /\ ConnectionWork' \in Nat /\ CloseWork \in Nat
      /\ CloseWork' \in Nat /\ Cardinality(Serving) \in Nat
  BY WorkTypes, WorkTypesNext DEF WorkTyped
<1> QED BY <1>3, <1>4, <1>5, <1>6, <1>7, <1>8 DEF RelayWork

\* A step of a message loop leaves handler and reader alone.
LEMMA LoopOnly ==
  ASSUME CoreInv, CoreInv', hpc' = hpc, rpc' = rpc,
         NEW i \in Int, NEW j \in Int, NEW k \in Int,
         ConnectionWork' <= ConnectionWork + i, CloseWork' <= CloseWork + j,
         Cardinality(Serving') <= Cardinality(Serving) + k
  PROVE  RelayWork' <= RelayWork + i + j + 10 * k
<1>1. HandlerWork(hpc'[C]) = HandlerWork(hpc[C]) /\ HandlerWork(hpc[C]) \in Nat
  BY PlaceTypes
<1>2. ReaderWork(rpc'[C]) = ReaderWork(rpc[C]) /\ ReaderWork(rpc[C]) \in Nat
  BY PlaceTypes
<1>3. /\ ConnectionWork \in Nat /\ ConnectionWork' \in Nat /\ CloseWork \in Nat
      /\ CloseWork' \in Nat /\ Cardinality(Serving) \in Nat /\ Cardinality(Serving') \in Nat
  BY WorkTypes, WorkTypesNext DEF WorkTyped
<1>4. \A h, r, c, d, l, m, s, t \in Nat :
        d <= c + i /\ m <= l + j /\ t <= s + k
          => h + r + d + m + 10 * t <= h + r + c + l + 10 * s + i + j + 10 * k
  OBVIOUS
<1> QED BY <1>1, <1>2, <1>3, <1>4 DEF RelayWork

\* The turns of the loop over the connections to close: what is left is the next.
LEMMA NextCloses ==
  ASSUME CoreInv, NEW a \in 1 .. MaxSessions, NEW todo \in SUBSET {C}, R!CloseNext(a, todo)
  PROVE  /\ Where(lpc'[a] = "close", 9) + Where(lpc'[a] = "drop", 1)
              + Where(C \in pending'[a], 9) = Where(C \in todo, 9)
         /\ lpc'[a] = "receive" => a \in registered'
         /\ \A b \in 1 .. MaxSessions \ {a} : lpc'[b] = lpc[b] /\ pending'[b] = pending[b]
<1>0. /\ lpc \in [1 .. MaxSessions -> R!LoopPC]
      /\ pending \in [1 .. MaxSessions -> SUBSET {C}]
  BY RelayShape
<1>1. CASE todo = {}
  <2>1. /\ lpc' = [lpc EXCEPT ![a] = IF a \in registered' THEN "receive" ELSE "done"]
        /\ pending' = [pending EXCEPT ![a] = {}]
    BY <1>1 DEF R!CloseNext, R!Goto
  <2>2. lpc'[a] = (IF a \in registered' THEN "receive" ELSE "done") /\ pending'[a] = {}
    BY <1>0, <2>1
  <2>3. \A b \in 1 .. MaxSessions \ {a} : lpc'[b] = lpc[b] /\ pending'[b] = pending[b]
    BY <1>0, <2>1
  <2> QED BY <1>1, <2>2, <2>3 DEF Where
<1>2. CASE todo = {C}
  <2>1. /\ lpc' = [lpc EXCEPT ![a] = "close"]
        /\ pending' = [pending EXCEPT ![a] = {}]
    <3>1. \A c \in todo : c = C /\ todo \ {c} = {}
      BY <1>2
    <3>2. todo # {}
      BY <1>2
    <3> QED BY <3>1, <3>2 DEF R!CloseNext, R!Goto
  <2>2. lpc'[a] = "close" /\ pending'[a] = {}
    BY <1>0, <2>1
  <2>3. \A b \in 1 .. MaxSessions \ {a} : lpc'[b] = lpc[b] /\ pending'[b] = pending[b]
    BY <1>0, <2>1
  <2> QED BY <1>2, <2>2, <2>3 DEF Where
<1> QED BY <1>1, <1>2

LEMMA NextWork ==
  ASSUME CoreInv, NEW a \in 1 .. MaxSessions, NEW todo \in SUBSET {C}, R!CloseNext(a, todo),
         agentOf' = agentOf
  PROVE  /\ agentOf[C] = a => CloseWork' = Where(C \in todo, 9)
         /\ agentOf[C] # a => CloseWork' = CloseWork
<1>1. agentOf[C] \in 0 .. MaxSessions
  BY RelayShape
<1>2. CASE agentOf[C] = a
  <2>1. a # 0
    OBVIOUS
  <2>2. CloseWork' = Where(lpc'[a] = "close", 9) + Where(lpc'[a] = "drop", 1)
                       + Where(C \in pending'[a], 9)
    BY <1>2, <2>1 DEF CloseWork, LoopWork
  <2> QED BY <1>2, <2>2, NextCloses
<1>3. CASE agentOf[C] = 0
  BY <1>3 DEF CloseWork
<1>4. CASE agentOf[C] \notin {0, a}
  <2>1. lpc'[agentOf[C]] = lpc[agentOf[C]] /\ pending'[agentOf[C]] = pending[agentOf[C]]
    <3>1. agentOf[C] \in 1 .. MaxSessions \ {a}
      BY <1>1, <1>4
    <3> QED BY <3>1, NextCloses
  <2> QED BY <1>4, <2>1 DEF CloseWork, LoopWork
<1> QED BY <1>2, <1>3, <1>4

\* A loop that closes the connection is the one of its agent.
LEMMA OwnLoop ==
  ASSUME CoreInv, NEW a \in 1 .. MaxSessions, lpc[a] \in {"close", "drop"}
  PROVE  cur[a] = C /\ agentOf[C] = a /\ agentOf[C] # 0
<1>1. cur[a] = C
  BY RelayShape
<1>2. R!CauseInv
  BY DEF CoreInv, ComponentInv, RelayInv, R!SessionInv
<1> QED BY <1>1, <1>2, OneConnection DEF R!CauseInv

LEMMA ServingKept ==
  ASSUME CoreInv, NEW a \in 1 .. MaxSessions, lpc[a] \in {"close", "drop"},
         NEW todo \in SUBSET {C}, R!CloseNext(a, todo), registered' = registered
  PROVE  Cardinality(Serving') <= Cardinality(Serving) + 0
<1>1. Serving' \in SUBSET Serving
  BY NextCloses DEF Serving
<1>2. IsFiniteSet(Serving) /\ Cardinality(Serving) \in Nat
  BY WorkTypes DEF WorkTyped
<1>3. Cardinality(Serving') <= Cardinality(Serving)
  BY <1>1, <1>2, FS_Subset
<1> QED BY <1>2, <1>3

LEMMA LoopCloseSpends ==
  ASSUME CoreInv, CoreInv', NEW a \in 1 .. MaxSessions, R!LoopClose(a)
  PROVE  RelayWork' <= RelayWork - 8
<1>0. /\ RelayWork \in Int /\ RelayWork' \in Int /\ ConnectionWork \in Nat
      /\ CloseWork \in Nat /\ CloseWork' \in Nat /\ Cardinality(Serving) \in Nat
  BY WorkTypes, WorkTypesNext DEF WorkTyped
<1>1. /\ hpc' = hpc /\ rpc' = rpc /\ agentOf' = agentOf /\ buf' = buf /\ remote' = remote
      /\ lpc[a] = "close" /\ registered' = registered
  BY DEF R!LoopClose, R!readerVars
<1>2. cur[a] = C /\ agentOf[C] = a /\ agentOf[C] # 0
  BY <1>1, OwnLoop
<1>3. pending[a] \in SUBSET {C}
  BY RelayShape
<1>4. CloseWork = 9 + Where(C \in pending[a], 9)
  BY <1>1, <1>2 DEF CloseWork, LoopWork, Where
<1>5. CASE cur[a] \in accessClients
  <2>1. lpc' = R!Goto(lpc, a, "drop") /\ UNCHANGED <<pending, relayed, event>>
    BY <1>5 DEF R!LoopClose
  <2>2. lpc'[a] = "drop" /\ \A b \in 1 .. MaxSessions \ {a} : lpc'[b] = lpc[b]
    BY <2>1, RelayShape DEF R!Goto
  <2>3. CloseWork' = 1 + Where(C \in pending[a], 9)
    BY <1>1, <1>2, <2>1, <2>2 DEF CloseWork, LoopWork, Where
  <2>4. CloseWork' <= CloseWork + (-8)
    <3>1. Where(C \in pending[a], 9) \in Nat
      BY DEF Where
    <3> QED BY <1>4, <2>3, <3>1
  <2>5. ConnectionWork' = ConnectionWork
    BY <1>1, <2>1 DEF ConnectionWork
  <2>6. ConnectionWork' <= ConnectionWork + 0
    BY <1>0, <2>5
  <2>7. Serving' = Serving
    BY <1>1, <2>2 DEF Serving
  <2>8. Cardinality(Serving') <= Cardinality(Serving) + 0
    BY <1>0, <2>7
  <2>9. RelayWork' <= RelayWork + 0 + (-8) + 10 * 0
    BY <1>1, <2>4, <2>6, <2>8, LoopOnly
  <2> QED BY <1>0, <2>9
<1>6. CASE cur[a] \notin accessClients
  <2>1. R!Drop(C) /\ R!CloseNext(a, pending[a])
    BY <1>2, <1>6 DEF R!LoopClose
  <2>2. CloseWork' = Where(C \in pending[a], 9)
    BY <1>1, <1>2, <1>3, <2>1, NextWork
  <2>3. CloseWork' <= CloseWork + (-9)
    BY <1>0, <1>4, <2>2
  <2>4. ConnectionWork' <= ConnectionWork + 0
    BY <1>0, <1>1, <2>1, DropLess
  <2>5. Cardinality(Serving') <= Cardinality(Serving) + 0
    BY <1>1, <1>3, <2>1, ServingKept
  <2>6. RelayWork' <= RelayWork + 0 + (-9) + 10 * 0
    BY <1>1, <2>3, <2>4, <2>5, LoopOnly
  <2> QED BY <1>0, <2>6
<1> QED BY <1>5, <1>6

LEMMA LoopDropSpends ==
  ASSUME CoreInv, CoreInv', NEW a \in 1 .. MaxSessions, R!LoopDrop(a)
  PROVE  RelayWork' <= RelayWork - 1
<1>0. /\ RelayWork \in Int /\ RelayWork' \in Int /\ ConnectionWork \in Nat
      /\ CloseWork \in Nat /\ CloseWork' \in Nat
  BY WorkTypes, WorkTypesNext DEF WorkTyped
<1>1. /\ hpc' = hpc /\ rpc' = rpc /\ agentOf' = agentOf /\ buf' = buf /\ remote' = remote
      /\ lpc[a] = "drop" /\ registered' = registered /\ R!CloseNext(a, pending[a])
  BY DEF R!LoopDrop, R!readerVars, R!remoteVars
<1>2. cur[a] = C /\ agentOf[C] = a /\ agentOf[C] # 0
  BY <1>1, OwnLoop
<1>3. pending[a] \in SUBSET {C} /\ R!Drop(C)
  BY <1>2, RelayShape DEF R!LoopDrop
<1>4. CloseWork = 1 + Where(C \in pending[a], 9)
  BY <1>1, <1>2 DEF CloseWork, LoopWork, Where
<1>5. CloseWork' = Where(C \in pending[a], 9)
  BY <1>1, <1>2, <1>3, NextWork
<1>6. CloseWork' <= CloseWork + (-1)
  BY <1>0, <1>4, <1>5
<1>7. ConnectionWork' <= ConnectionWork + 0
  BY <1>0, <1>1, <1>3, DropLess
<1>8. Cardinality(Serving') <= Cardinality(Serving) + 0
  BY <1>1, <1>3, ServingKept
<1>9. RelayWork' <= RelayWork + 0 + (-1) + 10 * 0
  BY <1>1, <1>6, <1>7, <1>8, LoopOnly
<1> QED BY <1>0, <1>9

LEMMA DisconnectSpends ==
  ASSUME CoreInv, CoreInv', NEW a \in 1 .. MaxSessions, R!RecvDisconnect(a)
  PROVE  RelayWork' <= RelayWork - 1
<1> DEFINE todo == {c \in relayed : agentOf[c] = a}
<1>0. /\ RelayWork \in Int /\ RelayWork' \in Int /\ ConnectionWork \in Nat
      /\ CloseWork \in Nat /\ CloseWork' \in Nat
      /\ IsFiniteSet(Serving) /\ Cardinality(Serving) \in Nat
  BY WorkTypes, WorkTypesNext DEF WorkTyped
<1>1. /\ hpc' = hpc /\ rpc' = rpc /\ agentOf' = agentOf /\ buf' = buf /\ remote' = remote
      /\ relayed' = relayed /\ event' = event /\ lpc[a] = "receive"
      /\ registered' = registered \ {a} /\ R!CloseNext(a, todo)
  BY DEF R!RecvDisconnect, R!readerVars, R!remoteVars, R!tableVars
<1>2. todo \in SUBSET {C}
  BY DEF CoreInv, ComponentInv, RelayInv, R!TypeOK
<1> HIDE DEF todo
<1>3. CloseWork' <= CloseWork + 9
  <2>1. Where(C \in todo, 9) \in {0, 9}
    BY DEF Where
  <2>2. CASE agentOf[C] = a
    <3>1. CloseWork' = Where(C \in todo, 9)
      BY <1>1, <1>2, <2>2, NextWork
    <3> QED BY <1>0, <2>1, <3>1
  <2>3. CASE agentOf[C] # a
    <3>1. CloseWork' = CloseWork
      BY <1>1, <1>2, <2>3, NextWork
    <3> QED BY <1>0, <3>1
  <2> QED BY <2>2, <2>3
<1>4. ConnectionWork' <= ConnectionWork + 0
  <2>1. ConnectionWork' = ConnectionWork
    BY <1>1 DEF ConnectionWork
  <2> QED BY <1>0, <2>1
<1>5. Cardinality(Serving') <= Cardinality(Serving) + (-1)
  <2>1. a \in Serving
    BY <1>1 DEF Serving
  <2>2. Serving' \in SUBSET (Serving \ {a})
    BY <1>1, <1>2, NextCloses DEF Serving
  <2>3. IsFiniteSet(Serving \ {a}) /\ Cardinality(Serving \ {a}) = Cardinality(Serving) - 1
    BY <1>0, <2>1, FS_RemoveElement
  <2>4. Cardinality(Serving') <= Cardinality(Serving \ {a})
    BY <2>2, <2>3, FS_Subset
  <2> QED BY <1>0, <2>3, <2>4
<1>6. RelayWork' <= RelayWork + 0 + 9 + 10 * (-1)
  BY <1>1, <1>3, <1>4, <1>5, LoopOnly
<1> QED BY <1>0, <1>6

\* The handler that has told its client starts the reader.
LEMMA ConfirmSpends ==
  ASSUME CoreInv, CoreInv', R!StartOK(C)
  PROVE  RelayWork' <= RelayWork - 2
<1>1. /\ UNCHANGED <<registered, lpc, pending, agentOf, relayed, event, buf, remote>>
      /\ hpc[C] = "start_ok" /\ hpc'[C] = "receive" /\ rpc'[C] = "start"
  BY RelayShape DEF R!StartOK, R!loopVars, R!remoteVars
<1>2. rpc[C] = "none"
  BY <1>1, OneConnection DEF CoreInv, ComponentInv, RelayInv, R!SessionInv, R!ProgressInv
<1>3. ConnectionWork' = ConnectionWork
  BY <1>1 DEF ConnectionWork
<1>4. CloseWork' = CloseWork /\ Cardinality(Serving)' = Cardinality(Serving)
  BY <1>1, LoopsSame
<1>5. HandlerWork(hpc[C]) = 15 /\ HandlerWork(hpc'[C]) = 11
  BY <1>1, HandlerWeights
<1>6. ReaderWork(rpc[C]) = 0 /\ ReaderWork(rpc'[C]) = 2
  BY <1>1, <1>2, OtherWeights
<1>7. ConnectionWork \in Nat /\ CloseWork \in Nat /\ Cardinality(Serving) \in Nat
  BY WorkTypes DEF WorkTyped
<1> QED BY <1>3, <1>4, <1>5, <1>6, <1>7 DEF RelayWork

\* The loop that takes a message from the agent about the connection.
LEMMA TakesSpend ==
  ASSUME CoreInv, CoreInv', NEW a \in 1 .. MaxSessions
  PROVE  /\ R!RecvAnswer(a, C) => RelayWork' <= RelayWork
         /\ R!RecvData(a, C) => RelayWork' <= RelayWork + 3
         /\ R!RecvReset(a, C) => RelayWork' <= RelayWork + 3
<1>0. /\ RelayWork \in Int /\ RelayWork' \in Int /\ ConnectionWork \in Nat
      /\ ConnectionWork' \in Nat /\ CloseWork \in Nat /\ CloseWork' \in Nat
      /\ Cardinality(Serving) \in Nat
  BY WorkTypes, WorkTypesNext DEF WorkTyped
<1>t. /\ remote \in [{C} -> R!RemoteState] /\ event \in [{C} -> BOOLEAN]
      /\ buf \in [{C} -> Seq(Nat)] /\ emitted[C] \in Nat
  BY OneConnection DEF CoreInv, ComponentInv, RelayInv, R!TypeOK
<1>b. PICK m \in Nat : m = Len(buf[C])
  BY <1>t
<1>r. PICK p, e \in Nat : p = Where(C \in relayed, 2) /\ e = Where(event[C], 1)
  BY DEF Where
<1>w. ConnectionWork = p + e + 2 * m + Where(remote[C] \notin {"ended", "refused"}, 6)
  BY <1>b, <1>r DEF ConnectionWork
<1>1. ASSUME R!RecvAnswer(a, C) PROVE RelayWork' <= RelayWork
  <2>1. /\ hpc' = hpc /\ rpc' = rpc /\ buf' = buf /\ relayed' = relayed /\ event' = event
        /\ UNCHANGED <<registered, lpc, pending, agentOf>> /\ remote[C] = "asked"
    BY <1>1 DEF R!RecvAnswer, R!loopVars, R!readerVars
  <2>2. Where(remote'[C] \notin {"ended", "refused"}, 6) \in {0, 6}
    BY DEF Where
  <2>3. ConnectionWork' = p + e + 2 * m + Where(remote'[C] \notin {"ended", "refused"}, 6)
    BY <1>b, <1>r, <2>1 DEF ConnectionWork
  <2>4. ConnectionWork' <= ConnectionWork + 0
    <3>1. Where(remote[C] \notin {"ended", "refused"}, 6) = 6
      BY <2>1 DEF Where
    <3> QED BY <1>w, <2>2, <2>3, <3>1
  <2>5. CloseWork' = CloseWork /\ Cardinality(Serving)' = Cardinality(Serving)
    BY <2>1, LoopsSame
  <2>6. RelayWork' <= RelayWork + 0 + 0 + 10 * 0
    BY <1>0, <2>1, <2>4, <2>5, LoopOnly
  <2> QED BY <1>0, <2>6
<1>2. ASSUME R!RecvData(a, C) PROVE RelayWork' <= RelayWork + 3
  <2>1. /\ hpc' = hpc /\ rpc' = rpc /\ relayed' = relayed /\ remote' = remote
        /\ UNCHANGED <<registered, lpc, pending, agentOf>>
    BY <1>2 DEF R!RecvData, R!loopVars, R!readerVars, R!tableVars
  <2>2. PICK n \in Nat : n = Len(buf'[C]) /\ n <= m + 1
    <3>1. CASE C \in relayed
      <4>1. buf'[C] = Append(buf[C], emitted[C] + 1)
        BY <1>2, <1>t, <3>1 DEF R!RecvData
      <4>2. Len(buf'[C]) = m + 1
        BY <1>t, <1>b, <4>1
      <4> QED BY <4>2
    <3>2. CASE C \notin relayed
      <4>1. buf' = buf
        BY <1>2, <3>2 DEF R!RecvData
      <4> QED BY <1>b, <4>1
    <3> QED BY <3>1, <3>2
  <2>3. PICK f \in Nat : f = Where(event'[C], 1) /\ f <= e + 1
    BY <1>r DEF Where
  <2>4. PICK q \in Nat : q = Where(remote[C] \notin {"ended", "refused"}, 6)
    BY DEF Where
  <2>5. ConnectionWork' = p + f + 2 * n + q
    BY <1>r, <2>1, <2>2, <2>3, <2>4 DEF ConnectionWork
  <2>6. ConnectionWork' <= ConnectionWork + 3
    <3>1. ConnectionWork = p + e + 2 * m + q
      BY <1>w, <2>4, <2>1
    <3>2. \A i, j, k, l, x, y \in Nat :
            k <= j + 1 /\ y <= x + 1 => i + k + 2 * y + l <= i + j + 2 * x + l + 3
      OBVIOUS
    <3> QED BY <1>b, <1>r, <2>2, <2>3, <2>4, <2>5, <3>1, <3>2
  <2>7. CloseWork' = CloseWork /\ Cardinality(Serving)' = Cardinality(Serving)
    BY <2>1, LoopsSame
  <2>8. CloseWork' <= CloseWork + 0 /\ Cardinality(Serving') <= Cardinality(Serving) + 0
    BY <1>0, <2>7
  <2>9. RelayWork' <= RelayWork + 3 + 0 + 10 * 0
    BY <2>1, <2>6, <2>8, LoopOnly
  <2> QED BY <1>0, <2>9
<1>3. ASSUME R!RecvReset(a, C) PROVE RelayWork' <= RelayWork + 3
  <2>1. /\ hpc' = hpc /\ rpc' = rpc /\ buf' = buf /\ relayed' = relayed /\ event' = event
        /\ UNCHANGED <<registered, pending, agentOf>>
        /\ remote[C] = "open" /\ lpc[a] = "receive" /\ agentOf[C] = a
    BY <1>3 DEF R!RecvReset, R!readerVars, R!tableVars
  <2>2. remote'[C] = "ended"
    BY <1>3, <1>t DEF R!RecvReset
  <2>3. ConnectionWork' = p + e + 2 * m + 0
    BY <1>b, <1>r, <2>1, <2>2 DEF ConnectionWork, Where
  <2>4. ConnectionWork' <= ConnectionWork + (-6)
    <3>1. Where(remote[C] \notin {"ended", "refused"}, 6) = 6
      BY <2>1 DEF Where
    <3> QED BY <1>w, <2>3, <3>1
  <2>5. lpc' = lpc \/ lpc' = [lpc EXCEPT ![a] = "close"]
    BY <1>3 DEF R!RecvReset, R!Goto
  <2>6. lpc'[a] \in {"receive", "close"} /\ \A b \in 1 .. MaxSessions \ {a} : lpc'[b] = lpc[b]
    BY <2>1, <2>5, RelayShape
  <2>7. CloseWork' <= CloseWork + 9
    <3>1. a # 0
      OBVIOUS
    <3>2. CloseWork = Where(C \in pending[a], 9)
      BY <2>1, <3>1 DEF CloseWork, LoopWork, Where
    <3>3. CloseWork' \in {Where(C \in pending[a], 9), 9 + Where(C \in pending[a], 9)}
      BY <2>1, <2>6, <3>1 DEF CloseWork, LoopWork, Where
    <3> QED BY <1>0, <3>2, <3>3
  <2>8. Cardinality(Serving') <= Cardinality(Serving) + 0
    <3>1. Serving' \in SUBSET Serving
      BY <2>1, <2>6 DEF Serving
    <3>2. Cardinality(Serving') <= Cardinality(Serving)
      BY <3>1, WorkTypes, FS_Subset DEF WorkTyped
    <3> QED BY <1>0, <3>2
  <2>9. RelayWork' <= RelayWork + (-6) + 9 + 10 * 0
    BY <2>1, <2>4, <2>7, <2>8, LoopOnly
  <2> QED BY <1>0, <2>9
<1> QED BY <1>1, <1>2, <1>3

\* A new session brings a message loop that will see it go.
LEMMA JoinSpends ==
  ASSUME CoreInv, CoreInv', NEW a \in 1 .. MaxSessions, R!AgentJoins(a)
  PROVE  RelayWork' <= RelayWork + 10
<1>0. /\ RelayWork \in Int /\ RelayWork' \in Int /\ ConnectionWork \in Nat
      /\ CloseWork \in Nat /\ IsFiniteSet(Serving) /\ Cardinality(Serving) \in Nat
  BY WorkTypes, WorkTypesNext DEF WorkTyped
<1>1. /\ hpc' = hpc /\ rpc' = rpc /\ buf' = buf /\ relayed' = relayed /\ event' = event
      /\ UNCHANGED <<pending, agentOf, remote>>
      /\ registered' = registered \cup {a} /\ lpc[a] = "absent"
  BY DEF R!AgentJoins, R!readerVars, R!tableVars, R!remoteVars
<1>2. lpc'[a] = "receive" /\ \A b \in 1 .. MaxSessions \ {a} : lpc'[b] = lpc[b]
  BY RelayShape DEF R!AgentJoins, R!Goto
<1>3. ConnectionWork' = ConnectionWork
  BY <1>1 DEF ConnectionWork
<1>4. CloseWork' = CloseWork
  <2>1. agentOf[C] \in 0 .. MaxSessions
    BY RelayShape
  <2>2. CASE agentOf[C] = 0
    BY <1>1, <2>2 DEF CloseWork
  <2>3. CASE agentOf[C] = a
    BY <1>1, <1>2, <2>3 DEF CloseWork, LoopWork, Where
  <2>4. CASE agentOf[C] \notin {0, a}
    <3>1. agentOf[C] \in 1 .. MaxSessions \ {a}
      BY <2>1, <2>4
    <3>2. lpc'[agentOf[C]] = lpc[agentOf[C]]
      BY <1>2, <3>1
    <3> QED BY <1>1, <2>4, <3>2 DEF CloseWork, LoopWork
  <2> QED BY <2>2, <2>3, <2>4
<1>5. Cardinality(Serving') <= Cardinality(Serving) + 1
  <2>1. Serving' \in SUBSET (Serving \cup {a})
    BY <1>1, <1>2 DEF Serving
  <2>2. IsFiniteSet(Serving \cup {a}) /\ Cardinality(Serving \cup {a}) <= Cardinality(Serving) + 1
    BY <1>0, FS_AddElement
  <2>3. Cardinality(Serving') <= Cardinality(Serving \cup {a}) /\ IsFiniteSet(Serving')
    BY <2>1, <2>2, FS_Subset
  <2>4. Cardinality(Serving \cup {a}) \in Nat /\ Cardinality(Serving') \in Nat
    BY <2>2, <2>3, FS_CardinalityType
  <2> QED BY <1>0, <2>2, <2>3, <2>4
<1>6. RelayWork' <= RelayWork + 0 + 0 + 10 * 1
  <2>1. ConnectionWork' <= ConnectionWork + 0 /\ CloseWork' <= CloseWork + 0
    BY <1>0, <1>3, <1>4
  <2> QED BY <1>1, <1>5, <2>1, LoopOnly
<1> QED BY <1>0, <1>6

\* A peer that leaves, and a step elsewhere, leave the relay its work.
LEMMA RelayKept ==
  ASSUME UNCHANGED relayOwn
  PROVE  RelayWork' = RelayWork
<1>1. UNCHANGED <<hpc, rpc, relayed, event, buf, remote, registered, lpc, pending, agentOf>>
  BY DEF relayOwn
<1>2. ConnectionWork' = ConnectionWork
  BY <1>1 DEF ConnectionWork
<1>3. CloseWork' = CloseWork /\ Cardinality(Serving)' = Cardinality(Serving)
  BY <1>1, LoopsSame
<1> QED BY <1>1, <1>2, <1>3 DEF RelayWork

\* What the agent has to do, with what the relay has to take from it.
AgentLoad == AgentWork + 4 * Len(sent[C])

LEMMA SentLengths ==
  ASSUME CoreInv, CoreInv'
  PROVE  Len(sent[C]) \in Nat /\ Len(sent'[C]) \in Nat
<1>1. CoreInv => Len(sent[C]) \in Nat
  BY OneConnection DEF CoreInv, ComponentInv, AgentInv, E!EdgeInv, E!TypeOK
<1>2. CoreInv' => Len(sent[C])' \in Nat
  <2>1. (CoreInv => Len(sent[C]) \in Nat)'
    BY OneConnection DEF CoreInv, ComponentInv, AgentInv, E!EdgeInv, E!TypeOK
  <2> QED BY <2>1
<1> QED BY <1>1, <1>2

\* A step of the main task or of the reader that sends nothing, and one that sends.
LEMMA AgentMoves ==
  ASSUME CoreInv, CoreInv', session' = session, NEW k \in Int,
         MainWork(mpc') + AgentReaderWork(erpc'[C])
           <= MainWork(mpc) + AgentReaderWork(erpc[C]) + k
  PROVE  /\ Len(sent'[C]) <= Len(sent[C]) => AgentLoad' <= AgentLoad + k
         /\ Len(sent'[C]) <= Len(sent[C]) + 1 => AgentLoad' <= AgentLoad + k + 4
<1>1. /\ MainWork(mpc) \in Nat /\ MainWork(mpc') \in Nat
      /\ AgentReaderWork(erpc[C]) \in Nat /\ AgentReaderWork(erpc'[C]) \in Nat
  BY PlaceTypes
<1>2. PICK l, h \in Nat : l = Len(sent[C]) /\ h = Len(sent'[C])
  BY SentLengths
<1>3. PICK s \in Int : s = 13 * (MaxSessions - session)
  BY SystemOK DEF CoreInv, ComponentInv, AgentInv, E!EdgeInv, E!TypeOK
<1>4. PICK p, q \in Nat : /\ p = MainWork(mpc) + AgentReaderWork(erpc[C])
                          /\ q = MainWork(mpc') + AgentReaderWork(erpc'[C])
                          /\ q <= p + k
  BY <1>1
<1>5. AgentLoad = p + s + 4 * l
  BY <1>2, <1>3, <1>4 DEF AgentLoad, AgentWork
<1>6. AgentLoad' = q + s + 4 * h
  BY <1>2, <1>3, <1>4 DEF AgentLoad, AgentWork
<1>7. /\ h <= l => q + s + 4 * h <= p + s + 4 * l + k
      /\ h <= l + 1 => q + s + 4 * h <= p + s + 4 * l + k + 4
  BY <1>4
<1> QED BY <1>2, <1>5, <1>6, <1>7

LEMMA SendOne ==
  ASSUME CoreInv, NEW m \in {"ok", "error", "data", "reset"}, E!Send(C, m)
  PROVE  Len(sent'[C]) <= Len(sent[C]) + 1
<1>1. sent \in [{C} -> Seq({"ok", "error", "data", "reset"})]
  BY OneConnection DEF CoreInv, ComponentInv, AgentInv, E!EdgeInv, E!TypeOK
<1>2. CASE sent' = sent
  BY <1>1, <1>2, OneConnection
<1>3. CASE sent' = [sent EXCEPT ![C] = Append(@, m)]
  <2>1. sent'[C] = Append(sent[C], m) /\ sent[C] \in Seq({"ok", "error", "data", "reset"})
    BY <1>1, <1>3, OneConnection
  <2> QED BY <2>1
<1> QED BY <1>2, <1>3 DEF E!Send

\* What the main task does without receiving.
MainTask ==
  \/ E!Connected(C) \/ E!ConnectFails(C) \/ E!Confirmed(C) \/ E!Reported
  \/ E!Drained(C) \/ E!DrainReset(C) \/ E!DrainFails(C) \/ E!MainSendRaises
  \/ E!ReceiveRaises \/ E!CleanUp

\* The main task of the agent.
LEMMA MainSpends ==
  ASSUME CoreInv, CoreInv'
  PROVE  /\ E!Connect => AgentLoad' <= AgentLoad - 11
         /\ E!Initiate(C) \/ E!WriteData(C) => AgentLoad' <= AgentLoad + 6
         /\ MainTask => AgentLoad' <= AgentLoad - 1
<1> USE DEF E!mainVars, E!readerVars, E!connVars, E!LeaveSession, E!NextMessage
<1>0. /\ AgentWork \in Nat /\ AgentWork' \in Nat /\ Len(sent[C]) \in Nat
      /\ Len(sent'[C]) \in Nat /\ AgentLoad \in Int /\ AgentLoad' \in Int
  <2>1. /\ AgentWork \in Nat /\ AgentWork' \in Nat /\ Len(sent[C]) \in Nat
        /\ Len(sent'[C]) \in Nat
    BY WorkTypes, WorkTypesNext, SentLengths DEF WorkTyped
  <2> QED BY <2>1 DEF AgentLoad
<1>p. AgentReaderWork(erpc[C]) \in Nat
  BY PlaceTypes
<1>1. ASSUME E!Connect PROVE AgentLoad' <= AgentLoad - 11
  <2>1. /\ mpc = "down" /\ mpc' = "receive" /\ erpc' = erpc /\ sent' = sent
        /\ session' = session + 1 /\ session \in 0 .. MaxSessions
    BY <1>1 DEF E!Connect, CoreInv, ComponentInv, AgentInv, E!EdgeInv, E!TypeOK
  <2>2. AgentWork = 0 + AgentReaderWork(erpc[C]) + 13 * (MaxSessions - session)
    BY <2>1, OtherWeights DEF AgentWork
  <2>3. AgentWork' = 2 + AgentReaderWork(erpc[C]) + 13 * (MaxSessions - session')
    BY <2>1, OtherWeights DEF AgentWork
  <2>4. AgentWork' = AgentWork - 11
    BY <1>p, <2>1, <2>2, <2>3, SystemOK
  <2> QED BY <1>0, <2>1, <2>4 DEF AgentLoad
<1>2. ASSUME E!Initiate(C) \/ E!WriteData(C) PROVE AgentLoad' <= AgentLoad + 6
  <2>1. /\ mpc = "receive" /\ mpc' \in {"connect", "drain"} /\ erpc' = erpc /\ sent' = sent
        /\ session' = session
    BY <1>2 DEF E!Initiate, E!WriteData
  <2>2. MainWork(mpc') + AgentReaderWork(erpc'[C])
          <= MainWork(mpc) + AgentReaderWork(erpc[C]) + 6
    BY <1>p, <2>1, OtherWeights
  <2>3. Len(sent'[C]) <= Len(sent[C])
    BY <1>0, <2>1
  <2> QED BY <2>1, <2>2, <2>3, AgentMoves
<1>3. ASSUME E!Connected(C) \/ E!ConnectFails(C) PROVE AgentLoad' <= AgentLoad - 1
  <2>1. /\ mpc = "connect" /\ mpc' \in {"confirm", "refuse"} /\ erpc' = erpc
        /\ session' = session
        /\ E!Send(C, "ok") \/ E!Send(C, "error")
    BY <1>3 DEF E!Connected, E!ConnectFails
  <2>2. MainWork(mpc') + AgentReaderWork(erpc'[C])
          <= MainWork(mpc) + AgentReaderWork(erpc[C]) + (-5)
    BY <1>p, <2>1, OtherWeights
  <2>3. Len(sent'[C]) <= Len(sent[C]) + 1
    BY <2>1, SendOne
  <2>4. AgentLoad' <= AgentLoad + (-5) + 4
    BY <2>1, <2>2, <2>3, AgentMoves
  <2> QED BY <1>0, <2>4
<1>4. ASSUME E!Confirmed(C) PROVE AgentLoad' <= AgentLoad - 1
  <2>1. mpc = "confirm" /\ mpc' = "receive" /\ sent' = sent /\ session' = session
    BY <1>4 DEF E!Confirmed
  <2>2. erpc[C] = "none" /\ erpc'[C] = "read"
    BY <1>4, OneConnection DEF E!Confirmed, CoreInv, ComponentInv, AgentInv, E!EdgeInv,
       E!TypeOK, E!AnswersInv, E!AnswerInv
  <2>3. MainWork(mpc') + AgentReaderWork(erpc'[C])
          <= MainWork(mpc) + AgentReaderWork(erpc[C]) + (-3)
    BY <2>1, <2>2, OtherWeights
  <2>4. Len(sent'[C]) <= Len(sent[C])
    BY <1>0, <2>1
  <2>5. AgentLoad' <= AgentLoad + (-3)
    BY <2>1, <2>3, <2>4, AgentMoves
  <2> QED BY <1>0, <2>5
<1>5. ASSUME E!Reported \/ E!Drained(C) \/ E!DrainFails(C) \/ E!MainSendRaises
             \/ E!ReceiveRaises \/ E!CleanUp
      PROVE  AgentLoad' <= AgentLoad - 1
  <2>1. erpc' = erpc /\ sent' = sent /\ session' = session
    BY <1>5 DEF E!Reported, E!Drained, E!DrainFails, E!MainSendRaises, E!ReceiveRaises,
       E!CleanUp
  <2>2. \/ mpc \in {"refuse", "report", "drain"} /\ mpc' = "receive"
        \/ mpc \in {"drain", "confirm", "refuse", "report", "receive"} /\ mpc' = "leave"
        \/ mpc = "leave" /\ mpc' = "down"
    BY <1>5 DEF E!Reported, E!Drained, E!DrainFails, E!MainSendRaises, E!ReceiveRaises,
       E!CleanUp
  <2>3. MainWork(mpc') + AgentReaderWork(erpc'[C])
          <= MainWork(mpc) + AgentReaderWork(erpc[C]) + (-1)
    BY <1>p, <2>1, <2>2, OtherWeights
  <2>4. Len(sent'[C]) <= Len(sent[C])
    BY <1>0, <2>1
  <2>5. AgentLoad' <= AgentLoad + (-1)
    BY <2>1, <2>3, <2>4, AgentMoves
  <2> QED BY <1>0, <2>5
<1>6. ASSUME E!DrainReset(C) PROVE AgentLoad' <= AgentLoad - 1
  <2>1. mpc = "drain" /\ erpc' = erpc /\ session' = session
    BY <1>6 DEF E!DrainReset
  <2>2. mpc' \in {"report", "leave"} /\ Len(sent'[C]) <= Len(sent[C]) + 1
    <3>1. CASE C \in active
      BY <1>6, <3>1, SendOne DEF E!DrainReset
    <3>2. CASE C \notin active
      <4>1. mpc' = "leave" /\ sent' = sent
        BY <1>6, <3>2 DEF E!DrainReset
      <4> QED BY <1>0, <4>1
    <3> QED BY <3>1, <3>2
  <2>3. MainWork(mpc') + AgentReaderWork(erpc'[C])
          <= MainWork(mpc) + AgentReaderWork(erpc[C]) + (-5)
    BY <1>p, <2>1, <2>2, OtherWeights
  <2>4. AgentLoad' <= AgentLoad + (-5) + 4
    BY <2>1, <2>2, <2>3, AgentMoves
  <2> QED BY <1>0, <2>4
<1>7. ASSUME MainTask PROVE AgentLoad' <= AgentLoad - 1
  BY <1>3, <1>4, <1>5, <1>6, <1>7 DEF MainTask
<1> QED BY <1>1, <1>2, <1>7

\* The reader of the target connection, and the agent's peers.
LEMMA AgentReaderSpends ==
  ASSUME CoreInv, CoreInv'
  PROVE  /\ E!ReaderData(C) => AgentLoad' <= AgentLoad + 5
         /\ E!ReaderSent(C) \/ E!ReaderEnds(C) \/ E!ReaderSendRaises(C) \/ E!ReaderDone(C)
              => AgentLoad' <= AgentLoad - 1
         /\ E!RelayCloses(C) \/ E!TargetEnds(C) \/ E!TargetResets(C) \/ E!TargetReads(C)
            \/ E!RelayLost \/ UNCHANGED agentVars
              => AgentLoad' = AgentLoad
<1> USE DEF E!mainVars, E!readerVars, E!connVars
<1>0. /\ AgentWork \in Nat /\ AgentWork' \in Nat /\ Len(sent[C]) \in Nat
      /\ Len(sent'[C]) \in Nat /\ AgentLoad \in Int /\ AgentLoad' \in Int
  <2>1. /\ AgentWork \in Nat /\ AgentWork' \in Nat /\ Len(sent[C]) \in Nat
        /\ Len(sent'[C]) \in Nat
    BY WorkTypes, WorkTypesNext, SentLengths DEF WorkTyped
  <2> QED BY <2>1 DEF AgentLoad
<1>p. MainWork(mpc) \in Nat
  BY PlaceTypes
<1>t. erpc \in [{C} -> {"none", "read", "send", "report", "done"}]
  BY OneConnection DEF CoreInv, ComponentInv, AgentInv, E!EdgeInv, E!TypeOK
<1>s. ASSUME E!Finally(C)
      PROVE  /\ mpc' = mpc /\ session' = session /\ erpc'[C] = "report"
             /\ Len(sent'[C]) <= Len(sent[C]) + 1
  <2>1. mpc' = mpc /\ session' = session /\ erpc'[C] = "report"
    BY <1>s, <1>t, OneConnection DEF E!Finally
  <2> QED BY <1>s, <2>1, SendOne DEF E!Finally
<1>1. ASSUME E!ReaderData(C) PROVE AgentLoad' <= AgentLoad + 5
  <2>1. mpc' = mpc /\ session' = session /\ erpc[C] = "read" /\ erpc'[C] = "send"
    BY <1>1, <1>t, OneConnection DEF E!ReaderData
  <2>2. Len(sent'[C]) <= Len(sent[C]) + 1
    BY <1>1, SendOne DEF E!ReaderData
  <2>3. MainWork(mpc') + AgentReaderWork(erpc'[C])
          <= MainWork(mpc) + AgentReaderWork(erpc[C]) + 1
    BY <1>p, <2>1, OtherWeights
  <2>4. AgentLoad' <= AgentLoad + 1 + 4
    BY <2>1, <2>2, <2>3, AgentMoves
  <2> QED BY <1>0, <2>4
<1>2. ASSUME E!ReaderEnds(C) \/ E!ReaderSendRaises(C) PROVE AgentLoad' <= AgentLoad - 1
  <2>1. erpc[C] \in {"read", "send"} /\ E!Finally(C)
    BY <1>2 DEF E!ReaderEnds, E!ReaderSendRaises
  <2>2. MainWork(mpc') + AgentReaderWork(erpc'[C])
          <= MainWork(mpc) + AgentReaderWork(erpc[C]) + (-5)
    BY <1>p, <1>s, <2>1, OtherWeights
  <2>3. AgentLoad' <= AgentLoad + (-5) + 4
    BY <1>s, <2>1, <2>2, AgentMoves
  <2> QED BY <1>0, <2>3
<1>3. ASSUME E!ReaderSent(C) \/ E!ReaderDone(C) PROVE AgentLoad' <= AgentLoad - 1
  <2>1. /\ mpc' = mpc /\ session' = session /\ sent' = sent
        /\ \/ erpc[C] = "send" /\ erpc'[C] = "read"
           \/ erpc[C] = "report" /\ erpc'[C] = "done"
    BY <1>3, <1>t, OneConnection DEF E!ReaderSent, E!ReaderDone
  <2>2. MainWork(mpc') + AgentReaderWork(erpc'[C])
          <= MainWork(mpc) + AgentReaderWork(erpc[C]) + (-1)
    BY <1>p, <2>1, OtherWeights
  <2>3. Len(sent'[C]) <= Len(sent[C])
    BY <1>0, <2>1
  <2>4. AgentLoad' <= AgentLoad + (-1)
    BY <2>1, <2>2, <2>3, AgentMoves
  <2> QED BY <1>0, <2>4
<1>4. ASSUME E!RelayCloses(C) \/ E!TargetEnds(C) \/ E!TargetResets(C) \/ E!TargetReads(C)
             \/ E!RelayLost \/ UNCHANGED agentVars
      PROVE  AgentLoad' = AgentLoad
  <2>1. mpc' = mpc /\ session' = session /\ sent' = sent /\ erpc' = erpc
    BY <1>4 DEF E!RelayCloses, E!TargetEnds, E!TargetResets, E!TargetReads, E!RelayLost,
       agentVars
  <2> QED BY <2>1 DEF AgentLoad, AgentWork
<1> QED BY <1>1, <1>2, <1>3, <1>4

\* What is under way, less what the relay has taken of the agent's messages.
InFlight == 9 * Len(fromClient) + Len(toClient) + 7 * Len(toAgent) - 4 * taken

WorkSplit ==
  /\ Work \in Nat /\ Work = ClientWork + RelayWork + AgentLoad + InFlight
  /\ ClientWork \in Nat /\ RelayWork \in Nat /\ AgentLoad \in Nat /\ InFlight \in Int
  /\ Len(fromClient) \in Nat /\ Len(toClient) \in Nat /\ Len(toAgent) \in Nat /\ taken \in Nat

LEMMA WorkSplits == CoreInv => WorkSplit
<1> SUFFICES ASSUME CoreInv PROVE WorkSplit
  OBVIOUS
<1>1. ClientWork \in Nat /\ RelayWork \in Nat /\ AgentWork \in Nat
  BY WorkTypes DEF WorkTyped
<1>2. /\ Len(fromClient) \in Nat /\ Len(toClient) \in Nat /\ Len(toAgent) \in Nat
      /\ taken \in Nat
  BY OneConnection DEF CoreInv, MessagesInv, ComponentInv, AgentInv, E!EdgeInv, E!TypeOK
<1>3. Len(sent[C]) \in Nat
  BY OneConnection DEF CoreInv, ComponentInv, AgentInv, E!EdgeInv, E!TypeOK
<1>4. PICK f, g, h, t, n \in Nat :
        /\ f = Len(fromClient) /\ g = Len(toClient) /\ h = Len(toAgent) /\ t = taken
        /\ n = Len(sent[C])
  BY <1>2, <1>3
<1>5. AgentLoad = AgentWork + 4 * n /\ AgentLoad \in Nat
  BY <1>1, <1>4 DEF AgentLoad
<1>6. InFlight = 9 * f + g + 7 * h - 4 * t /\ InFlight \in Int
  BY <1>4 DEF InFlight
<1>7. ChannelWork = 9 * f + g + 7 * h + 4 * (n - t)
  BY <1>4 DEF ChannelWork
<1>8. Work = ClientWork + RelayWork + AgentLoad + InFlight
  <2>1. \A c, r, a \in Nat : c + r + a + (9 * f + g + 7 * h + 4 * (n - t))
                             = c + r + (a + 4 * n) + (9 * f + g + 7 * h - 4 * t)
    OBVIOUS
  <2> QED BY <1>1, <1>5, <1>6, <1>7, <2>1 DEF Work
<1> QED BY <1>1, <1>2, <1>5, <1>6, <1>8, WorkIsNat DEF WorkSplit

LEMMA WorkSplitsNext == CoreInv' => WorkSplit'
<1> QED BY WorkSplits, PTL

\* By how much a step may lengthen the channels.
Lengthens(f, g, h) ==
  /\ Len(fromClient') <= Len(fromClient) + f
  /\ Len(toClient') <= Len(toClient) + g
  /\ Len(toAgent') <= Len(toAgent) + h

LEMMA InFlightMoves ==
  ASSUME CoreInv, CoreInv'
  PROVE  /\ taken' = taken =>
              /\ Lengthens(0, 0, 0) => InFlight' <= InFlight
              /\ Lengthens(1, 0, 0) => InFlight' <= InFlight + 9
              /\ Lengthens(0, 1, 0) => InFlight' <= InFlight + 1
              /\ Lengthens(0, 0, 1) => InFlight' <= InFlight + 7
              /\ Lengthens(-1, 0, 0) => InFlight' <= InFlight - 9
              /\ Lengthens(0, -1, 0) => InFlight' <= InFlight - 1
              /\ Lengthens(0, 0, -1) => InFlight' <= InFlight - 7
         /\ taken' = taken + 1 => (Lengthens(0, 0, 0) => InFlight' <= InFlight - 4)
<1>1. WorkSplit /\ WorkSplit'
  BY WorkSplits, WorkSplitsNext
<1>2. PICK f, g, h, t \in Nat :
        f = Len(fromClient) /\ g = Len(toClient) /\ h = Len(toAgent) /\ t = taken
  BY <1>1 DEF WorkSplit
<1>3. PICK i, j, k, u \in Nat :
        i = Len(fromClient') /\ j = Len(toClient') /\ k = Len(toAgent') /\ u = taken'
  BY <1>1 DEF WorkSplit
<1>4. InFlight = 9 * f + g + 7 * h - 4 * t
  BY <1>2 DEF InFlight
<1>5. InFlight' = 9 * i + j + 7 * k - 4 * u
  BY <1>3 DEF InFlight
<1>6. ASSUME NEW l \in Int, NEW m \in Int, NEW n \in Int, Lengthens(l, m, n)
      PROVE  i <= f + l /\ j <= g + m /\ k <= h + n
  BY <1>2, <1>3, <1>6 DEF Lengthens
<1>7. ASSUME taken' = taken, Lengthens(0, 0, 0) PROVE InFlight' <= InFlight
  <2>1. i <= f + 0 /\ j <= g + 0 /\ k <= h + 0 /\ u = t
    BY <1>2, <1>3, <1>6, <1>7
  <2> QED BY <1>4, <1>5, <2>1
<1>8. ASSUME taken' = taken, Lengthens(1, 0, 0) PROVE InFlight' <= InFlight + 9
  <2>1. i <= f + 1 /\ j <= g + 0 /\ k <= h + 0 /\ u = t
    BY <1>2, <1>3, <1>6, <1>8
  <2> QED BY <1>4, <1>5, <2>1
<1>9. ASSUME taken' = taken, Lengthens(0, 1, 0) PROVE InFlight' <= InFlight + 1
  <2>1. i <= f + 0 /\ j <= g + 1 /\ k <= h + 0 /\ u = t
    BY <1>2, <1>3, <1>6, <1>9
  <2> QED BY <1>4, <1>5, <2>1
<1>10. ASSUME taken' = taken, Lengthens(0, 0, 1) PROVE InFlight' <= InFlight + 7
  <2>1. i <= f + 0 /\ j <= g + 0 /\ k <= h + 1 /\ u = t
    BY <1>2, <1>3, <1>6, <1>10
  <2> QED BY <1>4, <1>5, <2>1
<1>11. ASSUME taken' = taken, Lengthens(-1, 0, 0) PROVE InFlight' <= InFlight - 9
  <2>1. i <= f + (-1) /\ j <= g + 0 /\ k <= h + 0 /\ u = t
    BY <1>2, <1>3, <1>6, <1>11
  <2> QED BY <1>4, <1>5, <2>1
<1>12. ASSUME taken' = taken, Lengthens(0, -1, 0) PROVE InFlight' <= InFlight - 1
  <2>1. i <= f + 0 /\ j <= g + (-1) /\ k <= h + 0 /\ u = t
    BY <1>2, <1>3, <1>6, <1>12
  <2> QED BY <1>4, <1>5, <2>1
<1>13. ASSUME taken' = taken, Lengthens(0, 0, -1) PROVE InFlight' <= InFlight - 7
  <2>1. i <= f + 0 /\ j <= g + 0 /\ k <= h + (-1) /\ u = t
    BY <1>2, <1>3, <1>6, <1>13
  <2> QED BY <1>4, <1>5, <2>1
<1>14. ASSUME taken' = taken + 1, Lengthens(0, 0, 0) PROVE InFlight' <= InFlight - 4
  <2>1. i <= f + 0 /\ j <= g + 0 /\ k <= h + 0 /\ u = t + 1
    BY <1>2, <1>3, <1>6, <1>14
  <2> QED BY <1>4, <1>5, <2>1
<1> QED BY <1>7, <1>8, <1>9, <1>10, <1>11, <1>12, <1>13, <1>14

\* A send adds at most one message.
LEMMA OneMore ==
  ASSUME NEW M, NEW ch \in Seq(M), NEW m
  PROVE  Len(Append(ch, m)) = Len(ch) + 1
<1>1. ch \in Seq(M \cup {m}) /\ m \in M \cup {m}
  OBVIOUS
<1> QED BY <1>1

LEMMA SendsOne ==
  ASSUME CoreInv, NEW kind, NEW chunks
  PROVE  /\ ToRelay(kind, chunks) => Len(fromClient') <= Len(fromClient) + 1
         /\ ToAgent(kind, chunks) => Len(toAgent') <= Len(toAgent) + 1
         /\ ToClient(kind, chunks) => Len(toClient') <= Len(toClient) + 1
<1>1. /\ fromClient \in Seq(ToRelayMessages) /\ toClient \in Seq(ToClientMessages)
      /\ toAgent \in Seq(ToAgentMessages)
      /\ Len(fromClient) \in Nat /\ Len(toClient) \in Nat /\ Len(toAgent) \in Nat
  BY WorkSplits DEF CoreInv, MessagesInv, WorkSplit
<1>2. /\ Len(Append(fromClient, Message(kind, chunks))) = Len(fromClient) + 1
      /\ Len(Append(toClient, Message(kind, chunks))) = Len(toClient) + 1
      /\ Len(Append(toAgent, Message(kind, chunks))) = Len(toAgent) + 1
  BY <1>1, OneMore
<1>3. ToRelay(kind, chunks) => Len(fromClient') <= Len(fromClient) + 1
  BY <1>1, <1>2 DEF ToRelay
<1>4. ToAgent(kind, chunks) => Len(toAgent') <= Len(toAgent) + 1
  BY <1>1, <1>2 DEF ToAgent
<1>5. ToClient(kind, chunks) => Len(toClient') <= Len(toClient) + 1
  BY <1>1, <1>2 DEF ToClient
<1> QED BY <1>3, <1>4, <1>5

\* A message that is received is one less, and so is a channel that is emptied.
LEMMA OneLess ==
  ASSUME CoreInv
  PROVE  /\ fromClient # <<>> => Len(Tail(fromClient)) <= Len(fromClient) + (-1)
         /\ toClient # <<>> => Len(Tail(toClient)) <= Len(toClient) + (-1)
         /\ toAgent # <<>> => Len(Tail(toAgent)) <= Len(toAgent) + (-1)
         /\ \A n \in Nat : Len(<<>>) <= n
<1>1. /\ fromClient \in Seq(ToRelayMessages) /\ toClient \in Seq(ToClientMessages)
      /\ toAgent \in Seq(ToAgentMessages)
  BY DEF CoreInv, MessagesInv
<1>2. ASSUME NEW M, NEW ch \in Seq(M), ch # <<>>
      PROVE  Len(Tail(ch)) <= Len(ch) + (-1)
  BY <1>2, ChannelTail
<1>3. \A n \in Nat : Len(<<>>) <= n
  OBVIOUS
<1> QED BY <1>1, <1>2, <1>3

\* What is sent and received weighs against what is done.
LEMMA AgentPays ==
  ASSUME CoreInv, CoreInv', RelayWork' = RelayWork, ClientWork' = ClientWork
  PROVE  /\ AgentLoad' <= AgentLoad + 6 /\ InFlight' <= InFlight - 7 => Work' < Work
         /\ AgentLoad' <= AgentLoad - 1 /\ InFlight' <= InFlight => Work' < Work
         /\ AgentLoad' <= AgentLoad + 5 /\ InFlight' <= InFlight => Work' <= Work + 5
         /\ AgentLoad' = AgentLoad /\ InFlight' <= InFlight => Work' <= Work
<1>0. WorkSplit /\ WorkSplit'
  BY WorkSplits, WorkSplitsNext
<1>1. PICK w, a, b \in Nat : w = ClientWork + RelayWork /\ a = AgentLoad /\ b = AgentLoad'
  BY <1>0 DEF WorkSplit
<1>2. PICK f, g \in Int : f = InFlight /\ g = InFlight'
  BY <1>0 DEF WorkSplit
<1>3. Work = w + a + f
  BY <1>0, <1>1, <1>2 DEF WorkSplit
<1>4. Work' = w + b + g
  BY <1>0, <1>1, <1>2 DEF WorkSplit
<1>5. /\ b <= a + 6 /\ g <= f - 7 => w + b + g < w + a + f
      /\ b <= a - 1 /\ g <= f => w + b + g < w + a + f
      /\ b <= a + 5 /\ g <= f => w + b + g <= w + a + f + 5
      /\ b = a /\ g <= f => w + b + g <= w + a + f
  OBVIOUS
<1> QED BY <1>1, <1>2, <1>3, <1>4, <1>5

LEMMA RelayPays ==
  ASSUME CoreInv, CoreInv', AgentLoad' = AgentLoad, ClientWork' = ClientWork
  PROVE  /\ RelayWork' <= RelayWork - 2 /\ InFlight' <= InFlight + 1 => Work' < Work
         /\ RelayWork' <= RelayWork - 8 /\ InFlight' <= InFlight + 7 => Work' < Work
         /\ RelayWork' <= RelayWork + 8 /\ InFlight' <= InFlight - 9 => Work' < Work
         /\ RelayWork' <= RelayWork - 1 /\ InFlight' <= InFlight => Work' < Work
         /\ RelayWork' <= RelayWork + 3 /\ InFlight' <= InFlight - 4 => Work' < Work
<1>0. WorkSplit /\ WorkSplit'
  BY WorkSplits, WorkSplitsNext
<1>1. PICK w, a, b \in Nat : w = ClientWork + AgentLoad /\ a = RelayWork /\ b = RelayWork'
  BY <1>0 DEF WorkSplit
<1>2. PICK f, g \in Int : f = InFlight /\ g = InFlight'
  BY <1>0 DEF WorkSplit
<1>3. Work = w + a + f
  BY <1>0, <1>1, <1>2 DEF WorkSplit
<1>4. Work' = w + b + g
  BY <1>0, <1>1, <1>2 DEF WorkSplit
<1>5. /\ b <= a - 2 /\ g <= f + 1 => w + b + g < w + a + f
      /\ b <= a - 8 /\ g <= f + 7 => w + b + g < w + a + f
      /\ b <= a + 8 /\ g <= f - 9 => w + b + g < w + a + f
      /\ b <= a - 1 /\ g <= f => w + b + g < w + a + f
      /\ b <= a + 3 /\ g <= f - 4 => w + b + g < w + a + f
  OBVIOUS
<1> QED BY <1>1, <1>2, <1>3, <1>4, <1>5

LEMMA JoinPays ==
  ASSUME CoreInv, CoreInv', ClientWork' = ClientWork, InFlight' = InFlight,
         RelayWork' <= RelayWork + 10, AgentLoad' <= AgentLoad - 11
  PROVE  Work' < Work
<1>0. WorkSplit /\ WorkSplit'
  BY WorkSplits, WorkSplitsNext
<1>1. PICK c, r, s, a, b \in Nat : /\ c = ClientWork /\ r = RelayWork /\ s = RelayWork'
                                   /\ a = AgentLoad /\ b = AgentLoad'
  BY <1>0 DEF WorkSplit
<1>2. PICK f \in Int : f = InFlight
  BY <1>0 DEF WorkSplit
<1>3. Work = c + r + a + f
  BY <1>0, <1>1, <1>2 DEF WorkSplit
<1>4. Work' = c + s + b + f
  BY <1>0, <1>1, <1>2 DEF WorkSplit
<1>5. s <= r + 10 /\ b <= a - 11 => c + s + b + f < c + r + a + f
  OBVIOUS
<1> QED BY <1>1, <1>3, <1>4, <1>5

LEMMA ClientPays ==
  ASSUME CoreInv, CoreInv', AgentLoad' = AgentLoad, RelayWork' = RelayWork
  PROVE  /\ ClientWork' <= ClientWork - 10 /\ InFlight' <= InFlight + 9 => Work' < Work
         /\ ClientWork' <= ClientWork /\ InFlight' <= InFlight - 1 => Work' < Work
         /\ ClientWork' <= ClientWork - 1 /\ InFlight' <= InFlight => Work' < Work
         /\ ClientWork' = ClientWork /\ InFlight' <= InFlight + 9 => Work' <= Work + 9
<1>0. WorkSplit /\ WorkSplit'
  BY WorkSplits, WorkSplitsNext
<1>1. PICK w, a, b \in Nat : w = RelayWork + AgentLoad /\ a = ClientWork /\ b = ClientWork'
  BY <1>0 DEF WorkSplit
<1>2. PICK f, g \in Int : f = InFlight /\ g = InFlight'
  BY <1>0 DEF WorkSplit
<1>3. Work = w + a + f
  BY <1>0, <1>1, <1>2 DEF WorkSplit
<1>4. Work' = w + b + g
  BY <1>0, <1>1, <1>2 DEF WorkSplit
<1>5. /\ b <= a - 10 /\ g <= f + 9 => w + b + g < w + a + f
      /\ b <= a /\ g <= f - 1 => w + b + g < w + a + f
      /\ b <= a - 1 /\ g <= f => w + b + g < w + a + f
      /\ b = a /\ g <= f + 9 => w + b + g <= w + a + f + 9
  OBVIOUS
<1> QED BY <1>1, <1>2, <1>3, <1>4, <1>5

\* Less work is no more work.
LEMMA LessIsNoMore == CoreInv /\ CoreInv' /\ Work' < Work => Work' <= Work
<1> SUFFICES ASSUME CoreInv, CoreInv', Work' < Work PROVE Work' <= Work
  OBVIOUS
<1>1. Work \in Int /\ Work' \in Int
  BY WorkSplits, WorkSplitsNext DEF WorkSplit
<1> QED BY <1>1

\* The steps of the client.
LEMMA ClientSpends ==
  ASSUME CoreInv, CoreInv'
  PROVE  /\ (\/ ClientStarts \/ ClientAccepted \/ ClientRefused \/ ClientShows
             \/ ClientEnds \/ ClientClosed)
            => Work' < Work
         /\ ClientTypes => Work' <= Work + 9
         /\ ClientKilled \/ ClientLost => Work' <= Work
<1>0. WorkSplit /\ WorkSplit'
  BY WorkSplits, WorkSplitsNext
<1>1. ASSUME ClientActs
      PROVE  /\ RelayWork' = RelayWork /\ AgentLoad' = AgentLoad /\ taken' = taken
             /\ Len(toAgent') <= Len(toAgent) + 0
  <2>1. UNCHANGED <<relayOwn, agentVars, toAgent, taken>>
    BY <1>1, ClientSteps
  <2>2. AgentLoad' = AgentLoad
    BY <2>1, AgentReaderSpends
  <2>3. RelayWork' = RelayWork
    BY <2>1, RelayKept
  <2>4. Len(toAgent') <= Len(toAgent) + 0
    BY <1>0, <2>1 DEF WorkSplit
  <2> QED BY <2>1, <2>2, <2>3, <2>4
<1>n. /\ Len(fromClient) <= Len(fromClient) + 0 /\ Len(toClient) <= Len(toClient) + 0
      /\ Len(<<>>) <= Len(toClient) + 0
  BY <1>0, OneLess DEF WorkSplit
<1>t. aws \in {"none", "up", "closed"} /\ (aws = "none" <=> apc = "start")
  BY DEF CoreInv, ComponentInv, A!TypeOK, MeetInv
<1>2. ASSUME ClientStarts PROVE Work' < Work
  <2>1. ClientWork' <= ClientWork - 10
    BY <1>2, <1>t DEF ClientStarts, A!Start, ClientWork, Where
  <2>2. Len(fromClient') <= Len(fromClient) + 1 /\ Len(toClient') <= Len(toClient) + 0
    BY <1>0, <1>2, SendsOne DEF ClientStarts, WorkSplit
  <2>3. Lengthens(1, 0, 0) /\ taken' = taken
    <3>1. taken' = taken /\ Len(toAgent') <= Len(toAgent) + 0
      BY <1>1, <1>2 DEF ClientActs
    <3> QED BY <1>n, <2>2, <3>1, OneLess DEF Lengthens
  <2>4. InFlight' <= InFlight + 9
    BY <2>3, InFlightMoves
  <2>5. RelayWork' = RelayWork /\ AgentLoad' = AgentLoad
    BY <1>1, <1>2 DEF ClientActs
  <2> QED BY <2>1, <2>4, <2>5, ClientPays
<1>3. ASSUME ClientAccepted \/ ClientShows PROVE Work' < Work
  <2>1. ClientWork' <= ClientWork
    <3>1. aws' = aws /\ (apc' = apc \/ (apc = "answer" /\ apc' = "pump"))
      BY <1>3 DEF ClientAccepted, ClientShows, A!Accepted, A!ShowData
    <3> QED BY <3>1 DEF ClientWork, Where
  <2>2. toClient # <<>> /\ toClient' = Tail(toClient) /\ fromClient' = fromClient
    BY <1>3 DEF ClientAccepted, ClientShows, First
  <2>3. Lengthens(0, -1, 0) /\ taken' = taken
    <3>1. taken' = taken /\ Len(toAgent') <= Len(toAgent) + 0
      BY <1>1, <1>3 DEF ClientActs
    <3> QED BY <1>n, <2>2, <3>1, OneLess DEF Lengthens
  <2>4. InFlight' <= InFlight - 1
    BY <2>3, InFlightMoves
  <2>5. RelayWork' = RelayWork /\ AgentLoad' = AgentLoad
    BY <1>1, <1>3 DEF ClientActs
  <2> QED BY <2>1, <2>4, <2>5, ClientPays
<1>4. ASSUME ClientRefused \/ ClientEnds \/ ClientKilled PROVE Work' < Work
  <2>1. ClientWork' <= ClientWork - 1
    <3>1. apc \in {"answer", "pump"} /\ apc' = "done" /\ aws' = "closed"
      BY <1>4 DEF ClientRefused, ClientEnds, ClientKilled, A!Refused, A!ReceiveEnds, A!Killed,
         A!Exit
    <3> QED BY <3>1 DEF ClientWork, Where
  <2>2. toClient' = <<>> /\ fromClient' = fromClient
    BY <1>4 DEF ClientRefused, ClientEnds, ClientKilled
  <2>3. Lengthens(0, 0, 0) /\ taken' = taken
    <3>1. taken' = taken /\ Len(toAgent') <= Len(toAgent) + 0
      BY <1>1, <1>4 DEF ClientActs
    <3> QED BY <1>n, <2>2, <3>1, OneLess DEF Lengthens
  <2>4. InFlight' <= InFlight
    BY <2>3, InFlightMoves
  <2>5. RelayWork' = RelayWork /\ AgentLoad' = AgentLoad
    BY <1>1, <1>4 DEF ClientActs
  <2> QED BY <2>1, <2>4, <2>5, ClientPays
<1>5. ASSUME ClientClosed \/ ClientLost PROVE Work' < Work
  <2>1. ClientWork' <= ClientWork - 1
    <3>1. aws = "up" /\ aws' = "closed" /\ apc' = apc
      BY <1>5 DEF ClientClosed, ClientLost, A!SocketCloses
    <3> QED BY <3>1 DEF ClientWork, Where
  <2>2. toClient' = toClient /\ fromClient' = fromClient
    BY <1>5 DEF ClientClosed, ClientLost
  <2>3. Lengthens(0, 0, 0) /\ taken' = taken
    <3>1. taken' = taken /\ Len(toAgent') <= Len(toAgent) + 0
      BY <1>1, <1>5 DEF ClientActs
    <3> QED BY <1>n, <2>2, <3>1, OneLess DEF Lengthens
  <2>4. InFlight' <= InFlight
    BY <2>3, InFlightMoves
  <2>5. RelayWork' = RelayWork /\ AgentLoad' = AgentLoad
    BY <1>1, <1>5 DEF ClientActs
  <2> QED BY <2>1, <2>4, <2>5, ClientPays
<1>6. ASSUME ClientTypes PROVE Work' <= Work + 9
  <2>1. ClientWork' = ClientWork
    BY <1>6 DEF ClientTypes, A!ReadStdin, ClientWork
  <2>2. Len(fromClient') <= Len(fromClient) + 1 /\ Len(toClient') <= Len(toClient) + 0
    BY <1>0, <1>6, SendsOne DEF ClientTypes, WorkSplit
  <2>3. Lengthens(1, 0, 0) /\ taken' = taken
    <3>1. taken' = taken /\ Len(toAgent') <= Len(toAgent) + 0
      BY <1>1, <1>6 DEF ClientActs
    <3> QED BY <1>n, <2>2, <3>1, OneLess DEF Lengthens
  <2>4. InFlight' <= InFlight + 9
    BY <2>3, InFlightMoves
  <2>5. RelayWork' = RelayWork /\ AgentLoad' = AgentLoad
    BY <1>1, <1>6 DEF ClientActs
  <2> QED BY <2>1, <2>4, <2>5, ClientPays
<1>7. ASSUME ClientKilled \/ ClientLost PROVE Work' <= Work
  BY <1>4, <1>5, <1>7, LessIsNoMore
<1> QED BY <1>2, <1>3, <1>4, <1>5, <1>6, <1>7

\* The steps of the agent.
LEMMA AgentSpends ==
  ASSUME CoreInv, CoreInv'
  PROVE  /\ (\/ AgentConnects \/ AgentInitiates \/ AgentWrites \/ AgentCloses
             \/ AgentTakesLate \/ AgentInternal)
            => Work' < Work
         /\ AgentReads => Work' <= Work + 5
         /\ AgentPeers \/ AgentFlushes => Work' <= Work
<1>0. WorkSplit /\ WorkSplit'
  BY WorkSplits, WorkSplitsNext
<1>1. ASSUME AgentActs
      PROVE  /\ RelayWork' = RelayWork /\ ClientWork' = ClientWork /\ taken' = taken
             /\ Len(fromClient') <= Len(fromClient) + 0 /\ Len(toClient') <= Len(toClient) + 0
  <2>1. UNCHANGED <<relayOwn, clientVars, fromClient, toClient, taken>>
    BY <1>1, AgentStep
  <2>2. ClientWork' = ClientWork
    BY <2>1 DEF clientVars, ClientWork
  <2>3. RelayWork' = RelayWork
    BY <2>1, RelayKept
  <2>4. Len(fromClient') <= Len(fromClient) + 0 /\ Len(toClient') <= Len(toClient) + 0
    BY <1>0, <2>1 DEF WorkSplit
  <2> QED BY <2>1, <2>2, <2>3, <2>4
<1>n. Len(toAgent) <= Len(toAgent) + 0 /\ Len(<<>>) <= Len(toAgent) + 0
  BY <1>0, OneLess DEF WorkSplit
<1>2. ASSUME AgentConnects PROVE Work' < Work
  <2>1. E!Connect /\ R!AgentJoins(session') /\ UNCHANGED <<clientVars, channels>>
    BY <1>2 DEF AgentConnects
  <2>2. session' \in 1 .. MaxSessions
    BY <2>1, SystemOK DEF E!Connect, CoreInv, ComponentInv, AgentInv, E!EdgeInv, E!TypeOK
  <2>3. RelayWork' <= RelayWork + 10
    BY <2>1, <2>2, JoinSpends
  <2>4. AgentLoad' <= AgentLoad - 11
    BY <2>1, MainSpends
  <2>5. ClientWork' = ClientWork /\ InFlight' = InFlight
    BY <2>1 DEF clientVars, channels, ClientWork, InFlight
  <2> QED BY <2>3, <2>4, <2>5, JoinPays
<1>3. ASSUME AgentInitiates \/ AgentWrites \/ AgentCloses \/ AgentTakesLate
      PROVE  Work' < Work
  <2>1. AgentLoad' <= AgentLoad + 6
    <3>1. CASE E!Initiate(C) \/ E!WriteData(C)
      BY <3>1, MainSpends
    <3>2. CASE E!RelayCloses(C) \/ UNCHANGED agentVars
      <4>1. AgentLoad' = AgentLoad
        BY <3>2, AgentReaderSpends
      <4> QED BY <1>0, <4>1 DEF WorkSplit
    <3> QED BY <1>3, <3>1, <3>2 DEF AgentInitiates, AgentWrites, AgentCloses, AgentTakesLate
  <2>2. toAgent # <<>> /\ toAgent' = Tail(toAgent)
    BY <1>3 DEF AgentInitiates, AgentWrites, AgentCloses, AgentTakesLate, First
  <2>3. Lengthens(0, 0, -1) /\ taken' = taken
    <3>1. taken' = taken /\ Len(fromClient') <= Len(fromClient) + 0 /\ Len(toClient') <= Len(toClient) + 0
      BY <1>1, <1>3 DEF AgentActs
    <3> QED BY <1>n, <2>2, <3>1, OneLess DEF Lengthens
  <2>4. InFlight' <= InFlight - 7
    BY <2>3, InFlightMoves
  <2>5. RelayWork' = RelayWork /\ ClientWork' = ClientWork
    BY <1>1, <1>3 DEF AgentActs
  <2> QED BY <2>1, <2>4, <2>5, AgentPays
<1>4. ASSUME AgentInternal PROVE Work' < Work
  <2>1. AgentLoad' <= AgentLoad - 1
    <3>1. CASE MainTask
      BY <3>1, MainSpends
    <3>2. CASE E!ReaderSent(C) \/ E!ReaderEnds(C) \/ E!ReaderSendRaises(C) \/ E!ReaderDone(C)
      BY <3>2, AgentReaderSpends
    <3> QED BY <1>4, <3>1, <3>2 DEF AgentInternal, MainTask
  <2>2. toAgent' \in {toAgent, <<>>}
    BY <1>4 DEF AgentInternal
  <2>3. Lengthens(0, 0, 0) /\ taken' = taken
    <3>1. taken' = taken /\ Len(fromClient') <= Len(fromClient) + 0 /\ Len(toClient') <= Len(toClient) + 0
      BY <1>1, <1>4 DEF AgentActs
    <3> QED BY <1>n, <2>2, <3>1, OneLess DEF Lengthens
  <2>4. InFlight' <= InFlight
    BY <2>3, InFlightMoves
  <2>5. RelayWork' = RelayWork /\ ClientWork' = ClientWork
    BY <1>1, <1>4 DEF AgentActs
  <2> QED BY <2>1, <2>4, <2>5, AgentPays
<1>5. ASSUME AgentReads \/ AgentPeers \/ AgentFlushes
      PROVE  InFlight' <= InFlight
  <2>1. toAgent' = toAgent
    BY <1>5 DEF AgentReads, AgentPeers, AgentFlushes
  <2>2. Lengthens(0, 0, 0) /\ taken' = taken
    <3>1. taken' = taken /\ Len(fromClient') <= Len(fromClient) + 0 /\ Len(toClient') <= Len(toClient) + 0
      BY <1>1, <1>5 DEF AgentActs
    <3> QED BY <1>n, <2>1, <3>1, OneLess DEF Lengthens
  <2> QED BY <2>2, InFlightMoves
<1>6. ASSUME AgentReads PROVE Work' <= Work + 5
  <2>1. AgentLoad' <= AgentLoad + 5
    BY <1>6, AgentReaderSpends DEF AgentReads
  <2>2. RelayWork' = RelayWork /\ ClientWork' = ClientWork /\ InFlight' <= InFlight
    BY <1>1, <1>5, <1>6 DEF AgentActs
  <2> QED BY <2>1, <2>2, AgentPays
<1>7. ASSUME AgentPeers \/ AgentFlushes PROVE Work' <= Work
  <2>1. AgentLoad' = AgentLoad
    BY <1>7, AgentReaderSpends DEF AgentPeers, AgentFlushes
  <2>2. RelayWork' = RelayWork /\ ClientWork' = ClientWork /\ InFlight' <= InFlight
    BY <1>1, <1>5, <1>7 DEF AgentActs
  <2> QED BY <2>1, <2>2, AgentPays
<1> QED BY <1>2, <1>3, <1>4, <1>6, <1>7

\* The steps of the relay.
LEMMA RelaySpends ==
  ASSUME CoreInv, CoreInv',
         \/ RelayRejects \/ RelayAccepts \/ RelayInitiates \/ RelayConfirms \/ RelayRefuses
         \/ RelayReceives \/ RelayForwards \/ RelayCloses \/ RelayDelivers \/ RelayInternal
         \/ RelayTakesAnswer \/ RelayTakesData \/ RelayTakesReset \/ RelayTakesLate
  PROVE  Work' < Work
<1>0. WorkSplit /\ WorkSplit'
  BY WorkSplits, WorkSplitsNext
<1>1. AgentLoad' = AgentLoad /\ ClientWork' = ClientWork
  <2>1. RelayActs
    BY DEF RelayActs
  <2>2. UNCHANGED <<agentVars, clientVars>>
    BY <2>1, RelayStep DEF CoreInv, ComponentInv
  <2>3. AgentLoad' = AgentLoad
    BY <2>2, AgentReaderSpends
  <2>4. ClientWork' = ClientWork
    BY <2>2 DEF clientVars, ClientWork
  <2> QED BY <2>3, <2>4
<1>2. RelayWork \in Int /\ RelayWork' \in Int
  BY <1>0 DEF WorkSplit
<1>n. /\ Len(fromClient) <= Len(fromClient) + 0 /\ Len(toClient) <= Len(toClient) + 0
      /\ Len(toAgent) <= Len(toAgent) + 0
      /\ Len(fromClient) + (-1) <= Len(fromClient) + 0 /\ Len(<<>>) <= Len(fromClient) + 0
  BY <1>0, OneLess DEF WorkSplit
<1>3. CASE RelayRejects \/ RelayConfirms \/ RelayRefuses \/ RelayDelivers
  <2>1. RelayWork' <= RelayWork - 2
    <3>1. CASE RelayRejects
      <4>1. RelayWork' <= RelayWork - 46
        BY <3>1, HandlerSpends DEF RelayRejects
      <4> QED BY <1>2, <4>1
    <3>2. CASE RelayConfirms
      BY <3>2, ConfirmSpends DEF RelayConfirms
    <3>3. CASE RelayRefuses
      BY <3>3, HandlerSpends DEF RelayRefuses
    <3>4. CASE RelayDelivers
      BY <3>4, ReaderSpends DEF RelayDelivers
    <3> QED BY <1>3, <3>1, <3>2, <3>3, <3>4
  <2>2. fromClient' \in {fromClient, <<>>} /\ toAgent' = toAgent /\ taken' = taken
    BY <1>3 DEF RelayRejects, RelayConfirms, RelayRefuses, RelayDelivers
  <2>3. Len(toClient') <= Len(toClient) + 1
    <3>1. toClient' = toClient \/ \E kind, chunks : ToClient(kind, chunks)
      BY <1>3 DEF RelayRejects, RelayConfirms, RelayRefuses, RelayDelivers
    <3>2. CASE toClient' = toClient
      BY <1>0, <3>2 DEF WorkSplit
    <3> QED BY <3>1, <3>2, SendsOne
  <2>4. Lengthens(0, 1, 0)
    BY <1>n, <2>2, <2>3 DEF Lengthens
  <2>5. InFlight' <= InFlight + 1
    BY <2>2, <2>4, InFlightMoves
  <2> QED BY <1>1, <2>1, <2>5, RelayPays
<1>4. CASE RelayInitiates \/ RelayForwards \/ RelayCloses
  <2>1. RelayWork' <= RelayWork - 8
    BY <1>4, HandlerSpends, LoopCloseSpends DEF RelayInitiates, RelayForwards, RelayCloses
  <2>2. fromClient' = fromClient /\ toClient' = toClient /\ taken' = taken
    BY <1>4 DEF RelayInitiates, RelayForwards, RelayCloses
  <2>3. Len(toAgent') <= Len(toAgent) + 1
    <3>1. toAgent' = toAgent \/ \E kind, chunks : ToAgent(kind, chunks)
      BY <1>4 DEF RelayInitiates, RelayForwards, RelayCloses
    <3>2. CASE toAgent' = toAgent
      BY <1>0, <3>2 DEF WorkSplit
    <3> QED BY <3>1, <3>2, SendsOne
  <2>4. Lengthens(0, 0, 1)
    BY <1>n, <2>2, <2>3 DEF Lengthens
  <2>5. InFlight' <= InFlight + 7
    BY <2>2, <2>4, InFlightMoves
  <2> QED BY <1>1, <2>1, <2>5, RelayPays
<1>5. CASE RelayReceives
  <2>1. RelayWork' <= RelayWork + 8
    BY <1>5, HandlerSpends DEF RelayReceives
  <2>2. /\ fromClient # <<>> /\ fromClient' = Tail(fromClient) /\ toClient' = toClient
        /\ toAgent' = toAgent /\ taken' = taken
    BY <1>5 DEF RelayReceives, First
  <2>3. Lengthens(-1, 0, 0)
    BY <1>n, <2>2, OneLess DEF Lengthens
  <2>4. InFlight' <= InFlight - 9
    BY <2>2, <2>3, InFlightMoves
  <2> QED BY <1>1, <2>1, <2>4, RelayPays
<1>6. CASE RelayAccepts \/ RelayInternal
  <2>1. RelayWork' <= RelayWork - 1
    <3>1. CASE RelayAccepts
      BY <3>1, AcceptSpends DEF RelayAccepts
    <3>2. CASE \/ R!InitiateRaises(C) \/ R!Answered(C) \/ R!StartOKRaises(C)
               \/ R!ForwardRaises(C) \/ R!Disconnect(C) \/ R!JoinTimeout(C) \/ R!Joined(C)
      BY <3>2, HandlerSpends
    <3>3. CASE \/ R!ReaderStart(C) \/ R!ReaderWake(C) \/ R!ReaderSendRaises(C)
               \/ R!ReaderCancelled(C)
      BY <3>3, ReaderSpends
    <3>4. CASE \E a \in 1 .. MaxSessions : R!RecvDisconnect(a) \/ R!LoopDrop(a)
      BY <3>4, DisconnectSpends, LoopDropSpends
    <3> QED BY <1>6, <3>1, <3>2, <3>3, <3>4 DEF RelayInternal
  <2>2. fromClient' \in {fromClient, <<>>} \/ (fromClient # <<>> /\ fromClient' = Tail(fromClient))
    BY <1>6 DEF RelayAccepts, RelayInternal, First
  <2>3. toClient' = toClient /\ toAgent' = toAgent /\ taken' = taken
    BY <1>6 DEF RelayAccepts, RelayInternal
  <2>4. Len(fromClient') <= Len(fromClient) + 0
    <3>1. CASE fromClient' \in {fromClient, <<>>}
      BY <1>n, <3>1
    <3>2. CASE fromClient # <<>> /\ fromClient' = Tail(fromClient)
      <4>1. fromClient \in Seq(ToRelayMessages)
        BY DEF CoreInv, MessagesInv
      <4> QED BY <3>2, <4>1, ChannelTail
    <3> QED BY <2>2, <3>1, <3>2
  <2>5. Lengthens(0, 0, 0)
    BY <1>n, <2>3, <2>4 DEF Lengthens
  <2>6. InFlight' <= InFlight
    BY <2>3, <2>5, InFlightMoves
  <2> QED BY <1>1, <2>1, <2>6, RelayPays
<1>7. CASE RelayTakesAnswer \/ RelayTakesData \/ RelayTakesReset \/ RelayTakesLate
  <2>1. RelayWork' <= RelayWork + 3
    <3>1. CASE RelayTakesLate
      <4>1. UNCHANGED relayOwn
        BY <3>1 DEF RelayTakesLate, relayVars, relayOwn
      <4>2. RelayWork' = RelayWork
        BY <4>1, RelayKept
      <4> QED BY <1>2, <4>2
    <3>2. CASE RelayTakesAnswer \/ RelayTakesData \/ RelayTakesReset
      <4>1. \/ R!RecvAnswer(agentOf[C], C) \/ R!RecvData(agentOf[C], C)
            \/ R!RecvReset(agentOf[C], C)
        BY <3>2 DEF RelayTakesAnswer, RelayTakesData, RelayTakesReset
      <4>2. remote[C] # "none"
        BY <4>1 DEF R!RecvAnswer, R!RecvData, R!RecvReset
      <4>3. agentOf[C] \in 1 .. MaxSessions
        BY <4>2 DEF CoreInv, ComponentInv, MeetInv, RelayInv, R!TypeOK
      <4>4. RelayWork' <= RelayWork \/ RelayWork' <= RelayWork + 3
        BY <4>1, <4>3, TakesSpend
      <4> QED BY <1>2, <4>4
    <3> QED BY <1>7, <3>1, <3>2
  <2>2. /\ taken' = taken + 1 /\ fromClient' = fromClient /\ toClient' = toClient
        /\ toAgent' = toAgent
    BY <1>7 DEF RelayTakesAnswer, RelayTakesData, RelayTakesReset, RelayTakesLate, Take
  <2>3. Lengthens(0, 0, 0)
    BY <1>n, <2>2 DEF Lengthens
  <2>4. InFlight' <= InFlight - 4
    BY <2>2, <2>3, InFlightMoves
  <2> QED BY <1>1, <2>1, <2>4, RelayPays
<1> QED BY <1>3, <1>4, <1>5, <1>6, <1>7

\* What is left to do is a number, every step of the programs makes it smaller, and
\* typing, a target's data and failures add a bounded amount: the programs do only
\* finitely much between two events from outside, and then rest.
THEOREM ProgramsComeToRest == Spec => [](Work \in Nat) /\ [][WorkDone]_vars
<1>1. CoreInv /\ CoreInv' => WorkDone
  <2> SUFFICES ASSUME CoreInv, CoreInv' PROVE WorkDone
    OBVIOUS
  <2>1. ASSUME Progress PROVE Work' < Work
    <3>1. CASE \/ ClientStarts \/ ClientAccepted \/ ClientRefused \/ ClientShows
               \/ ClientEnds \/ ClientClosed
      BY <3>1, ClientSpends
    <3>2. CASE \/ RelayRejects \/ RelayAccepts \/ RelayInitiates \/ RelayConfirms \/ RelayRefuses
               \/ RelayReceives \/ RelayForwards \/ RelayCloses \/ RelayDelivers \/ RelayInternal
               \/ RelayTakesAnswer \/ RelayTakesData \/ RelayTakesReset \/ RelayTakesLate
      BY <3>2, RelaySpends
    <3>3. CASE \/ AgentConnects \/ AgentInitiates \/ AgentWrites \/ AgentCloses
               \/ AgentTakesLate \/ AgentInternal
      BY <3>3, AgentSpends
    <3> QED BY <2>1, <3>1, <3>2, <3>3 DEF Progress
  <2>2. ASSUME Failure \/ AgentFlushes PROVE Work' <= Work
    BY <2>2, ClientSpends, AgentSpends DEF Failure
  <2> QED BY <2>1, <2>2, ClientSpends, AgentSpends DEF WorkDone
<1>2. CoreInv /\ CoreInv' => [WorkDone]_vars
  BY <1>1
<1> QED BY <1>2, WorkIsNat, CoreHolds, PTL

=============================================================================

---------------------------- MODULE AgentSendLock ----------------------------
(***************************************************************************)
(* The lock under which the relay's tasks send to an edge agent's          *)
(* WebSocket (http_network_relay/network_relay.py, _agent_send_lock), and  *)
(* the flow of messages in both directions that decides when a send ends.  *)
(*                                                                         *)
(* Handlers of access clients, the keep-alive and the agent's own message  *)
(* loop share the WebSocket.  Its lock is an asyncio.Lock made on demand,  *)
(* which the message loop removes from the table when it has seen the      *)
(* disconnect, whoever still holds it or waits for it.  RelaySession takes *)
(* a send for one step that ends; this module shows what that rests on.    *)
(***************************************************************************)
EXTENDS Naturals, Sequences, SequencesExt

CONSTANTS
  Senders,   \* handlers, reader-less connections and the keep-alive
  Loop,      \* the task of _msg_loop
  Capacity,  \* messages under way in a direction before a send has to wait
  MaxOpen    \* bound: connections of the agent when it is lost

ASSUME LockOK == Loop \notin Senders /\ Capacity \in Nat \ {0} /\ MaxOpen \in Nat

Tasks == Senders \cup {Loop}

\* The table loses its entry once, so a second lock is the last one.
Locks == 1 .. 2
NoLock == 0

VARIABLES
  place,    \* each task: "idle", "wait" in acquire(), "send", or "done"
  mine,     \* the lock of each task's `async with`
  entry,    \* agent_connection_locks[websocket]
  made,     \* locks made so far
  locked,   \* Lock._locked
  waiters,  \* Lock._waiters
  socket,   \* "up", "broken", or "seen" once the relay received the disconnect
  todo,     \* connections the loop of a lost agent still has to close
  wire,     \* messages under way to the agent
  inbox,    \* messages under way to the relay
  agent     \* the agent's main task: "receive", or "report" in a send

lockVars == <<mine, entry, made, locked, waiters>>
flowVars == <<wire, inbox, agent>>
vars == <<place, lockVars, socket, todo, flowVars>>

Init ==
  /\ place = [t \in Tasks |-> "idle"]
  /\ mine = [t \in Tasks |-> NoLock]
  /\ entry = NoLock /\ made = 0
  /\ locked = [l \in Locks |-> FALSE]
  /\ waiters = [l \in Locks |-> <<>>]
  /\ socket = "up" /\ todo = 0
  /\ wire = 0 /\ inbox = 0 /\ agent = "receive"

-----------------------------------------------------------------------------
(* The lock.                                                               *)

Goto(t, p) == place' = [place EXCEPT ![t] = p]

\* _agent_send_lock: the lock of the table, or a new one that is put there.
TheLock == IF entry # NoLock THEN entry ELSE made + 1

GetLock(t) ==
  /\ mine' = [mine EXCEPT ![t] = TheLock]
  /\ entry' = TheLock
  /\ made' = IF entry # NoLock THEN made ELSE made + 1

\* The task has the lock l and calls send, which raises without an await once
\* the relay has received the disconnect: the lock is released at once.
Begin(t, l) ==
  IF socket = "seen"
  THEN Goto(t, "idle") /\ UNCHANGED locked
  ELSE Goto(t, "send") /\ locked' = [locked EXCEPT ![l] = TRUE]

\* Acquire that looks at _locked only.
AcquireBarging(t) ==
  LET l == TheLock
  IN  /\ GetLock(t)
      /\ IF ~ locked[l]
         THEN Begin(t, l) /\ UNCHANGED waiters
         ELSE /\ waiters' = [waiters EXCEPT ![l] = Append(@, t)]
              /\ Goto(t, "wait") /\ UNCHANGED locked

\* async with: acquire() waits while the lock is held, and also behind those
\* that wait already, one of which may have been woken but not have run yet.
Acquire(t) ==
  LET l == TheLock
  IN  /\ GetLock(t)
      /\ IF ~ locked[l] /\ waiters[l] = <<>>
         THEN Begin(t, l) /\ UNCHANGED waiters
         ELSE /\ waiters' = [waiters EXCEPT ![l] = Append(@, t)]
              /\ Goto(t, "wait") /\ UNCHANGED locked

\* Granted that leaves the task among the waiters.
GrantedStillWaiting(t) ==
  /\ place[t] = "wait" /\ ~ locked[mine[t]] /\ Head(waiters[mine[t]]) = t
  /\ Begin(t, mine[t])
  /\ UNCHANGED <<mine, entry, made, waiters, socket, todo, flowVars>>

\* The first waiter of a released lock runs.
Granted(t) ==
  /\ place[t] = "wait" /\ ~ locked[mine[t]] /\ Head(waiters[mine[t]]) = t
  /\ waiters' = [waiters EXCEPT ![mine[t]] = Tail(@)]
  /\ Begin(t, mine[t])
  /\ UNCHANGED <<mine, entry, made, socket, todo, flowVars>>

\* A release that also removes the lock from the table.
ReleaseAndForget(t) ==
  /\ locked' = [locked EXCEPT ![mine[t]] = FALSE]
  /\ entry' = NoLock
  /\ Goto(t, "idle")
  /\ UNCHANGED <<mine, made, waiters>>

\* The send ended or raised: __aexit__ releases the lock.
Release(t) ==
  /\ locked' = [locked EXCEPT ![mine[t]] = FALSE]
  /\ Goto(t, "idle")
  /\ UNCHANGED <<mine, entry, made, waiters>>

SendEnds(t) ==
  /\ place[t] = "send" /\ socket = "up" /\ wire < Capacity
  /\ wire' = wire + 1
  /\ Release(t)
  /\ UNCHANGED <<socket, todo, inbox, agent>>

\* An exception that leaves the lock locked.
SendRaisesLocked(t) ==
  /\ place[t] = "send" /\ socket # "up"
  /\ Goto(t, "idle")
  /\ UNCHANGED <<lockVars, socket, todo, flowVars>>

SendRaises(t) ==
  /\ place[t] = "send" /\ socket # "up"
  /\ Release(t)
  /\ UNCHANGED <<socket, todo, flowVars>>

-----------------------------------------------------------------------------
(* The tasks.                                                              *)

\* A handler sends an initiate, data or close message, or the keep-alive sends.
Ask(t) ==
  /\ t \in Senders /\ place[t] = "idle"
  /\ Acquire(t)
  /\ UNCHANGED <<socket, todo, flowVars>>

\* A message that the loop answers with none.
LoopTakes ==
  /\ place[Loop] = "idle" /\ socket # "seen" /\ inbox > 0
  /\ inbox' = inbox - 1
  /\ UNCHANGED <<place, lockVars, socket, todo, wire, agent>>

\* A reset: close_relayed_connection tells the agent.
LoopTakesReset ==
  /\ place[Loop] = "idle" /\ socket # "seen" /\ inbox > 0
  /\ inbox' = inbox - 1
  /\ Acquire(Loop)
  /\ UNCHANGED <<socket, todo, wire, agent>>

\* The disconnect comes behind the messages: edge_agent_connection_close.
LoopSeesLoss ==
  /\ place[Loop] = "idle" /\ socket = "broken" /\ inbox = 0
  /\ socket' = "seen"
  /\ todo' \in 0 .. MaxOpen
  /\ UNCHANGED <<place, lockVars, flowVars>>

LoopCloses ==
  /\ place[Loop] = "idle" /\ socket = "seen" /\ todo > 0
  /\ todo' = todo - 1
  /\ Acquire(Loop)
  /\ UNCHANGED <<socket, flowVars>>

\* agent_connection_locks.pop, and the loop ends.
LoopPops ==
  /\ place[Loop] = "idle" /\ socket = "seen" /\ todo = 0
  /\ entry' = NoLock
  /\ Goto(Loop, "done")
  /\ UNCHANGED <<mine, made, locked, waiters, socket, todo, flowVars>>

-----------------------------------------------------------------------------
(* The agent and the network.                                              *)

\* The agent handles a message, and may have to report something about it.
AgentTakes ==
  /\ socket = "up" /\ agent = "receive" /\ wire > 0
  /\ wire' = wire - 1 /\ agent' \in {"receive", "report"}
  /\ UNCHANGED <<place, lockVars, socket, todo, inbox>>

AgentReports ==
  /\ socket = "up" /\ agent = "report" /\ inbox < Capacity
  /\ inbox' = inbox + 1 /\ agent' = "receive"
  /\ UNCHANGED <<place, lockVars, socket, todo, wire>>

\* A reader of the agent sends data, or the keep-alive of the agent.
AgentSends ==
  /\ socket = "up" /\ inbox < Capacity
  /\ inbox' = inbox + 1
  /\ UNCHANGED <<place, lockVars, socket, todo, wire, agent>>

\* The pings of the two WebSocket libraries: an end that does not read does not
\* answer them either.
NoPing(full) == FALSE /\ full /\ UNCHANGED vars

PingTimeout(full) ==
  /\ socket = "up" /\ full
  /\ socket' = "broken"
  /\ UNCHANGED <<place, lockVars, todo, flowVars>>

ConnectionLost ==
  /\ socket = "up"
  /\ socket' = "broken"
  /\ UNCHANGED <<place, lockVars, todo, flowVars>>

-----------------------------------------------------------------------------
LoopStep == LoopTakes \/ LoopTakesReset \/ LoopSeesLoss \/ LoopCloses \/ LoopPops

Next ==
  \/ \E t \in Tasks : Ask(t) \/ Granted(t) \/ SendEnds(t) \/ SendRaises(t)
  \/ LoopStep
  \/ AgentTakes \/ AgentReports \/ AgentSends
  \/ PingTimeout(wire = Capacity) \/ PingTimeout(inbox = Capacity)
  \/ ConnectionLost

Spec == Init /\ [][Next]_vars

\* asyncio runs what is ready, on both sides, and a ping that stays unanswered
\* times out.  A send is not assumed to end.
FairSpec ==
  /\ Spec
  /\ \A t \in Tasks : WF_vars(Granted(t)) /\ WF_vars(SendEnds(t) \/ SendRaises(t))
  /\ WF_vars(LoopStep)
  /\ WF_vars(AgentTakes) /\ SF_vars(AgentReports)
  /\ WF_vars(PingTimeout(wire = Capacity)) /\ WF_vars(PingTimeout(inbox = Capacity))

-----------------------------------------------------------------------------
\* Every variable keeps its type, the table makes at most two locks, and a task
\* is among the waiters of its lock exactly while it waits.
TypeOK ==
  /\ place \in [Tasks -> {"idle", "wait", "send", "done"}]
  /\ mine \in [Tasks -> Locks \cup {NoLock}]
  /\ entry \in Locks \cup {NoLock} /\ made \in 0 .. 2
  /\ locked \in [Locks -> BOOLEAN] /\ waiters \in [Locks -> Seq(Tasks)]
  /\ socket \in {"up", "broken", "seen"} /\ todo \in 0 .. MaxOpen
  /\ wire \in 0 .. Capacity /\ inbox \in 0 .. Capacity
  /\ agent \in {"receive", "report"}
  /\ \A t \in Tasks, l \in Locks :
       t \in Range(waiters[l]) <=> place[t] = "wait" /\ mine[t] = l

Sending == {t \in Tasks : place[t] = "send"}

\* tests/test_run_all.py:359, "concurrent send on one agent connection": the
\* WebSocket never has two sends in progress, also when its lock leaves the
\* table under those that hold it and wait for it.
OneWriter == \A s, t \in Sending : s = t

\* Mutual exclusion and the order of sends: the tasks see a SendQueue, of the
\* task that sends and those that wait.  None ever waits for a second lock.
InService == IF Sending = {} THEN <<>> ELSE <<CHOOSE t \in Sending : TRUE>>
Q == INSTANCE SendQueue WITH queue <- InService \o waiters[1]
ServedInOrder == Q!Spec

\* A task that wants to send gets through or fails: no sender is overtaken for
\* ever, forgotten with a removed lock, or stuck in a send.  The relay and the
\* agent may each wait for the other to read, until a ping times out.
SendsEnd == \A t \in Tasks : place[t] \in {"wait", "send"} ~> place[t] \in {"idle", "done"}

\* The loss of an agent is seen by its loop, which ends, whoever holds the lock.
LossIsHandled == socket # "up" ~> place[Loop] = "done"

=============================================================================

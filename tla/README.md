# http-network-relay in TLA+

`http-network-relay` tunnels TCP connections over WebSockets. Three programs
take part. An **edge agent** on a private network keeps one WebSocket open to
the **relay** and opens TCP connections to targets for it. An **access client**
(for example an SSH `ProxyCommand`) opens a WebSocket to the relay for one TCP
connection and pumps its standard input and output. The **relay** couples them:
it multiplexes all connections of an agent over the agent's one WebSocket.

This directory holds TLA+ modules for that system, TLC configurations that
check them on small instances, and TLAPS proofs for every value of the
constants. Source references are `file:line` under `http_network_relay/`.

## 1. The system

### Components, their state and their operations

| Component | State | Operations |
| --- | --- | --- |
| `NetworkRelay` sessions (`network_relay.py:438-613, 625-782`) | `active_relayed_connections`, `active_access_client_connections`, `initiate_connection_answer_queues`; one handler task and one reader task per client, one message-loop task per agent | accept and check a client, create a connection, wait for the agent's answer, confirm to the client, forward, deliver, reset, close, drop, join the reader |
| `TcpConnectionAsync` (`:154-226`) | `recv_buffer`, an `asyncio.Event` | `fill_recv`, `read`, `send`, `close`, `wake_readers` |
| `TcpConnection` (`:48-151`) | receive and send buffers, each with a `threading.Lock`, a `threading.Event` | `recv`, `send`, `send_async`, `fill_recv`, `close`, `wake_readers` |
| Agent registration (`:261-393, 796-819`) | `registered_agent_connections`, `agent_connection_id_to_supports_binary`, `agent_connections` | accept, register, refuse a duplicate, message loop, keep-alive, unregister |
| Send lock (`:254-259` and its five users) | `agent_connection_locks`, a FIFO `asyncio.Lock` per agent WebSocket | create on demand, acquire, release, remove |
| `EdgeAgent` (`edge_agent.py`) | `active_connections`, `websocket`, backoff | connect and reconnect, receive loop, initiate, write to a target, read from a target, reset, keep-alive |
| `AccessClient` (`access_client.py:71-160`) | none across connections | start exchange, two pumps |
| Messages and framing (`pydantic_models.py`) | none | JSON data classes; a binary frame is the 16-byte connection id and the payload |
| Logging, command line, credentials, build files | none the protocol depends on | not modelled |

### How they interact

Peers talk over WebSockets only: FIFO streams that may break at any time, with
either side noticing later than the other. Inside the relay everything is
shared state on one asyncio event loop; a task runs alone between two awaits,
so every interleaving of the program is an interleaving of such stretches. The
exception is `TcpConnection`, which other threads use: there the interleaving
is as fine as the unlocked accesses.

### What is hard

* **Teardown has five initiators** for one connection: the client leaves, the
  target closes (the agent's reset), the agent's WebSocket is lost, a send to
  either side fails, the reader gives up. They overlap in any order, each across
  several awaits, and must remove the table entries, close the other side, wake
  the reader and not touch any other connection.
* **Creation overlaps teardown**: the connection is in the table before the
  agent has answered and before its client is registered.
* **A reader parks on an event** that only data and drops set.
* **Locks across awaits and threads**: the agent's send lock, and the
  `threading.Lock` that `send_async` keeps while it is suspended.
* **Names outlive sockets**: an agent reconnects under its name while the relay
  may still hold the old WebSocket.

The file `PROJECT.json` lists every such hazard with its line and the properties
that cover it.

### What makes each component correct

* Sessions: no lost wake-up, no stale entry after an agent's or a client's end,
  no teardown without a cause, no orphaned target connection, an intact byte
  stream, handlers that end, clients that learn of the end of their target.
* `TcpConnection`: intact streams in both directions, `EOFError` only at the end,
  `recv` never stuck on a dropped connection, an event loop that never blocks.
* Registration: a registered name has a live message loop, unless that raised; a
  name whose socket is dead can be taken again; and, by the comment at
  `network_relay.py:249`, the binary flag is that of the registered agent. The last
  is not so (section 4).
* Send lock: one writer per WebSocket, in order of arrival, each eventually.
* Edge agent: a target connection is open exactly while it is in
  `active_connections`; one connection's failure never ends the session.
* Access client: nothing is read from standard input before the target is
  connected, and what the relay delivers is put out in order.
* All three together: a byte tunnel. No byte is lost, duplicated or reordered
  between two live ends, and an end that goes takes the other with it.

## 2. Plan

| Step | Module | Content | Status |
| --- | --- | --- | --- |
| 1 | `RelaySession`, `MCRelaySession`, `RelaySessionProofs` | sessions and `TcpConnectionAsync` | done |
| 2 | `ThreadedTcpConnection`, `ThreadedTcpConnectionProofs` | `TcpConnection` with its threads | done |
| 3 | `AgentRegistry`, `AgentRegistryProofs` | registration by name, duplicates, crashes of the message loop, reconnects | done |
| 4 | `EdgeAgent`, `EdgeAgentProofs` | the agent's sessions and its target connections | done, without the backoff's delays |
| 5 | `AgentSendLock`, `SendQueue`, `AgentSendLockProofs` | the FIFO lock, its creation and removal, sockets that fill up; refines `SendQueue` | done |
| 6 | `AccessClient`, `Tunnel`, `RelaySystem`, `RelaySystemProofs` | the client; the abstract two-way byte tunnel; composition of client, session and agent over channels, which implements it | done |
| 7 | `Framing`, `FramingProofs` | the binary frame, used by `RelaySystem` | done |

`Chunks` defines the contents of a stream for the modules that number chunks;
`ChunkLemmas` proves what the stream proofs need of sequences.

Every invariant, action property and refinement that the passing runs check is a
theorem, but for `StopsOnlyAtRest`, which speaks of `ENABLED`; that and the
liveness properties stay with TLC.

## 3. The modules

### `RelaySession`

One handler creates at most one connection, under a fresh UUID, so a connection
is named by its access client. An agent is one WebSocket connection. Three kinds
of task act:

* `hpc[c]` is where `ws_for_access_clients` of client `c` is suspended: at its
  start (`start`), in the send of the initiate message (`initiate`), in
  `response_queue.get()` (`answer`), in the send of StartOK (`start_ok`) or of
  the error (`refused`), in `receive()` (`receive`), in `connection.send`
  (`forward`), in `connection.close()` (`close`), in `_await_reader` (`join`,
  `cancel_join`); `done` when it returned, `crashed` when it raised, which its
  reader outlives.
* `rpc[c]` is the reader task `access_client_receive_thread`: created (`start`),
  parked in `event.wait()` (`wait`), in a send to the client (`send`), or `done`.
* `lpc[a]` is `_msg_loop` of agent `a`: in `receive()` (`receive`), in the close
  message to the agent (`close`) or the close of the client's socket (`drop`) of
  `close_relayed_connection` for `cur[a]`, with `pending[a]` the rest of the copy
  that `edge_agent_connection_close` iterates over; `done` when it returned,
  `raised` when an exception left it, with its agent still registered and its
  connections in the table.

Tables are sets (`registered`, `relayed`, `accessClients`); `buf`, `event` and
`hand` are the receive buffer, its event, and what the reader is sending;
`remote[c]` is the agent's end of the connection as the relay can observe it.
Chunks are numbered so that loss, duplication and reordering show.

| Action | Code |
| --- | --- |
| `StartAccepted`, `InitiateSent/Raises`, `Answered`, `StartOK/Raises`, `Refused`, `RejectStart` | `ws_for_access_clients:626-697`, `_create_connection`, `send_message_and_wait_for_answer` |
| `ReceiveData`, `MessageRaises`, `Forwarded`, `ForwardRaises`, `Disconnect`, `HandlerClose`, `JoinTimeout`, `Joined` | `:698-750` |
| `ReaderStart`, `ReaderWake`, `ReaderSent`, `ReaderSendRaises`, `ReaderCancelled` | `:752-782` and `TcpConnectionAsync.read` |
| `RecvAnswer`, `RecvData`, `RecvReset`, `RecvDisconnect`, `LoopRaises`, `LoopClose`, `LoopDrop` | `_msg_loop`, `handle_*`, `edge_agent_connection_close`, `close_relayed_connection` |
| `AgentJoins`, `AgentLeaves`, `ClientLeaves` | the peers |

Abstractions. A send to a peer completes or raises in one step; it may raise
only when the peer is gone and must raise once the relay has received the
disconnect. What a peer has sent is received without an explicit queue, so a
peer that is gone may still have messages under way. The copy of the table is
visited in any order. Peers follow the protocol (at most one answer, data after
the answer, one reset), or send what cannot be parsed: `MessageRaises` is text
of a client that is no message or not base64, `LoopRaises` a frame of an agent
that is too short or text that is no message; each may come at any receive. Two
of the model's assumptions about libraries: an ASGI server closes the socket of
a handler or loop that raises, and closing a socket twice raises only the error
the code swallows.

### `ThreadedTcpConnection`

One `TcpConnection`. `rpc[r]` walks through `recv()` between its accesses to
shared state: take `recv_buffer_lock` and look at the buffer, read `closed`,
clear the event, wait, take the slice, store the rest. The event loop is one
thread: it fills the buffer (waiting for the lock), pops the table entry and sets
the event in two steps without the lock, and runs `send_async`, which keeps
`send_buffer_lock` while suspended. `StartSendBlocks` is the step in which the
loop's only thread blocks on that lock: the holder is a coroutine of the same
loop, so nothing can release it, and the model has no step out of it either.

### `AgentRegistry`

`tpc[s]` is the handler `ws_for_edge_agents` of socket `s`: in `receive_text`
(`hello`), in the application's permission hook (`permission`), in its message
loop (`serve`), closing its agent's connections (`close`), `returned` or
`raised`. `registered`, `framing` and `listed` are the tables keyed by name and
the list of sockets; `supports[s]` is what the start message announced.

| Action | Code |
| --- | --- |
| `Accept`, `Hello`, `HelloFails`, `Denied`, `Register`, `Duplicate` | `accept_ws_and_start_msg_loop_for_edge_agents:261-342` |
| `Malformed`, `Disconnect`, `Closed` | `_msg_loop:353-379`, `edge_agent_connection_close:799-819` |

From the answer of the hook to the table entries there is no await, so
`Register` is one step, and so are the table updates of
`edge_agent_connection_close`, which precede its first await. `Duplicate` always
raises: line 300 reads an attribute `closed`, which Starlette's `WebSocket` does
not have. `Malformed` stands for every exception that leaves `_msg_loop`: text
that does not parse and frames too short for an id.

### `EdgeAgent`

`mpc` is the one task that connects, handles messages and cleans up: in `recv()`
(`receive`), `open_connection` (`connect`), `drain()` (`drain`), in a send of
OK, Error or Reset (`confirm`, `refuse`, `report`), leaving the session
(`leave`), or between sessions (`down`). `rpc[c]` is the reader task of
connection `c`: in `read()`, in a send, in the send of its reset (`report`).
`active` is `active_connections`; `writer[c]` is `closed` once `close()` was
called on the `StreamWriter`; `output[c]` says whether what was written is all
taken by the target (`none`), is waiting (`some`), or is above the high-water
mark (`full`), where `drain()` waits; `target[c]` is the target's end as far as
the transport has noticed it; `born[c]` is the session whose WebSocket the
reader holds, `sent[c]` what the relay was sent about `c`. Connections are
numbered in the order of their requests.

| Action | Code |
| --- | --- |
| `Connect`, `ReceiveRaises`, `Unparsable`, `CleanUp` | `async_main`, `connect_to_server:81-142` |
| `Initiate`, `Connected`, `ConnectFails`, `Confirmed`, `Reported`, `MainSendRaises` | `:144-160`, `initiate_connection` |
| `RelayCloses`, `WriteData`, `Drained`, `DrainReset`, `DrainFails` | `:167-189`, `write_to_connection` |
| `ReaderData`, `ReaderSent`, `ReaderEnds`, `ReaderSendRaises`, `ReaderDone` | `read_from_tcp_and_send` |

A target that fails does so with `ConnectionResetError` (`reset`) or another
`OSError` (`failed`); `drain()` may raise whatever the target's state holds, or
return, the latter not while the output is `full`. A transport that was closed
with output waiting lives on until the target has taken it (`TargetReads`) or
has reset the connection: only then does `read()` see the end, the reader end
and the descriptor go. Until then it reads no more, so no end of the stream.
`AnswerComesFirst` is what `RelaySession` assumes of an agent; the second of two
resets finds no connection in the relay's table, because one message loop
handles both and drops the connection on the first.

### `AgentSendLock`

Handlers, the keep-alive and the agent's message loop send to one WebSocket under
an `asyncio.Lock` that `_agent_send_lock` makes on demand. `place[t]` says whether
task `t` is idle, waits in `acquire()` or is inside the send; `mine[t]` is the
lock its `async with` holds on to, `entry` the one in `agent_connection_locks`.
`LoopPops` removes the entry while others may hold the lock or wait for it, and
the next sender makes a second one. `asyncio.Lock` is modelled as it works: a
release wakes the first waiter, which runs later, and whoever comes in between
queues up behind it. The two directions of the WebSocket are counters with a
`Capacity`: a send waits while its direction is full, the agent's main task may
wait in a report of its own, and pings break a socket one end of which no longer
reads. Once the relay has received the disconnect (`socket = "seen"`) a send
raises without an await, which is what keeps a second lock harmless.

| Action | Code |
| --- | --- |
| `Ask`, `Acquire`, `Granted`, `Release`, `SendEnds`, `SendRaises` | the five `async with self._agent_send_lock(...)` |
| `LoopTakes`, `LoopTakesReset`, `LoopSeesLoss`, `LoopCloses`, `LoopPops` | `_msg_loop`, `handle_connection_reset_message`, `edge_agent_connection_close` |
| `AgentTakes`, `AgentReports`, `AgentSends`, `PingTimeout`, `ConnectionLost` | the agent and the network |

`SendQueue` is the abstraction: one queue whose head is sending.

### `AccessClient`, `Framing`

`apc` is `async_main` of the client: before the connect (`start`), in the `recv`
of the answer (`answer`), in the `recv` of the pump (`pump`), `done`. The pump of
standard input has no state of its own but the count of what it has sent. The end
of the input is not an action: the client types no more, and the code tells
nobody. `Framing` has the two functions of `pydantic_models.py` over sequences of
bytes; `IdLength` is 16 in the code.

### `RelaySystem`

One connection from end to end: the module INSTANCEs `AccessClient`,
`RelaySession` and `EdgeAgent` (the latter two through their modules of proofs,
so that `RelaySystemProofs` can cite what was proved of the parts), shares no
variable between them, and adds the channels `fromClient`, `toClient`,
`toAgent`; the agent's messages are its history `sent` and the number `taken`
the relay has received of it. Each action is an action of one component,
together with what it appends to or takes from a channel; an action that opens
or breaks a WebSocket is joint. Data to the agent goes through
`encode_tcp_binary_frame` and the agent writes what `PayloadOf` returns. A break
shows at the two ends at different times, and messages under way may still
arrive or be lost. `AgentFlushes` is the target taking what was written to it,
which it may never do. The programs send nothing that a peer cannot parse, so
`MessageRaises`, `LoopRaises` and `Unparsable` are no steps here.
`RelayTakesLate` and `AgentTakesLate` are the early returns for connections that
are not in the tables.

`Tunnel` is what the users see: who asked, what was typed, written, emitted and
shown, and who has left.

`BytesConserved` speaks of the buffers between the ends piece by piece:
`EndToEnd(pieces, m, n)` of `Chunks` says that the pieces are consecutive blocks
of chunks, from the one after `m` to `n`; the channels are read through `Contents`
and, where there are frames, through `Framed`, which decodes them.

## 4. The runs

| Run | Instance | What it shows |
| --- | --- | --- |
| `sess_safety` | 2 agents, 2 clients, no target data, symmetric | all control interleavings, raising handlers and loops included: `AgentGoneClean`, `NoUncausedTeardown` |
| `sess_stream` | 1 agent, 1 client, 3 chunks, reads of 2, fairness | `NoLostWakeup`, `StreamIntact`, `NoUncausedTeardown`, `NoOrphanAtAgent`, `CleanReturn`, `HandlerReturns`, `TargetLossReachesClient` |
| `sess_leak` | 1 agent, 1 client | violated: an ended handler leaves an entry behind |
| `sess_tail` | 1 agent, 1 client, 2 chunks | violated: data received before the target's close is not delivered |
| `thread_pass` | 1 reader with a timeout, 2 writers, 3 chunks each way | both streams intact, `EOFError` only at the end, a drop reaches the reader |
| `thread_lost_wakeup` | 1 reader without a timeout | violated: `recv` sleeps through the drop |
| `registry_pass` | 3 sockets, 2 names, fairness | `OneLoopPerName`, `OnlyOwnLoopUnregisters`, `NameComesFree` |
| `registry_takeover` | the same | violated: a dead agent is not replaced |
| `edge_pass` | 2 connections, 2 sessions, 1 chunk each, fairness | `NoLeakedWriter`, `SessionOwnsConnections`, `AnswerComesFirst`, `EndReported`, `LossNoticed` |
| `edge_session` | the same | violated: one target's reset ends the session |
| `system_pass` | 1 client, 1 connection, 2 sessions, 3 events of typing, target data, failure or reconnect | the refinement `Tunnels`; `PeersKeepProtocol`, `BytesConserved`, `ClientEndClosesTarget`, `TargetEndReachesClient`, `ChunksArrive`, `StopsOnlyAtRest`, `DropTellsClient` |
| `lock_pass` | 3 senders and the loop, capacity 1, 2 connections to close, fairness | `OneWriter`, the refinement `ServedInOrder`, `SendsEnd`, `LossIsHandled` |

Bounds. Two agents and two clients are the least with which an agent has several
connections to close and there are connections of another agent to leave alone.
The data of a connection never influences another connection, so the stream is
checked with one connection; three chunks with reads of two give a full read, a
partial read and a rest. In `sess_safety` no data comes from the targets, so no
reader ever sends, and no reader drops a connection or is stuck: what readers
have a part in (`NoOrphanAtAgent`, `CleanReturn`, and `NoUncausedTeardown` once
more) is checked in `sess_stream`, where one connection is enough, since a
reader touches only its own. Three sockets are the least with which one name
sees an old loop closing, a registered agent and a duplicate at once, and two
names show that a name's traffic leaves the other alone. Two target connections
let one fail while the main task handles the other; two sessions let the readers
of the first run on in the second; one chunk lets a reader be in a send when its
connection ends. `system_pass` bounds all that users, targets and the network do
by one budget (but for a target that reads on, which only takes what was
written), `MaxEvents`: what the programs do in response is unbounded. Three
events are the least with which a chunk in each direction is under way when
something breaks, or two ends break around a chunk, or the agent comes back
between. In `lock_pass` three senders give one that holds the removed lock, one
that waits for it and one that makes the next; a capacity of one makes every
second send wait. `MaxChunks`, `MaxFill` and `MaxWrites` bound only what the
environment does. Deadlock is not an error in these runs: clients and agents may
leave, and the system then rests.

### Fairness

`FairSpec` of `RelaySession` assumes that a task that can run does run
(asyncio's scheduling; a send to a dead peer ends because uvicorn's ping closes
the socket) and, strongly, that a message loop or handler in `receive()` gets to
a disconnect behind finitely many messages, though it leaves and re-enters
`receive()` meanwhile. The server closes the WebSocket of a loop that raised.
Agents and clients need not do anything: an agent may never answer an initiate
message, since its one main task may be held in `drain()` by another target. No
fairness is assumed of a reader's send to its client, which a slow client may
hold up for ever; `HandlerReturns` holds because the join is bounded, and names
the wait for an answer as its exception. `FairSpec` of `ThreadedTcpConnection`
lets the event loop and each reader run, the reader calling `recv()` again after
a timeout. `FairSpec` of `AgentRegistry` lets a loop see its disconnect and
finish. `FairSpec` of `EdgeAgent` lets readers and the main task run, ends every
connect (by the operating system's time-out at worst) and every send, and brings
the loss of the WebSocket to a main task that keeps returning to `recv()`. It
assumes nothing of the targets: one that does not read holds up `drain()` for
ever (the exception in `LossNoticed`), and the reader of a connection that was
closed with output waiting (which `EndReported` does not count as over).

`FairSpec` of `AgentSendLock` is weaker where it matters: no send is assumed to
end. A send ends when there is room, or raises when the socket is broken; the
agent goes on receiving unless it is in a report of its own; and a ping that the
other end does not answer times out (both WebSocket libraries ping by default).
`SendsEnd` then says that every send ends or raises, which is what lets
`RelaySession` take a send to an agent for one step that is taken.

`RelaySystem` states what must happen without fairness. `Progress` is all the
programs do on their own, and `AtRest` says task by task what each one waits for
when it waits: an empty channel, an empty queue, an event nobody set, a peer
that is down, or a target that does not read, which holds the agent's main task
in `drain()` (`Held`) or a reader whose connection was closed. `StopsOnlyAtRest`
checks that the programs can do nothing exactly there, so that no two of them
wait for each other and no message reaches a task in a place where it does not
take it. `ClientEndClosesTarget`, `TargetEndReachesClient` and `ChunksArrive`
say what cannot be at rest; `Held` is an exception in the first, where the
relay's close then waits in the channel, and in the half of the last that is
about what was typed. That is liveness since `Progress` cannot go on for ever
between two events from outside, which is proved (`ProgramsComeToRest`, section
5). That a step of `Progress` is taken where one is possible is the one fairness
needed: all three run on asyncio, whose loop runs what is ready, and a send or a
connect ends or raises.

### What the violations say

* **Leak** (`network_relay.py:683`). A refused initiate makes the handler raise
  `UnboundLocalError` instead of closing the connection; its entry stays in
  `active_relayed_connections` as long as the agent is connected.
* **Lost tail** (`:598`, `:758`). Closing is not ordered behind delivery.
* **Lost wake-up** (`:105-108`). The threaded `recv` can clear the event of a drop.
* **No takeover** (`:300`). The look at the old socket raises; a name whose loop
  raised (`:368`, `:379`) stays taken until the relay restarts.
* **Session lost to one target** (`edge_agent.py:218`). `del` after an await that
  let the reader pop the same entry; the `KeyError` ends the session.

One more divergence the models have and no run states: **the framing flag**. The
comment at `network_relay.py:249` says the table holds "whether that agent negotiated
binary framing". Line 293 stores the flag of a socket before line 298 looks whether its
name is taken (`RecordFraming` in `Duplicate` of `AgentRegistry`): the duplicate is
refused, its flag stays, and connections created for the registered agent from then on
(`:450`) are framed as the duplicate asked. A property that excuses the flags of refused
duplicates would say nothing of this, so there is none; the strict one,
`\A n \in Names : registered[n] # None => framing[n] = supports[registered[n]]`, is
false once two sockets with different flags have asked for one name.

Others are states the models reach but no documentation denies, and the passing
properties name them as exceptions. A handler that waits for an answer that is
not sent waits for ever, and so does its client (`:543`, in `HandlerReturns`). A
message loop that raised leaves its connections in the table, and their clients
are told nothing (`:368`, `:379`, in `AgentGoneClean` and
`TargetLossReachesClient`). A handler that raised over its client's text leaves
agent and reader as they are; the reader's next send fails and drops the
connection, and no close is sent (`:715`, `:720`, in `NoOrphanAtAgent`). While
one target does not read, the agent's main task handles nothing else: no close,
no loss of the session (`edge_agent.py:211`, in `ClientEndClosesTarget`,
`ChunksArrive` and `LossNoticed`), and where such a connection is closed its
reader stays (`:258`, in `EndReported`). A handler whose client is gone when
StartOK is sent raises and leaves the connection open at the agent until the
agent's session ends (`:668`, in `ClientEndClosesTarget`). A connection that is
dropped after it was confirmed and before its client is registered ends without
a word to the client (`:692`, in `DropTellsClient`). Where the message loop of a
lost agent has removed the lock and a handler asks for one again, the new entry
stays in `agent_connection_locks` (`:819`). A crash while forwarding leaves
`active_access_client_connections` with a stale entry (`ForwardRaises`), and two
overlapping sends on one `TcpConnection` stop the event loop
(`StartSendBlocks`).

## 5. The proofs

`RelaySessionProofs` proves for every finite or infinite set of agents and
clients, every `MaxChunks` and every positive `ReadSize` (assumption
`ConstantsOK`, checked by TLC in every run of the module):

* `TypeCorrect`: `TypeOK` is inductive.
* `NoLostWakeupHolds`: inductive together with `TypeOK`; the one lemma worth
  naming is `DropWakes`, that removing a connection wakes its reader.
* `AgentGoneCleanHolds`: needs `CoverInv`, since the property speaks of the end
  of a loop and says nothing of its middle: an active connection belongs to a
  registered agent, or the loop of its lost agent is closing it or still has it
  on its list; and `LoopInv`, that a loop has unregistered its agent before it
  returns, and that one that raised has not, which is what makes the exception of
  the property exact. `CloseNextCovers` is the lemma about one turn of the loop.
* `NoUncausedTeardownHolds`: needs `CauseInv`, which traces the cause of a drop
  back to where it arose: a listed connection, a closing handler, a reader whose
  client's socket was closed each already have one; and `ProgressInv`, which
  ties a handler's place to the existence of its connection and reader.
  `CauseStable` says that a cause once given remains, that of a handler that raised
  included (`CrashStays`): the server closes its client's socket, and the reader that
  drops the connection over that has its cause in the handler.
* `SessionInvHolds` is the conjunction of these strengthenings.
* `CleanReturnHolds`: needs `ReturnInv`, that a handler has left both tables
  before it closes and has waited for its reader before it returns.
* `NoOrphanAtAgentHolds`: the property speaks of connections that are no longer
  active, so the argument is about who may have dropped them. `OrphanOK` says that
  before the agent has answered, the relay drops nothing of a live agent; that a
  loop drops only what has lost its agent or its target is the conjunct of
  `CauseInv` used in `LoopDropsLost`; that leaves the handler, which sends the
  close, and the reader, which drops only when its client's socket is finished, so
  that the handler will come to its close or has raised. For the latter `OrphanOK`
  says that a connection with a reader whose handler raised is dropped by that reader
  alone and with its end, so that the exception covers nothing else. `PeersStayGone`
  and `ClosesStay` make each reason last.
* `StreamIntactHolds`: delivered, taken and buffered chunks together (`Through`)
  are what the agent sent while the connection is active; `StreamOK` adds that
  this remains free of gaps until the reader ends, when what the reader had in
  hand may be lost but nothing is delivered any more. Steps of a reader take
  `Through` apart differently without changing it (`ReadKeeps`, from
  `TakeSplits`), and new data extends it by the next number.
* `WaitInductive`, which `RelaySystemProofs` needs: what a waiting handler can rely
  on. One that waits for an answer with none in its queue waits for an agent that
  has not answered, one that is past its close has closed its client's WebSocket
  and sent the close to an agent that is there, and an agent that is there is
  registered.

`ThreadedTcpConnectionProofs`, for every set of readers and writers and every
size of `recv()` (assumption `ThreadsOK`): `TypeCorrect`, which includes that the
receive buffer's lock excludes; `RecvIntactHolds`, with the rest of a slice
standing for the buffer until it is stored; `SendIntactHolds`, with `IdleInv`,
that nothing is in flight while the send buffer's lock is free; and
`EOFMeansEndHolds` for a single reader, whose `WokenInv` says that a reader that
was woken finds data or an end. It is false for two readers: the first may take
all that woke the second.

`ChunkLemmas` has the facts about sequences: concatenation can be regrouped, a
slice and its rest make up the whole, a part at the front of a gapless stream
is gapless, and what happens to `EndToEnd` when a piece is added, removed or when
two lists of pieces meet.

`AgentRegistryProofs`, for every set of sockets and of names (assumption
`NoneOK`): `TypeCorrect`; `OneLoopPerNameHolds`, inductive with `TypeOK` and with
`ListedInv` (a socket is listed from its accept to the end of its loop); and the
action property `OnlyOwnLoopUnregistersHolds` from the same invariant, which for its
sake has `FramedInv`, that a registered name has some framing entry.

`EdgeAgentProofs`, for any number of connections, sessions and chunks (assumption
`EdgeOK`): `TypeCorrect`; `NoLeakedWriterHolds` and `SessionOwnsConnectionsHolds`,
inductive together with `ConnectInv`: a connect under way belongs to the session
that asked for it. The two need each other: that every active connection has a
task that will close it is false between sessions unless none is active then.
`AnswerComesFirstHolds` needs `AnswersInv`: nothing is sent about a connection
before its answer, and where the answer was lost with the session, so is all that
comes later; and the resets sent are at most `ResetsDue`, one for a reader that has
come to its report and one for whoever else closed the writer. That there are never
more than two is the sum. What was sent is counted by `Count`, the
cardinality of a set of positions, of which only the next value is needed
(`CountNext`). `EndInv`, which `RelaySystemProofs` needs, is about how a connection
ends: a reader that has come to its report has sent a reset as long as its session
lasts, no connection is open after one was sent, and an open connection without a
reader is being confirmed.

`AgentSendLockProofs`, for every set of senders, every capacity and every number
of open connections (assumption `LockOK`): `OneWriterHolds` and
`ServedInOrderHolds`. That a lock is exclusive does not exclude two writers, since
there may be two locks. The invariant says that the second lock is made only when
the socket is `seen`, where a task that gets a lock gives it up in the same step,
so the second is never held and nobody ever waits for it; and that whoever sends
holds its lock, and whoever waits is among its waiters exactly once. The refinement
then follows action by action: `Ask` is a `Submit`, the end of a send or a grant
that fails is a `SendOver`, everything else leaves the queue alone. `TypeCorrect`
follows from the same invariant, since `TypeOK` says of every lock, also of one
that left the table, who its waiters are.

`FramingProofs`, for every id length (assumption `IdLengthOK`):
`DecodeUndoesEncode` and `EncodeUndoesDecode`, that the two functions are inverse
to each other on ids of that length and frames that are long enough.

`RelaySystemProofs`, for any number of sessions, chunks and failures, any id length
and any size of a read (assumptions `SystemOK` and `IdLengthOK`). Every step of the
system is a step or a stutter of each component (`RelaySteps`, `AgentSteps`), so
`ComponentsImplemented` holds and the inductive invariants of `RelaySessionProofs`
and `EdgeAgentProofs` are cited, not proved again. What is new are the relations
between the components, each inductive with those before it:

| Invariant | What it says | Needed for |
| --- | --- | --- |
| `MeetInv` | both ends of a WebSocket agree on it; the relay knows no session before it began | everything |
| `MessagesInv` | the channels hold messages of the protocol, with one chunk in every frame | `TypeCorrect` |
| `CloseInv` | a loop drops a client's connection after closing its socket | `DropTellsClientHolds` |
| `ClientInv` | the client is sent its answer first and then only data | `PeersKeepProtocolHolds` |
| `AskedInv`, `AnsweredInv` | the request is the first message to the agent and its answer the first from it; after a reset the loop is dropping the connection | `PeersKeepProtocolHolds` |
| `OpenInv` | until the target is connected to, no task or message supposes that it is | `TunnelsHold` |
| `CountInv` | no end has more of the target's chunks than the one before it | `PeersKeepProtocolHolds`, `TunnelsHold` |
| `BornInv` | the session a connection was opened in is the one the relay asked | `BytesConservedHolds` |
| `ResetInv` | the relay knows of the end of a target exactly when it has taken a reset | the states of rest |
| `CrashInv` | no message loop raises here, and a handler that has a reader raises only because its agent is gone | `ClientEndClosesTargetHolds` |
| `HeldInv` | data goes to the agent, and is written, only for a connection whose client was confirmed (`Aware`) | the states of rest |
| `CloseUnderway` | once the close was sent to an agent that is there, it is in the channel as long as there is, or may still be, a connection to close | `ClientEndClosesTargetHolds` |
| `WriteInv`, `ShowInv` | what is in the channels of each direction are consecutive blocks of the stream, up to what the relay has | `BytesConservedHolds`, `TunnelsHold` |

`BytesConserved` is not inductive: it speaks of live ends only, while a chunk under
way to an end that is gone may still arrive there. `WriteInv` therefore says of
every state in which the target connection is not closed that the frames in the
channel to the agent continue what was written (`Underway`), and adds the handler
and the client's channel only while the agent's session is the one asked
(`Reaching`); `ShowInv` does the same for the other direction (`Arriving`), where
the reader's last chunk counts as delivered only while the client's WebSocket is
up. `BytesConservedHolds` joins those pieces with the reader's and the buffer's,
which the relay's own `StreamOK` supplies. `TunnelsHold` is the refinement, one
lemma per side (`TunnelClient`, `TunnelAgent`): `Type`, `Show`, `Write`, `Emit`,
`Open` and `HangUp` of `Tunnel` are taken by the client and the agent, the relay's
steps are stutters; the hard half is that `Show` and `Write` hand out chunks
that exist, for which the bounds of all pieces between are added up.

The three properties of states of rest follow from one invariant, `RestInv`: all
of the above, `ResetInv`, `CloseUnderway`, `CloseInv`, `CrashInv`, `HeldInv`,
and what the components contribute (`NoLostWakeup`, `OrphanInv` and `WaitInv` of
the relay, `EndInv` of the agent). None of them needs a bound on the number of
steps: that nothing is left to do is itself the hypothesis. `LinkRests` says
that where relay and agent rest and a session is up, the last message of the
agent was taken and nothing is in the channel to it, unless it is `Held`;
`HeldRests`, that the session of an agent that is `Held` for a client that is
still there is up; `RelayedRests`, that the message loop of a connection still
in the relay's table is in its receive; `OpenRests`, that the session of one
still open at its agent is up at both ends and the relay has taken its answer
and no reset. `ClientEndClosesTargetHolds` is then an argument about the handler
of an agent that is not `Held`: it can only be done or crashed; if it is done it
has sent the close (`WaitInv`), which cannot be on its way (`LinkRests`) and so
has been carried out (`CloseUnderway`); if it crashed it has no reader
(`CrashInv`), so that it raised before it had confirmed.
`TargetEndReachesClientHolds` needs that a reader that has ended has reported
(`EndInv`), that the relay has taken the report (`ResetInv`) and what it then
does with the entry. `ChunksArriveHolds` takes the stream of `BytesConserved`
apart: at rest every piece between the two ends is empty, so the ends have the
same number of chunks (`EmptyEnds`).

`ProgramsComeToRest` says that these states are reached, as far as that can be
said without fairness. `Work` weighs what is left to do: each place of a task,
message, chunk and table entry more than all that can be made of it (data typed
weighs 9 in the client's channel, 8 in the handler's hand, 7 on its way to the
agent, 6 while the agent drains; the start of the handler pays for the request,
the confirmation and the clean-up; a session pays for its loop at the relay).
`Work` is a natural number, every step of `Progress` makes it smaller, typing
adds at most 9, data of the target at most 5, a failure or a target that reads
on nothing (`WorkDone`). So after `n` events from outside the programs have
taken at most `Work` of the initial state plus `9 n` steps, for every value of
the constants. The agent's reconnects are among the steps, which is why the
sessions still to come, of which there are at most `MaxSessions`, are part of
`Work`: an agent whose relay keeps failing reconnects for ever. The proof has
one lemma for each task and one each for what a step moves between tasks and
channels (`RelayPays`, `AgentPays`, `ClientPays`); it needs the invariants above
where a weight must be there to be spent, as that a loop that is closing a
connection is the one of its agent (`OwnLoop`).

Only model-checked: `StopsOnlyAtRest`, which speaks of `ENABLED`, and all
liveness (`HandlerReturns`, `TargetLossReachesClient`, `DropReachesReaders`,
`NameComesFree`, `EndReported`, `LossNoticed`, `SendsEnd`, `LossIsHandled`).
Both are out of the prover's reach.

## 6. Not modelled

* The lengths of the agent's backoff (`edge_agent.py:71-79`): arithmetic on clock
  times in one task. That `time.sleep` at `:77` stops the agent's whole event loop
  shows only in that readers of the old session make no step meanwhile, which the
  models allow.
* JSON encoding: the data classes of `pydantic_models.py` carry no behaviour;
  their kinds are the messages of `RelaySystem`. Messages that do not parse are
  `MessageRaises` and `LoopRaises` in `RelaySession`, `Malformed` in `AgentRegistry`
  and `Unparsable` in `EdgeAgent`; `RelaySystem`, whose programs send none, does not
  take those steps. The choice
  between binary frames and JSON is a flag of the registry; both carry the same.
* Custom messages, permission hooks and start messages are application code, whose
  outcome is a nondeterministic choice.
* Logging, command line, credentials file, build files: no state the protocol
  depends on.
* The client's connect to the relay may fail; it then ends having started nothing.

---------------------------- MODULE AccessClient ----------------------------
(***************************************************************************)
(* The access client (http_network_relay/access_client.py): the exchange   *)
(* that starts a connection, then two pumps, one from standard input to    *)
(* the relay and one from the relay to standard output.                    *)
(*                                                                         *)
(* A step is the stretch of a task between two awaits.  Which messages     *)
(* arrive is up to the relay: RelaySystem composes this module with it.    *)
(***************************************************************************)
EXTENDS Naturals, Sequences

CONSTANT MaxTyped  \* bound: chunks read from standard input and sent

VARIABLES
  apc,    \* async_main: "start", "answer" and "pump" in recv(), or "done"
  aws,    \* the WebSocket as the client sees it: "none", "up" or "closed"
  typed,  \* chunks read from standard input and sent
  shown   \* chunks written to standard output

vars == <<apc, aws, typed, shown>>

Init == apc = "start" /\ aws = "none" /\ typed = 0 /\ shown = <<>>

\* async_main ends, and with it `async with connect` and asyncio.run, which
\* cancel the other pump.
Exit == apc' = "done" /\ aws' = "closed"

\* The WebSocket is opened and the start message is sent.
Start ==
  /\ apc = "start"
  /\ apc' = "answer" /\ aws' = "up"
  /\ UNCHANGED <<typed, shown>>

\* The first message is start_ok: the pumps start.
Accepted ==
  /\ apc = "answer"
  /\ apc' = "pump"
  /\ UNCHANGED <<aws, typed, shown>>

\* The first message is an error, or recv() raises.
Refused ==
  /\ apc = "answer"
  /\ Exit
  /\ UNCHANGED <<typed, shown>>

\* read_stdin_and_send that does not wait for the answer.
ReadStdinEarly ==
  /\ apc \in {"answer", "pump"} /\ aws = "up" /\ typed < MaxTyped
  /\ typed' = typed + 1
  /\ UNCHANGED <<apc, aws, shown>>

\* A chunk is read and sent.  The pump that finds its WebSocket closed ends with
\* an exception that nobody awaits; the one whose input ends returns, and
\* nothing tells the relay.
ReadStdin ==
  /\ apc = "pump" /\ aws = "up" /\ typed < MaxTyped
  /\ typed' = typed + 1
  /\ UNCHANGED <<apc, aws, shown>>

\* A data message of either framing.
ShowData(chunks) ==
  /\ apc = "pump"
  /\ shown' = shown \o chunks
  /\ UNCHANGED <<apc, aws, typed>>

\* recv() raises ConnectionClosed.
ReceiveEnds ==
  /\ apc = "pump" /\ aws = "closed"
  /\ Exit
  /\ UNCHANGED <<typed, shown>>

\* ssh ends the client, or the user does.
Killed ==
  /\ apc \in {"answer", "pump"}
  /\ Exit
  /\ UNCHANGED <<typed, shown>>

\* The relay closes the WebSocket or the network fails.
SocketCloses ==
  /\ aws = "up"
  /\ aws' = "closed"
  /\ UNCHANGED <<apc, typed, shown>>

Next ==
  \/ Start \/ Accepted \/ Refused \/ ReadStdin
  \/ ReceiveEnds \/ Killed \/ SocketCloses
  \/ ShowData(<<Len(shown) + 1>>)

TypeOK ==
  /\ apc \in {"start", "answer", "pump", "done"}
  /\ aws \in {"none", "up", "closed"}
  /\ typed \in 0 .. MaxTyped /\ shown \in Seq(Nat)

=============================================================================

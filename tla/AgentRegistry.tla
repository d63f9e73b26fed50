--------------------------- MODULE AgentRegistry ---------------------------
(***************************************************************************)
(* How edge agents enter and leave the relay's tables                      *)
(* (http_network_relay/network_relay.py, ws_for_edge_agents and _msg_loop). *)
(*                                                                         *)
(* An agent connects with a WebSocket and is registered under a name the   *)
(* application gives it; when its connection breaks it comes back with     *)
(* another WebSocket and the same name.  The relay's tables are keyed by   *)
(* the name.  A step is the stretch of a handler between two awaits.  The  *)
(* connections relayed for an agent are the subject of RelaySession.       *)
(***************************************************************************)
CONSTANTS
  Sockets,  \* WebSockets that agents open, one after another or at once
  Names,    \* agent_connection_id
  None      \* no socket, no name

ASSUME NoneOK == None \notin Sockets \cup Names

VARIABLES
  tpc,         \* the handler of each socket, see Places
  name,        \* connection_id of each handler
  supports,    \* framing that each agent's start message announces
  peer,        \* the socket as its agent sees it: "away", "open" or "gone"
  registered,  \* registered_agent_connections
  framing,     \* agent_connection_id_to_supports_binary, "none" if absent
  listed       \* agent_connections

tables == <<registered, framing, listed>>
vars == <<tpc, name, supports, peer, tables>>

\* start: not called yet.     hello: in receive_text().
\* permission: in the application's permission hook.
\* serve: _msg_loop receives.   close: in edge_agent_connection_close.
Places == {"start", "hello", "permission", "serve", "close", "returned", "raised"}
Framings == {"binary", "json"}

Init ==
  /\ tpc = [s \in Sockets |-> "start"]
  /\ name = [s \in Sockets |-> None]
  /\ supports = [s \in Sockets |-> "json"]
  /\ peer = [s \in Sockets |-> "away"]
  /\ registered = [n \in Names |-> None]
  /\ framing = [n \in Names |-> "none"]
  /\ listed = {}

\* A handler ends, and the ASGI server closes its socket.
End(s, how) ==
  /\ tpc' = [tpc EXCEPT ![s] = how]
  /\ peer' = [peer EXCEPT ![s] = "gone"]

-----------------------------------------------------------------------------
Accept(s) ==
  /\ tpc[s] = "start"
  /\ tpc' = [tpc EXCEPT ![s] = "hello"]
  /\ peer' = [peer EXCEPT ![s] = "open"]
  /\ listed' = listed \cup {s}
  /\ UNCHANGED <<name, supports, registered, framing>>

Hello(s) ==
  /\ tpc[s] = "hello"
  /\ tpc' = [tpc EXCEPT ![s] = "permission"]
  /\ \E f \in Framings : supports' = [supports EXCEPT ![s] = f]
  /\ UNCHANGED <<name, peer, tables>>

\* The first message is of another kind, or receiving or parsing it raises.
HelloFails(s) ==
  /\ tpc[s] = "hello"
  /\ \E how \in {"returned", "raised"} : End(s, how)
  /\ UNCHANGED <<name, supports, tables>>

Denied(s) ==
  /\ tpc[s] = "permission"
  /\ End(s, "returned")
  /\ UNCHANGED <<name, supports, tables>>

\* The framing is recorded before the name is looked up: a duplicate that is then
\* turned away leaves its own framing under the name of the registered agent.
RecordFraming(s, n) ==
  /\ name' = [name EXCEPT ![s] = n]
  /\ framing' = [framing EXCEPT ![n] = supports[s]]

\* Register without the look-up.
RegisterAlways(s, n) ==
  /\ tpc[s] = "permission"
  /\ RecordFraming(s, n)
  /\ registered' = [registered EXCEPT ![n] = s]
  /\ tpc' = [tpc EXCEPT ![s] = "serve"]
  /\ UNCHANGED <<supports, peer, listed>>

Register(s, n) ==
  /\ tpc[s] = "permission"
  /\ registered[n] = None
  /\ RecordFraming(s, n)
  /\ registered' = [registered EXCEPT ![n] = s]
  /\ tpc' = [tpc EXCEPT ![s] = "serve"]
  /\ UNCHANGED <<supports, peer, listed>>

\* The name is taken.  The code reads the attribute `closed` of the registered
\* WebSocket, which Starlette's WebSocket does not have: the handler raises.
Duplicate(s, n) ==
  /\ tpc[s] = "permission"
  /\ registered[n] # None
  /\ RecordFraming(s, n)
  /\ End(s, "raised")
  /\ UNCHANGED <<supports, registered, listed>>

-----------------------------------------------------------------------------
\* A message that _msg_loop cannot parse, or a frame too short to decode, ends
\* the loop outside of its try block.
Malformed(s) ==
  /\ tpc[s] = "serve"
  /\ End(s, "raised")
  /\ UNCHANGED <<name, supports, tables>>

\* CloseTables that stores no framing instead of removing the entry.
CloseTablesStoringNone(n) ==
  /\ registered' = [registered EXCEPT ![n] = None]
  /\ framing' = [framing EXCEPT ![n] = None]
  /\ listed' = listed \ {registered[n]}

\* edge_agent_connection_close up to its first await; all tables are keyed by
\* the loop's name, and the socket removed is the one found under it.
CloseTables(n) ==
  /\ registered' = [registered EXCEPT ![n] = None]
  /\ framing' = [framing EXCEPT ![n] = "none"]
  /\ listed' = listed \ {registered[n]}

\* Disconnect that closes the relayed connections before it touches the tables.
DisconnectLate(s) ==
  /\ tpc[s] = "serve" /\ peer[s] = "gone"
  /\ tpc' = [tpc EXCEPT ![s] = "close"]
  /\ UNCHANGED <<name, supports, peer, tables>>

Disconnect(s) ==
  /\ tpc[s] = "serve" /\ peer[s] = "gone"
  /\ CloseTables(name[s])
  /\ tpc' = [tpc EXCEPT ![s] = "close"]
  /\ UNCHANGED <<name, supports, peer>>

\* A close that unregisters the name after the awaits, whoever has it by then.
ClosedByName(s) ==
  /\ tpc[s] = "close"
  /\ tpc' = [tpc EXCEPT ![s] = "returned"]
  /\ CloseTables(name[s])
  /\ UNCHANGED <<name, supports, peer>>

\* The relayed connections of the agent are closed, with awaits.
Closed(s) ==
  /\ tpc[s] = "close"
  /\ tpc' = [tpc EXCEPT ![s] = "returned"]
  /\ UNCHANGED <<name, supports, peer, tables>>

\* The agent closes its socket or its network fails.
PeerLeaves(s) ==
  /\ peer[s] = "open"
  /\ peer' = [peer EXCEPT ![s] = "gone"]
  /\ UNCHANGED <<tpc, name, supports, tables>>

-----------------------------------------------------------------------------
Handler(s) ==
  \/ Accept(s) \/ Hello(s) \/ HelloFails(s) \/ Denied(s)
  \/ \E n \in Names : Register(s, n) \/ Duplicate(s, n)
  \/ Malformed(s) \/ Disconnect(s) \/ Closed(s)

Next == \E s \in Sockets : Handler(s) \/ PeerLeaves(s)

Spec == Init /\ [][Next]_vars

\* asyncio runs a handler that can run, and a disconnect comes through behind
\* finitely many messages.  Nothing is assumed of the agents.
FairSpec == Spec /\ \A s \in Sockets : WF_vars(Disconnect(s)) /\ WF_vars(Closed(s))

-----------------------------------------------------------------------------
\* Every variable keeps its type.
TypeOK ==
  /\ tpc \in [Sockets -> Places]
  /\ name \in [Sockets -> Names \cup {None}]
  /\ supports \in [Sockets -> Framings]
  /\ peer \in [Sockets -> {"away", "open", "gone"}]
  /\ registered \in [Names -> Sockets \cup {None}]
  /\ framing \in [Names -> Framings \cup {"none"}]
  /\ listed \subseteq Sockets

\* A socket whose loop serves a name is the one registered under it, whatever
\* handlers of the same name were opening or closing meanwhile; so no two loops
\* serve one name, and create_connection reaches a socket that is served.  A
\* registered socket without a loop is one whose loop raised.
OneLoopPerName ==
  /\ \A s \in Sockets :
       tpc[s] = "serve" => /\ name[s] \in Names
                           /\ registered[name[s]] = s
                           /\ s \in listed
  /\ \A n \in Names :
       registered[n] # None => /\ name[registered[n]] = n
                               /\ tpc[registered[n]] \in {"serve", "raised"}

\* A registered agent keeps its name and its framing entry until its own loop
\* sees its own disconnect: neither another socket that asks for the name nor
\* the loop of an earlier one that is still closing takes them away.
OnlyOwnLoopUnregisters ==
  [][\A n \in Names :
       registered[n] # None /\ (registered'[n] # registered[n] \/ framing'[n] = "none")
         => /\ tpc[registered[n]] = "serve" /\ peer[registered[n]] = "gone"
            /\ tpc'[registered[n]] = "close"]_vars

\* A name whose agent's connection broke comes free again, unless the loop of
\* that agent raised.
NameComesFree ==
  \A n \in Names, s \in Sockets :
    registered[n] = s /\ peer[s] = "gone" ~> registered[n] # s \/ tpc[s] = "raised"

\* network_relay.py:299, "check wether the other websocket is still open, if
\* not remove it": a socket is turned away as a duplicate only while the socket
\* that has its name is open.
DeadAgentIsReplaced ==
  [][\A s \in Sockets, n \in Names :
       tpc[s] = "permission" /\ tpc'[s] = "raised" /\ name'[s] = n
         => peer[registered[n]] = "open"]_vars

=============================================================================

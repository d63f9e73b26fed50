------------------------ MODULE AgentRegistryProofs ------------------------
(***************************************************************************)
(* Proofs about AgentRegistry, for every set of sockets and of names.      *)
(***************************************************************************)
EXTENDS AgentRegistry, TLAPS

\* agent_connections holds every socket from its accept until its loop ends.
ListedInv ==
  \A s \in Sockets : tpc[s] \in {"hello", "permission", "serve"} => s \in listed

\* A registered name has a framing entry, not always that of its agent.
FramedInv == \A n \in Names : registered[n] # None => framing[n] # "none"

\* The inductive invariant.
RegistryInv == TypeOK /\ ListedInv /\ FramedInv /\ OneLoopPerName

\* Every action of every handler keeps the types of all variables.
LEMMA TypeStep == TypeOK /\ [Next]_vars => TypeOK'
<1> SUFFICES ASSUME TypeOK, [Next]_vars PROVE TypeOK'
  OBVIOUS
<1> USE DEF TypeOK, Places, Framings
<1>1. CASE UNCHANGED vars
  BY <1>1 DEF vars, tables
<1>2. ASSUME NEW s \in Sockets, Handler(s) PROVE TypeOK'
  <2>1. CASE Accept(s)
    BY <2>1 DEF Accept
  <2>2. CASE Hello(s)
    BY <2>2 DEF Hello, tables
  <2>3. CASE HelloFails(s) \/ Denied(s) \/ Malformed(s)
    BY <2>3 DEF HelloFails, Denied, Malformed, End, tables
  <2>4. ASSUME NEW n \in Names, Register(s, n) PROVE TypeOK'
    BY <2>4 DEF Register, RecordFraming
  <2>5. ASSUME NEW n \in Names, Duplicate(s, n) PROVE TypeOK'
    BY <2>5 DEF Duplicate, RecordFraming, End
  <2>6. CASE Disconnect(s)
    BY <2>6 DEF Disconnect, CloseTables
  <2>7. CASE Closed(s)
    BY <2>7 DEF Closed, tables
  <2> QED
    BY <1>2, <2>1, <2>2, <2>3, <2>4, <2>5, <2>6, <2>7 DEF Handler
<1>3. ASSUME NEW s \in Sockets, PeerLeaves(s) PROVE TypeOK'
  BY <1>3 DEF PeerLeaves, tables
<1> QED
  BY <1>1, <1>2, <1>3 DEF Next

\* Every variable of the registry keeps its type, whatever handlers overlap.
THEOREM TypeCorrect == Spec => []TypeOK
<1>1. Init => TypeOK
  BY DEF Init, TypeOK, Places, Framings
<1> QED
  BY <1>1, TypeStep, PTL DEF Spec

\* The tables start empty, and no handler has run.
LEMMA RegistryInit == Init => RegistryInv
BY NoneOK DEF Init, RegistryInv, TypeOK, ListedInv, FramedInv, OneLoopPerName, Places, Framings

\* One step of the registry keeps the invariant: a handler enters the tables
\* only under a free name, and leaves them only in its own disconnect.
LEMMA RegistryStep == RegistryInv /\ [Next]_vars => RegistryInv'
<1> SUFFICES ASSUME RegistryInv, [Next]_vars PROVE RegistryInv'
  OBVIOUS
<1> TypeOK'
  BY TypeStep DEF RegistryInv
<1> USE DEF RegistryInv, TypeOK
<1> DEFINE Tables == ListedInv /\ FramedInv /\ OneLoopPerName
<1> SUFFICES Tables'
  OBVIOUS
<1> USE DEF ListedInv, FramedInv, OneLoopPerName
<1>1. CASE UNCHANGED vars
  BY <1>1 DEF vars, tables
<1>2. ASSUME NEW s \in Sockets, Handler(s) PROVE Tables'
  <2>1. CASE Accept(s)
    BY <2>1 DEF Accept
  <2>2. CASE Hello(s)
    BY <2>2 DEF Hello, tables
  <2>3. CASE HelloFails(s) \/ Denied(s) \/ Malformed(s)
    BY <2>3 DEF HelloFails, Denied, Malformed, End, tables
  <2>4. ASSUME NEW n \in Names, Register(s, n)
        PROVE  Tables'
    BY <2>4, NoneOK DEF Register, RecordFraming, Framings
  <2>5. ASSUME NEW n \in Names, Duplicate(s, n)
        PROVE  Tables'
    BY <2>5, NoneOK DEF Duplicate, RecordFraming, End, Framings
  <2>6. CASE Disconnect(s)
    BY <2>6, NoneOK DEF Disconnect, CloseTables
  <2>7. CASE Closed(s)
    BY <2>7 DEF Closed, tables
  <2> QED
    BY <1>2, <2>1, <2>2, <2>3, <2>4, <2>5, <2>6, <2>7 DEF Handler
<1>3. ASSUME NEW s \in Sockets, PeerLeaves(s) PROVE Tables'
  BY <1>3 DEF PeerLeaves, tables
<1> QED
  BY <1>1, <1>2, <1>3 DEF Next

\* At most one message loop serves a name at any time, and the registered
\* socket of a name is the one whose loop serves it or whose loop raised.
THEOREM OneLoopPerNameHolds == Spec => []OneLoopPerName
<1>1. RegistryInv => OneLoopPerName
  BY DEF RegistryInv
<1> QED
  BY <1>1, RegistryInit, RegistryStep, PTL DEF Spec

\* No step of any handler takes the name or the framing of a registered agent
\* away, except the disconnect of that agent's own loop.
THEOREM OnlyOwnLoopUnregistersHolds == Spec => OnlyOwnLoopUnregisters
<1> DEFINE Kept ==
      \A n \in Names :
        registered[n] # None /\ (registered'[n] # registered[n] \/ framing'[n] = "none")
          => /\ tpc[registered[n]] = "serve" /\ peer[registered[n]] = "gone"
             /\ tpc'[registered[n]] = "close"
<1>1. RegistryInv /\ [Next]_vars => [Kept]_vars
  <2> SUFFICES ASSUME RegistryInv, Next PROVE Kept
    OBVIOUS
  <2> USE DEF RegistryInv, TypeOK, FramedInv
  <2>1. ASSUME UNCHANGED <<registered, framing>> PROVE Kept
    BY <2>1
  <2>2. ASSUME NEW s \in Sockets, Handler(s) PROVE Kept
    <3>1. CASE \/ Accept(s) \/ Hello(s) \/ HelloFails(s) \/ Denied(s)
               \/ Malformed(s) \/ Closed(s)
      BY <2>1, <3>1 DEF Accept, Hello, HelloFails, Denied, Malformed, Closed, tables
    <3>2. ASSUME NEW n \in Names, Register(s, n) \/ Duplicate(s, n) PROVE Kept
      BY <3>2 DEF Register, Duplicate, RecordFraming, Framings
    <3>3. CASE Disconnect(s)
      BY <3>3 DEF Disconnect, CloseTables, OneLoopPerName
    <3> QED
      BY <2>2, <3>1, <3>2, <3>3 DEF Handler
  <2>3. ASSUME NEW s \in Sockets, PeerLeaves(s) PROVE Kept
    BY <2>1, <2>3 DEF PeerLeaves, tables
  <2> QED
    BY <2>2, <2>3 DEF Next
<1> QED
  BY <1>1, RegistryInit, RegistryStep, PTL
  DEF Spec, OnlyOwnLoopUnregisters

=============================================================================

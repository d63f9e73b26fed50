------------------------- MODULE RelaySessionProofs -------------------------
(***************************************************************************)
(* The invariants of RelaySession for every set of agents and clients,     *)
(* every number of chunks and every read size.                             *)
(***************************************************************************)
EXTENDS RelaySession, ChunkLemmas, TLAPS

LEMMA InitType == Init => TypeOK
BY ConstantsOK DEF Init, TypeOK, LoopPC, HandlerPC, ReaderPC, RemoteState

\* The parts of TypeOK that several actions disturb together.
ReadType ==
  /\ rpc \in [Clients -> ReaderPC]
  /\ buf \in [Clients -> Seq(Nat)] /\ hand \in [Clients -> Seq(Nat)]

LoopType ==
  /\ lpc \in [Agents -> LoopPC]
  /\ cur \in [Agents -> Clients \cup {None}]
  /\ pending \in [Agents -> SUBSET Clients]
  /\ \A a \in Agents : lpc[a] \in {"close", "drop"} => cur[a] \in Clients

\* read() splits the buffer into what it returns and what it keeps.
LEMMA TakeType ==
  ASSUME TypeOK, NEW c \in Clients, Take(c)
  PROVE  ReadType'
<1> DEFINE n == IF Len(buf[c]) < ReadSize THEN Len(buf[c]) ELSE ReadSize
<1>1. buf[c] \in Seq(Nat) /\ Len(buf[c]) \in Nat
  BY DEF TypeOK
<1>2. n \in 0 .. Len(buf[c])
  BY <1>1, ConstantsOK
<1>3. /\ SubSeq(buf[c], 1, n) \in Seq(Nat)
      /\ SubSeq(buf[c], n + 1, Len(buf[c])) \in Seq(Nat)
  <2> HIDE DEF n
  <2>1. SubSeq(buf[c], 1, n) \in Seq(Nat)
    BY <1>1, <1>2
  <2>2. SubSeq(buf[c], n + 1, Len(buf[c])) \in Seq(Nat)
    BY <1>1, <1>2
  <2> QED BY <2>1, <2>2
<1>4. /\ hand' = [hand EXCEPT ![c] = SubSeq(buf[c], 1, n)]
      /\ buf' = [buf EXCEPT ![c] = SubSeq(buf[c], n + 1, Len(buf[c]))]
      /\ rpc' = [rpc EXCEPT ![c] = "send"]
  BY DEF Take, Goto
<1> HIDE DEF n
<1> QED BY <1>3, <1>4 DEF ReadType, TypeOK, ReaderPC

LEMMA LoopAgainType ==
  ASSUME TypeOK, NEW c \in Clients, LoopAgain(c)
  PROVE  ReadType'
<1>1. CASE Take(c)
  BY <1>1, TakeType
<1>2. CASE Park(c)
  BY <1>2 DEF Park, Goto, TypeOK, ReadType, ReaderPC
<1>3. CASE Stop(c)
  BY <1>3 DEF Stop, Goto, TypeOK, ReadType, ReaderPC
<1> QED BY <1>1, <1>2, <1>3 DEF LoopAgain

LEMMA CloseNextType ==
  ASSUME TypeOK, NEW a \in Agents, NEW todo \in SUBSET Clients, CloseNext(a, todo)
  PROVE  LoopType'
<1> USE DEF TypeOK, LoopType, LoopPC, Goto
<1>1. CASE todo = {} /\ lpc' = [lpc EXCEPT ![a] = IF a \in registered' THEN "receive"
                                                 ELSE "done"]
           /\ cur' = [cur EXCEPT ![a] = None]
           /\ pending' = [pending EXCEPT ![a] = {}]
  BY <1>1
<1>2. ASSUME NEW d \in todo,
             lpc' = [lpc EXCEPT ![a] = "close"],
             cur' = [cur EXCEPT ![a] = d],
             pending' = [pending EXCEPT ![a] = todo \ {d}]
      PROVE  LoopType'
  BY <1>2
<1> QED BY <1>1, <1>2 DEF CloseNext

LEMMA TypeInductive == TypeOK /\ [Next]_vars => TypeOK'
<1> SUFFICES ASSUME TypeOK, [Next]_vars PROVE TypeOK'
  OBVIOUS
<1> USE ConstantsOK DEF TypeOK, LoopPC, HandlerPC, ReaderPC, RemoteState, Goto,
        loopVars, tableVars, socketVars, readerVars, remoteVars
<1>1. ASSUME NEW a \in Agents, AgentJoins(a) PROVE TypeOK'
  BY <1>1 DEF AgentJoins
<1>2. ASSUME NEW a \in Agents, AgentLeaves(a) PROVE TypeOK'
  BY <1>2 DEF AgentLeaves
<1>3. ASSUME NEW c \in Clients, ClientLeaves(c) PROVE TypeOK'
  BY <1>3 DEF ClientLeaves
<1>4. ASSUME NEW c \in Clients, NEW a \in Agents, StartAccepted(c, a)
      PROVE TypeOK'
  BY <1>4 DEF StartAccepted
<1>5. ASSUME NEW c \in Clients, RejectStart(c) PROVE TypeOK'
  BY <1>5 DEF RejectStart
<1>6. ASSUME NEW c \in Clients, InitiateSent(c) PROVE TypeOK'
  BY <1>6 DEF InitiateSent
<1>7. ASSUME NEW c \in Clients, InitiateRaises(c) PROVE TypeOK'
  BY <1>7 DEF InitiateRaises, Crash
<1>8. ASSUME NEW c \in Clients, Answered(c) PROVE TypeOK'
  BY <1>8 DEF Answered
<1>9. ASSUME NEW c \in Clients, StartOK(c) PROVE TypeOK'
  BY <1>9 DEF StartOK
<1>10. ASSUME NEW c \in Clients, StartOKRaises(c) PROVE TypeOK'
  BY <1>10 DEF StartOKRaises, Crash
<1>11. ASSUME NEW c \in Clients, Refused(c) PROVE TypeOK'
  BY <1>11 DEF Refused, Crash
<1>12. ASSUME NEW c \in Clients, ReceiveData(c) PROVE TypeOK'
  BY <1>12 DEF ReceiveData
<1>13. ASSUME NEW c \in Clients, Forwarded(c) PROVE TypeOK'
  BY <1>13 DEF Forwarded
<1>14. ASSUME NEW c \in Clients, ForwardRaises(c) PROVE TypeOK'
  BY <1>14 DEF ForwardRaises, Crash
<1>15. ASSUME NEW c \in Clients, Disconnect(c) PROVE TypeOK'
  BY <1>15 DEF Disconnect, Drop
<1>16. ASSUME NEW c \in Clients, HandlerClose(c) PROVE TypeOK'
  BY <1>16 DEF HandlerClose, Drop, InformAgent
<1>17. ASSUME NEW c \in Clients, JoinTimeout(c) PROVE TypeOK'
  BY <1>17 DEF JoinTimeout
<1>18. ASSUME NEW c \in Clients, Joined(c) PROVE TypeOK'
  BY <1>18 DEF Joined
<1>19. ASSUME NEW c \in Clients, ReaderStart(c) PROVE TypeOK'
  BY <1>19, LoopAgainType DEF ReaderStart, ReadType
<1>20. ASSUME NEW c \in Clients, ReaderWake(c) PROVE TypeOK'
  <2>1. ReadType'
    <3>1. CASE Take(c)
      BY <3>1, TakeType
    <3>2. CASE Park(c)
      BY <3>2 DEF Park, ReadType
    <3>3. CASE Stop(c)
      BY <3>3 DEF Stop, ReadType
    <3> QED BY <1>20, <3>1, <3>2, <3>3 DEF ReaderWake
  <2> QED BY <1>20, <2>1 DEF ReaderWake, ReadType
<1>21. ASSUME NEW c \in Clients, ReaderSent(c) PROVE TypeOK'
  <2>1. ReadType'
    BY <1>21, LoopAgainType DEF ReaderSent
  <2>2. delivered' \in [Clients -> Seq(Nat)]
    <3>1. delivered[c] \o hand[c] \in Seq(Nat)
      OBVIOUS
    <3> QED BY <1>21, <3>1 DEF ReaderSent
  <2> QED BY <1>21, <2>1, <2>2 DEF ReaderSent, ReadType
<1>22. ASSUME NEW c \in Clients, ReaderSendRaises(c) PROVE TypeOK'
  BY <1>22 DEF ReaderSendRaises, Drop, Stop
<1>23. ASSUME NEW c \in Clients, ReaderCancelled(c) PROVE TypeOK'
  BY <1>23 DEF ReaderCancelled, Drop, Stop
<1>24. ASSUME NEW a \in Agents, NEW c \in Clients, RecvAnswer(a, c)
      PROVE TypeOK'
  <2>1. PICK ok \in BOOLEAN :
          /\ remote' = [remote EXCEPT ![c] = IF ok THEN "open" ELSE "refused"]
          /\ answers' = IF answers[c] = "none" THEN answers
                        ELSE [answers EXCEPT ![c] = IF ok THEN "ok" ELSE "error"]
    BY <1>24 DEF RecvAnswer
  <2> QED BY <1>24, <2>1 DEF RecvAnswer
<1>25. ASSUME NEW a \in Agents, NEW c \in Clients, RecvData(a, c)
      PROVE TypeOK'
  <2>1. emitted[c] + 1 \in 0 .. MaxChunks /\ emitted[c] + 1 \in Nat
    BY <1>25 DEF RecvData
  <2>2. emitted' \in [Clients -> 0 .. MaxChunks]
    BY <1>25, <2>1 DEF RecvData
  <2>3. buf' \in [Clients -> Seq(Nat)] /\ event' \in [Clients -> BOOLEAN]
    <3>1. Append(buf[c], emitted[c] + 1) \in Seq(Nat)
      BY <2>1
    <3>2. CASE c \in relayed
      <4>1. /\ buf' = [buf EXCEPT ![c] = Append(buf[c], emitted[c] + 1)]
            /\ event' = [event EXCEPT ![c] = TRUE]
        BY <1>25, <3>2 DEF RecvData
      <4> QED BY <3>1, <4>1
    <3>3. CASE c \notin relayed
      BY <1>25, <3>3 DEF RecvData
    <3> QED BY <3>2, <3>3
  <2> QED BY <1>25, <2>2, <2>3 DEF RecvData
<1>26. ASSUME NEW a \in Agents, NEW c \in Clients, RecvReset(a, c)
      PROVE TypeOK'
  <2>1. LoopType'
    <3>1. CASE c \in relayed
      <4>1. /\ lpc' = [lpc EXCEPT ![a] = "close"]
            /\ cur' = [cur EXCEPT ![a] = c]
            /\ pending' = pending
        BY <1>26, <3>1 DEF RecvReset
      <4> QED BY <4>1 DEF LoopType
    <3>2. CASE c \notin relayed
      BY <1>26, <3>2 DEF RecvReset, LoopType
    <3> QED BY <3>1, <3>2
  <2> QED BY <1>26, <2>1 DEF RecvReset, LoopType
<1>27. ASSUME NEW a \in Agents, RecvDisconnect(a) PROVE TypeOK'
  <2>1. LoopType'
    BY <1>27, CloseNextType DEF RecvDisconnect
  <2> QED BY <1>27, <2>1 DEF RecvDisconnect, LoopType
<1>28. ASSUME NEW a \in Agents, LoopClose(a) PROVE TypeOK'
  <2>1. cur[a] \in Clients /\ pending[a] \in SUBSET Clients
    BY <1>28 DEF LoopClose
  <2>2. LoopType'
    BY <1>28, <2>1, CloseNextType DEF LoopClose, LoopType
  <2>3. closeSent' \subseteq Clients /\ wsClosed' \subseteq Clients
        /\ registered' = registered
    BY <1>28, <2>1 DEF LoopClose, InformAgent
  <2>4. relayed' \subseteq Clients /\ event' \in [Clients -> BOOLEAN]
    <3>1. CASE relayed' = relayed /\ event' = event
      BY <3>1
    <3>2. CASE Drop(cur[a])
      BY <3>2, <2>1 DEF Drop
    <3> QED BY <1>28, <3>1, <3>2 DEF LoopClose
  <2> QED BY <1>28, <2>2, <2>3, <2>4 DEF LoopClose, LoopType
<1>29. ASSUME NEW a \in Agents, LoopDrop(a) PROVE TypeOK'
  <2>1. cur[a] \in Clients /\ pending[a] \in SUBSET Clients
    BY <1>29 DEF LoopDrop
  <2>2. LoopType'
    BY <1>29, <2>1, CloseNextType DEF LoopDrop
  <2> QED BY <1>29, <2>1, <2>2 DEF LoopDrop, Drop, LoopType
<1>30. ASSUME NEW c \in Clients, MessageRaises(c) PROVE TypeOK'
  BY <1>30 DEF MessageRaises, Crash
<1>31. ASSUME NEW a \in Agents, LoopRaises(a) PROVE TypeOK'
  BY <1>31 DEF LoopRaises
<1>32. CASE UNCHANGED vars
  BY <1>32 DEF vars
<1> QED
  BY <1>1, <1>2, <1>3, <1>4, <1>5, <1>6, <1>7, <1>8, <1>9, <1>10, <1>11, <1>12, <1>13, <1>14, <1>15, <1>16, <1>17, <1>18, <1>19, <1>20, <1>21, <1>22, <1>23, <1>24, <1>25, <1>26, <1>27, <1>28, <1>29, <1>30,
     <1>31, <1>32
     DEF Next, HandlerStep, ReaderStep, LoopStep

\* The relay's types hold in every reachable state.
THEOREM TypeCorrect == Spec => []TypeOK
<1> QED BY InitType, TypeInductive, PTL DEF Spec

-----------------------------------------------------------------------------
\* Dropping a connection wakes the reader parked on it.
LEMMA DropWakes ==
  ASSUME TypeOK, NoLostWakeup, NEW c \in Clients, Drop(c), UNCHANGED buf,
         \A d \in Clients : rpc'[d] = "wait" => rpc[d] = "wait"
  PROVE  NoLostWakeup'
<1> SUFFICES ASSUME NEW d \in Clients, rpc'[d] = "wait",
                    d \notin relayed' \/ buf'[d] # <<>>
             PROVE  event'[d]
  BY DEF NoLostWakeup
<1>1. CASE d = c
  BY <1>1 DEF Drop, TypeOK, NoLostWakeup
<1>2. CASE d # c
  BY <1>2 DEF Drop, TypeOK, NoLostWakeup
<1> QED BY <1>1, <1>2

LEMMA WakeupInit == Init => NoLostWakeup
BY DEF Init, NoLostWakeup

LEMMA WakeupInductive == TypeOK /\ NoLostWakeup /\ [Next]_vars => NoLostWakeup'
<1> SUFFICES ASSUME TypeOK, NoLostWakeup, [Next]_vars PROVE NoLostWakeup'
  OBVIOUS
<1> USE DEF loopVars, tableVars, socketVars, readerVars, remoteVars, Goto
<1>1. ASSUME UNCHANGED <<rpc, relayed, buf, event>> PROVE NoLostWakeup'
  BY <1>1 DEF NoLostWakeup
<1>2. ASSUME NEW c \in Clients, \/ RejectStart(c) \/ InitiateSent(c) \/ InitiateRaises(c)
             \/ Answered(c) \/ StartOKRaises(c) \/ Refused(c)
             \/ ReceiveData(c) \/ MessageRaises(c) \/ Forwarded(c)
             \/ ForwardRaises(c) \/ JoinTimeout(c) \/ Joined(c)
      PROVE  NoLostWakeup'
  BY <1>1, <1>2 DEF Crash, RejectStart, InitiateSent, InitiateRaises, Answered,
         StartOKRaises, Refused, ReceiveData, MessageRaises, Forwarded,
         ForwardRaises, JoinTimeout, Joined
<1>3. ASSUME NEW a \in Agents,
             \/ AgentJoins(a) \/ AgentLeaves(a) \/ RecvDisconnect(a) \/ LoopRaises(a)
             \/ \E c \in Clients : RecvAnswer(a, c) \/ RecvReset(a, c)
      PROVE  NoLostWakeup'
  BY <1>1, <1>3 DEF AgentJoins, AgentLeaves, RecvDisconnect, LoopRaises, RecvAnswer,
     RecvReset
<1>4. ASSUME NEW c \in Clients, ClientLeaves(c) PROVE NoLostWakeup'
  BY <1>1, <1>4 DEF ClientLeaves
<1>5. ASSUME NEW c \in Clients, NEW a \in Agents, StartAccepted(c, a)
      PROVE  NoLostWakeup'
  BY <1>5 DEF StartAccepted, NoLostWakeup
<1>6. ASSUME NEW c \in Clients, StartOK(c) PROVE NoLostWakeup'
  BY <1>6 DEF StartOK, NoLostWakeup, TypeOK
<1>7. ASSUME NEW c \in Clients, Disconnect(c) PROVE NoLostWakeup'
  BY <1>7, DropWakes DEF Disconnect
<1>8. ASSUME NEW c \in Clients, HandlerClose(c) PROVE NoLostWakeup'
  BY <1>8, DropWakes DEF HandlerClose
<1>9. ASSUME NEW c \in Clients, ReaderStart(c) PROVE NoLostWakeup'
  BY <1>9 DEF ReaderStart, LoopAgain, Take, Park, Stop, NoLostWakeup, TypeOK
<1>10. ASSUME NEW c \in Clients, ReaderWake(c) PROVE NoLostWakeup'
  BY <1>10 DEF ReaderWake, Take, Park, Stop, NoLostWakeup, TypeOK
<1>11. ASSUME NEW c \in Clients, ReaderSent(c) PROVE NoLostWakeup'
  BY <1>11 DEF ReaderSent, LoopAgain, Take, Park, Stop, NoLostWakeup, TypeOK
<1>12. ASSUME NEW c \in Clients, ReaderSendRaises(c) PROVE NoLostWakeup'
  BY <1>12, DropWakes DEF ReaderSendRaises, Stop, TypeOK
<1>13. ASSUME NEW c \in Clients, ReaderCancelled(c) PROVE NoLostWakeup'
  BY <1>13, DropWakes DEF ReaderCancelled, Stop, TypeOK
<1>14. ASSUME NEW a \in Agents, NEW c \in Clients, RecvData(a, c)
       PROVE  NoLostWakeup'
  BY <1>14 DEF RecvData, NoLostWakeup, TypeOK
<1>15. ASSUME NEW a \in Agents, LoopClose(a) PROVE NoLostWakeup'
  <2>1. cur[a] \in Clients
    BY <1>15 DEF LoopClose, TypeOK
  <2> QED BY <1>1, <1>15, <2>1, DropWakes DEF LoopClose
<1>16. ASSUME NEW a \in Agents, LoopDrop(a) PROVE NoLostWakeup'
  <2>1. cur[a] \in Clients
    BY <1>16 DEF LoopDrop, TypeOK
  <2> QED BY <1>16, <2>1, DropWakes DEF LoopDrop
<1>17. CASE UNCHANGED vars
  BY <1>1, <1>17 DEF vars
<1> QED
  BY <1>2, <1>3, <1>4, <1>5, <1>6, <1>7, <1>8, <1>9, <1>10, <1>11, <1>12,
     <1>13, <1>14, <1>15, <1>16, <1>17
     DEF Next, HandlerStep, ReaderStep, LoopStep

\* No reader sleeps through the end of its connection or the arrival of data.
THEOREM NoLostWakeupHolds == Spec => []NoLostWakeup
<1> QED BY WakeupInit, InitType, TypeInductive, WakeupInductive, PTL DEF Spec

-----------------------------------------------------------------------------
\* What the loop over the copy does to the connections of its agent: those on
\* the list stay in the loop's care, and the loop ends or goes on.
LEMMA CloseNextCovers ==
  ASSUME TypeOK, NEW a \in Agents, NEW todo \in SUBSET Clients, CloseNext(a, todo)
  PROVE  /\ \A b \in Agents \ {a} : /\ lpc'[b] = lpc[b] /\ cur'[b] = cur[b]
                                    /\ pending'[b] = pending[b]
         /\ \A c \in todo : /\ lpc'[a] = "close"
                            /\ c = cur'[a] \/ c \in pending'[a]
         /\ lpc'[a] \in {"receive", "close", "done"}
         /\ lpc'[a] # "close" => pending'[a] = {}
         /\ a \in registered' => lpc'[a] # "done"
         /\ lpc'[a] = "receive" => a \in registered'
         /\ \A c \in Clients : c = cur'[a] \/ c \in pending'[a] => c \in todo
<1> USE DEF TypeOK, Goto
<1>1. CASE todo = {} /\ lpc' = [lpc EXCEPT ![a] = IF a \in registered' THEN "receive"
                                                 ELSE "done"]
           /\ cur' = [cur EXCEPT ![a] = None]
           /\ pending' = [pending EXCEPT ![a] = {}]
  BY <1>1, ConstantsOK
<1>2. ASSUME NEW d \in todo,
             lpc' = [lpc EXCEPT ![a] = "close"],
             cur' = [cur EXCEPT ![a] = d],
             pending' = [pending EXCEPT ![a] = todo \ {d}]
      PROVE  /\ \A b \in Agents \ {a} : /\ lpc'[b] = lpc[b] /\ cur'[b] = cur[b]
                                        /\ pending'[b] = pending[b]
             /\ \A c \in todo : /\ lpc'[a] = "close"
                                /\ c = cur'[a] \/ c \in pending'[a]
             /\ lpc'[a] = "close"
             /\ \A c \in Clients : c = cur'[a] \/ c \in pending'[a] => c \in todo
  BY <1>2
<1> QED BY <1>1, <1>2 DEF CloseNext

\* One more step of a loop that closes cur[a]: the rest of its list is next.
LEMMA CloseNextKeeps ==
  ASSUME TypeOK, LoopInv, CoverInv, NEW a \in Agents, lpc[a] \in {"close", "drop"},
         registered' = registered, agentOf' = agentOf, Drop(cur[a]),
         CloseNext(a, pending[a])
  PROVE  LoopInv' /\ CoverInv'
<1>1. cur[a] \in Clients /\ pending[a] \in SUBSET Clients
  BY DEF TypeOK
<1>2. /\ \A b \in Agents \ {a} : /\ lpc'[b] = lpc[b] /\ cur'[b] = cur[b]
                                 /\ pending'[b] = pending[b]
      /\ \A c \in pending[a] : /\ lpc'[a] = "close"
                               /\ c = cur'[a] \/ c \in pending'[a]
      /\ lpc'[a] \in {"receive", "close", "done"}
      /\ lpc'[a] # "close" => pending'[a] = {}
      /\ a \in registered' => lpc'[a] # "done"
      /\ lpc'[a] = "receive" => a \in registered'
  BY <1>1, CloseNextCovers
<1>3. LoopInv'
  BY <1>2 DEF LoopInv
<1>4. relayed' = relayed \ {cur[a]}
  BY DEF Drop
<1>5. CoverInv'
  BY <1>2, <1>4 DEF CoverInv
<1> QED BY <1>3, <1>5

LEMMA CoverInductive ==
  TypeOK /\ LoopInv /\ CoverInv /\ [Next]_vars => LoopInv' /\ CoverInv'
<1> SUFFICES ASSUME TypeOK, LoopInv, CoverInv, [Next]_vars
             PROVE  LoopInv' /\ CoverInv'
  OBVIOUS
<1> USE DEF loopVars, tableVars, socketVars, readerVars, remoteVars, Goto
<1>1. ASSUME UNCHANGED <<loopVars, agentOf>>, relayed' \subseteq relayed
      PROVE  LoopInv' /\ CoverInv'
  BY <1>1 DEF LoopInv, CoverInv
<1>2. ASSUME NEW c \in Clients, \/ RejectStart(c) \/ InitiateSent(c) \/ InitiateRaises(c)
             \/ Answered(c) \/ StartOK(c) \/ StartOKRaises(c) \/ Refused(c)
             \/ ReceiveData(c) \/ MessageRaises(c) \/ Forwarded(c) \/ ForwardRaises(c)
             \/ JoinTimeout(c) \/ Joined(c) \/ ClientLeaves(c)
      PROVE  LoopInv' /\ CoverInv'
  BY <1>1, <1>2 DEF Crash, RejectStart, InitiateSent, InitiateRaises, Answered,
         StartOK, StartOKRaises, Refused, ReceiveData, MessageRaises, Forwarded,
         ForwardRaises, JoinTimeout, Joined, ClientLeaves
<1>3. ASSUME NEW c \in Clients, Disconnect(c) \/ HandlerClose(c)
      PROVE  LoopInv' /\ CoverInv'
  BY <1>1, <1>3 DEF Disconnect, HandlerClose, Drop
<1>4. ASSUME NEW c \in Clients, ReaderStep(c) PROVE LoopInv' /\ CoverInv'
  BY <1>1, <1>4 DEF ReaderStep, ReaderStart, ReaderWake, ReaderSent,
     ReaderSendRaises, ReaderCancelled, Drop
<1>5. ASSUME NEW a \in Agents,
             AgentLeaves(a) \/ \E c \in Clients : RecvAnswer(a, c) \/ RecvData(a, c)
      PROVE  LoopInv' /\ CoverInv'
  BY <1>1, <1>5 DEF AgentLeaves, RecvAnswer, RecvData
<1>6. ASSUME NEW a \in Agents, AgentJoins(a) PROVE LoopInv' /\ CoverInv'
  BY <1>6 DEF AgentJoins, LoopInv, CoverInv, TypeOK
<1>7. ASSUME NEW c \in Clients, NEW a \in Agents, StartAccepted(c, a)
      PROVE  LoopInv' /\ CoverInv'
  <2>1. LoopInv'
    BY <1>7 DEF StartAccepted, LoopInv
  <2>2. CoverInv'
    BY <1>7 DEF StartAccepted, CoverInv, TypeOK
  <2> QED BY <2>1, <2>2
<1>8. ASSUME NEW a \in Agents, NEW c \in Clients, RecvReset(a, c)
      PROVE  LoopInv' /\ CoverInv'
  <2>1. CASE c \in relayed
    <3>1. /\ lpc[a] = "receive" /\ lpc' = [lpc EXCEPT ![a] = "close"]
          /\ UNCHANGED <<registered, pending, agentOf, relayed>>
          /\ cur' = [cur EXCEPT ![a] = c]
      BY <1>8, <2>1 DEF RecvReset
    <3>2. LoopInv'
      BY <3>1 DEF LoopInv, TypeOK
    <3>3. CoverInv'
      BY <3>1 DEF CoverInv, TypeOK
    <3> QED BY <3>2, <3>3
  <2>2. CASE c \notin relayed
    BY <1>1, <1>8, <2>2 DEF RecvReset
  <2> QED BY <2>1, <2>2
<1>9. ASSUME NEW a \in Agents, RecvDisconnect(a) PROVE LoopInv' /\ CoverInv'
  <2> DEFINE todo == {c \in relayed : agentOf[c] = a}
  <2>1. /\ lpc[a] = "receive" /\ registered' = registered \ {a}
        /\ CloseNext(a, todo) /\ UNCHANGED <<agentOf, relayed>>
        /\ todo \in SUBSET Clients
    BY <1>9 DEF RecvDisconnect, TypeOK
  <2>2. /\ \A b \in Agents \ {a} : /\ lpc'[b] = lpc[b] /\ cur'[b] = cur[b]
                                   /\ pending'[b] = pending[b]
        /\ \A c \in todo : /\ lpc'[a] = "close"
                           /\ c = cur'[a] \/ c \in pending'[a]
        /\ lpc'[a] \in {"receive", "close", "done"}
        /\ lpc'[a] # "close" => pending'[a] = {}
        /\ lpc'[a] = "receive" => a \in registered'
    BY <2>1, CloseNextCovers
  <2>3. LoopInv'
    BY <2>1, <2>2 DEF LoopInv
  <2>4. CoverInv'
    BY <2>1, <2>2 DEF CoverInv
  <2> QED BY <2>3, <2>4
<1>10. ASSUME NEW a \in Agents, LoopClose(a) PROVE LoopInv' /\ CoverInv'
  <2>1. CASE cur[a] \in accessClients
    <3>1. /\ lpc[a] = "close" /\ lpc' = [lpc EXCEPT ![a] = "drop"]
          /\ UNCHANGED <<registered, cur, pending, agentOf, relayed>>
      BY <1>10, <2>1 DEF LoopClose
    <3> QED BY <3>1 DEF LoopInv, CoverInv, TypeOK
  <2>2. CASE cur[a] \notin accessClients
    BY <1>10, <2>2, CloseNextKeeps DEF LoopClose
  <2> QED BY <2>1, <2>2
<1>11. ASSUME NEW a \in Agents, LoopDrop(a) PROVE LoopInv' /\ CoverInv'
  BY <1>11, CloseNextKeeps DEF LoopDrop
<1>12. ASSUME NEW a \in Agents, LoopRaises(a) PROVE LoopInv' /\ CoverInv'
  BY <1>12 DEF LoopRaises, LoopInv, CoverInv, TypeOK
<1>13. CASE UNCHANGED vars
  BY <1>1, <1>13 DEF vars
<1> QED
  BY <1>2, <1>3, <1>4, <1>5, <1>6, <1>7, <1>8, <1>9, <1>10, <1>11, <1>12, <1>13
     DEF Next, HandlerStep, LoopStep

\* A loop that ended leaves none of its agent's connections behind, including
\* those created while it was closing others, unless it raised: then the agent
\* is still registered, so that handlers can still be given to it.
THEOREM AgentGoneCleanHolds == Spec => []AgentGoneClean
<1>1. Init => LoopInv /\ CoverInv
  BY DEF Init, LoopInv, CoverInv
<1>2. TypeOK /\ LoopInv /\ CoverInv => AgentGoneClean
  BY DEF LoopInv, CoverInv, AgentGoneClean
<1> QED
  BY <1>1, <1>2, InitType, TypeInductive, CoverInductive, PTL DEF Spec

-----------------------------------------------------------------------------
LEMMA ProgressInductive ==
  TypeOK /\ LoopInv /\ ProgressInv /\ [Next]_vars => ProgressInv'
<1> SUFFICES ASSUME TypeOK, LoopInv, ProgressInv, [Next]_vars PROVE ProgressInv'
  OBVIOUS
<1> USE DEF loopVars, tableVars, socketVars, readerVars, remoteVars, Goto
<1>1. ASSUME UNCHANGED <<hpc, agentOf, rpc, remote>>,
             \A a \in Agents : lpc'[a] = "absent" => lpc[a] = "absent"
      PROVE  ProgressInv'
  BY <1>1 DEF ProgressInv, TypeOK
<1>2. ASSUME NEW a \in Agents, AgentJoins(a) \/ AgentLeaves(a) PROVE ProgressInv'
  BY <1>1, <1>2 DEF AgentJoins, AgentLeaves, TypeOK
<1>3. ASSUME NEW c \in Clients, ClientLeaves(c) PROVE ProgressInv'
  BY <1>1, <1>3 DEF ClientLeaves
<1>4. ASSUME NEW c \in Clients, RejectStart(c) PROVE ProgressInv'
  BY <1>4 DEF RejectStart, ProgressInv, TypeOK
<1>5. ASSUME NEW c \in Clients, NEW a \in Agents, StartAccepted(c, a)
      PROVE  ProgressInv'
  BY <1>5, ConstantsOK DEF StartAccepted, ProgressInv, LoopInv, TypeOK
<1>6. ASSUME NEW c \in Clients, InitiateSent(c) PROVE ProgressInv'
  BY <1>6 DEF InitiateSent, ProgressInv, TypeOK
<1>7. ASSUME NEW c \in Clients,
             \/ InitiateRaises(c) \/ StartOKRaises(c) \/ Refused(c)
             \/ MessageRaises(c) \/ ForwardRaises(c)
      PROVE  ProgressInv'
  BY <1>7 DEF InitiateRaises, StartOKRaises, Refused, MessageRaises, ForwardRaises,
     Crash, ProgressInv, TypeOK
<1>8. ASSUME NEW c \in Clients, Answered(c) PROVE ProgressInv'
  BY <1>8 DEF Answered, ProgressInv, TypeOK
<1>9. ASSUME NEW c \in Clients, StartOK(c) PROVE ProgressInv'
  BY <1>9 DEF StartOK, ProgressInv, TypeOK
<1>10. ASSUME NEW c \in Clients,
              \/ ReceiveData(c) \/ Forwarded(c) \/ Disconnect(c)
              \/ HandlerClose(c) \/ JoinTimeout(c) \/ Joined(c)
       PROVE  ProgressInv'
  BY <1>10 DEF ReceiveData, Forwarded, Disconnect, HandlerClose, JoinTimeout,
     Joined, ProgressInv, TypeOK
<1>11. ASSUME NEW c \in Clients, ReaderStep(c) PROVE ProgressInv'
  <2>1. /\ rpc[c] # "none" /\ UNCHANGED <<hpc, agentOf, remote, lpc>>
        /\ \E l \in ReaderPC \ {"none"} : rpc' = [rpc EXCEPT ![c] = l]
    <3>1. CASE ReaderStart(c) \/ ReaderSent(c)
      BY <3>1 DEF ReaderStart, ReaderSent, LoopAgain, Take, Park, Stop, ReaderPC
    <3>2. CASE ReaderWake(c)
      BY <3>2 DEF ReaderWake, Take, Park, Stop, ReaderPC
    <3>3. CASE ReaderSendRaises(c) \/ ReaderCancelled(c)
      BY <3>3 DEF ReaderSendRaises, ReaderCancelled, Stop, ReaderPC, ProgressInv
    <3> QED BY <1>11, <3>1, <3>2, <3>3 DEF ReaderStep
  <2> QED BY <2>1 DEF ProgressInv, TypeOK
<1>12. ASSUME NEW a \in Agents, NEW c \in Clients,
              RecvAnswer(a, c) \/ RecvData(a, c)
       PROVE  ProgressInv'
  BY <1>12 DEF RecvAnswer, RecvData, ProgressInv, TypeOK
<1>13. ASSUME NEW a \in Agents, NEW c \in Clients, RecvReset(a, c)
       PROVE  ProgressInv'
  <2>1. /\ remote[c] = "open" /\ remote' = [remote EXCEPT ![c] = "ended"]
        /\ UNCHANGED <<hpc, agentOf, rpc>>
        /\ lpc' = lpc \/ lpc' = [lpc EXCEPT ![a] = "close"]
    BY <1>13 DEF RecvReset
  <2> QED BY <2>1 DEF ProgressInv, TypeOK
<1>14. ASSUME NEW a \in Agents,
              RecvDisconnect(a) \/ LoopRaises(a) \/ LoopClose(a) \/ LoopDrop(a)
       PROVE  ProgressInv'
  <2>1. \A b \in Agents : lpc'[b] = "absent" => lpc[b] = "absent"
    BY <1>14 DEF RecvDisconnect, LoopRaises, LoopClose, LoopDrop, CloseNext, TypeOK
  <2> QED BY <1>1, <1>14, <2>1 DEF RecvDisconnect, LoopRaises, LoopClose, LoopDrop
<1>15. CASE UNCHANGED vars
  BY <1>1, <1>15 DEF vars
<1> QED
  BY <1>2, <1>3, <1>4, <1>5, <1>6, <1>7, <1>8, <1>9, <1>10, <1>11, <1>12,
     <1>13, <1>14, <1>15
     DEF Next, HandlerStep, LoopStep

-----------------------------------------------------------------------------
\* A step in which a connection keeps its agent and no peer that is gone returns.
Kept(d) ==
  /\ agentOf'[d] = agentOf[d]
  /\ d \in clientUp' => d \in clientUp
  /\ agentOf[d] \in agentUp' => agentOf[d] \in agentUp
  /\ remote[d] = "ended" => remote'[d] = "ended"

\* A peer that is gone does not come back: the connection keeps its agent, and
\* a new agent is none of those that connections were made to.
LEMMA PeersStayGone ==
  TypeOK /\ ProgressInv /\ [Next]_vars =>
    \A d \in Clients : agentOf[d] # None => Kept(d)
<1> SUFFICES ASSUME TypeOK, ProgressInv, [Next]_vars, NEW d \in Clients,
                    agentOf[d] # None
             PROVE  Kept(d)
  OBVIOUS
<1> USE DEF loopVars, tableVars, socketVars, readerVars, remoteVars, Kept
<1>1. ASSUME agentOf'[d] = agentOf[d], clientUp' \subseteq clientUp,
             agentOf[d] \in agentUp' => agentOf[d] \in agentUp,
             remote[d] = "ended" => remote'[d] = "ended"
      PROVE  Kept(d)
  BY <1>1
<1>2. CASE UNCHANGED <<agentOf, clientUp, agentUp, remote>>
  BY <1>2
<1>3. ASSUME NEW a \in Agents, AgentJoins(a)
      PROVE  Kept(d)
  BY <1>3 DEF AgentJoins, ProgressInv
<1>4. ASSUME NEW a \in Agents, AgentLeaves(a)
      PROVE  Kept(d)
  BY <1>4 DEF AgentLeaves
<1>5. ASSUME NEW c \in Clients, ClientLeaves(c)
      PROVE  Kept(d)
  BY <1>5 DEF ClientLeaves
<1>6. ASSUME NEW c \in Clients, NEW a \in Agents, StartAccepted(c, a)
      PROVE  Kept(d)
  <2>1. c # d /\ agentOf'[d] = agentOf[d] /\ UNCHANGED <<clientUp, agentUp, remote>>
    BY <1>6 DEF StartAccepted, ProgressInv, TypeOK
  <2> QED BY <2>1
<1>7. ASSUME NEW c \in Clients, InitiateSent(c)
      PROVE  Kept(d)
  <2>1. remote[d] = "ended" => remote'[d] = "ended"
    BY <1>7 DEF InitiateSent, ProgressInv, TypeOK
  <2> QED BY <1>1, <1>7, <2>1 DEF InitiateSent
<1>8. ASSUME NEW a \in Agents, NEW c \in Clients,
             RecvAnswer(a, c) \/ RecvReset(a, c)
      PROVE  Kept(d)
  <2>1. remote[d] = "ended" => remote'[d] = "ended"
    BY <1>8 DEF RecvAnswer, RecvReset, TypeOK
  <2> QED BY <1>1, <1>8, <2>1 DEF RecvAnswer, RecvReset
<1>9. ASSUME NEW c \in Clients,
             HandlerStep(c), ~ InitiateSent(c),
             \A a \in Agents : ~ StartAccepted(c, a)
      PROVE  UNCHANGED <<agentOf, clientUp, agentUp, remote>>
  BY <1>9 DEF HandlerStep, RejectStart, InitiateRaises, Answered, StartOK,
     StartOKRaises, Refused, ReceiveData, MessageRaises, Forwarded, ForwardRaises,
     Disconnect, HandlerClose, JoinTimeout, Joined, Crash
<1>10. ASSUME NEW c \in Clients, ReaderStep(c)
       PROVE  UNCHANGED <<agentOf, clientUp, agentUp, remote>>
  BY <1>10 DEF ReaderStep, ReaderStart, ReaderWake, ReaderSent,
     ReaderSendRaises, ReaderCancelled
<1>11. ASSUME NEW a \in Agents,
              \/ \E c \in Clients : RecvData(a, c)
              \/ RecvDisconnect(a) \/ LoopRaises(a) \/ LoopClose(a) \/ LoopDrop(a)
       PROVE  UNCHANGED <<agentOf, clientUp, agentUp, remote>>
  BY <1>11 DEF RecvData, RecvDisconnect, LoopRaises, LoopClose, LoopDrop
<1>12. CASE UNCHANGED vars
  BY <1>2, <1>12 DEF vars
<1> QED
  BY <1>2, <1>3, <1>4, <1>5, <1>6, <1>7, <1>8, <1>9, <1>10, <1>11, <1>12
     DEF Next, LoopStep

\* A handler that raised takes no further step.
LEMMA CrashStays ==
  TypeOK /\ [Next]_vars => \A d \in Clients : hpc[d] = "crashed" => hpc'[d] = "crashed"
<1> SUFFICES ASSUME TypeOK, [Next]_vars, NEW d \in Clients, hpc[d] = "crashed"
             PROVE  hpc'[d] = "crashed"
  OBVIOUS
<1> USE DEF loopVars, tableVars, socketVars, readerVars, remoteVars, Goto
<1>1. ASSUME NEW c \in Clients, HandlerStep(c) PROVE hpc'[d] = "crashed"
  BY <1>1 DEF HandlerStep, RejectStart, StartAccepted, InitiateSent, InitiateRaises,
     Answered, StartOK, StartOKRaises, Refused, ReceiveData, MessageRaises, Forwarded,
     ForwardRaises, Disconnect, HandlerClose, JoinTimeout, Joined, Crash, TypeOK
<1>2. ASSUME NEW c \in Clients, ReaderStep(c) \/ ClientLeaves(c) PROVE UNCHANGED hpc
  BY <1>2 DEF ReaderStep, ReaderStart, ReaderWake, ReaderSent, ReaderSendRaises,
     ReaderCancelled, ClientLeaves
<1>3. ASSUME NEW a \in Agents, AgentJoins(a) \/ AgentLeaves(a) \/ LoopStep(a)
      PROVE  UNCHANGED hpc
  BY <1>3 DEF AgentJoins, AgentLeaves, LoopStep, RecvAnswer, RecvData, RecvReset,
     RecvDisconnect, LoopRaises, LoopClose, LoopDrop
<1>4. UNCHANGED vars => UNCHANGED hpc
  BY DEF vars
<1> QED BY <1>1, <1>2, <1>3, <1>4 DEF Next

\* A cause that was given remains one.
LEMMA CauseStable ==
  TypeOK /\ ProgressInv /\ [Next]_vars =>
    \A d \in Clients :
      agentOf[d] # None => agentOf'[d] = agentOf[d] /\ (Cause(d) => Cause(d)')
BY PeersStayGone, CrashStays DEF Kept, Cause, TargetLost

-----------------------------------------------------------------------------
Closing == {"close", "join", "cancel_join"}

Listed(a, d) == lpc[a] \in {"close", "drop"} /\ (d = cur[a] \/ d \in pending[a])

\* A step keeps CauseInv if whatever it adds to the connections that are
\* dropped, listed, closed or closing has a cause.
LEMMA CauseFrame ==
  ASSUME TypeOK, ProgressInv, CauseInv, [Next]_vars,
         \A d \in Clients : agentOf'[d] # None /\ d \notin relayed' =>
           (agentOf[d] # None /\ d \notin relayed) \/ Cause(d)',
         \A a \in Agents, d \in Clients : Listed(a, d)' =>
           Listed(a, d) \/ (agentOf'[d] = a /\ TargetLost(d)'),
         \A d \in Clients : rpc'[d] # "none" /\ d \in wsClosed' =>
           (rpc[d] # "none" /\ d \in wsClosed) \/ Cause(d)',
         \A d \in Clients : hpc'[d] \in Closing =>
           hpc[d] \in Closing \/ Cause(d)'
  PROVE  CauseInv'
<1>1. \A d \in Clients : agentOf[d] # None =>
        agentOf'[d] = agentOf[d] /\ (Cause(d) => Cause(d)')
  BY CauseStable
<1>2. NoUncausedTeardown'
  <2> SUFFICES ASSUME NEW d \in Clients, agentOf'[d] # None, d \notin relayed'
               PROVE  Cause(d)'
    BY DEF NoUncausedTeardown
  <2> QED BY <1>1 DEF CauseInv, NoUncausedTeardown
<1>3. ASSUME NEW a \in Agents, NEW d \in Clients, Listed(a, d)'
      PROVE  agentOf'[d] = a /\ TargetLost(d)'
  BY <1>3, PeersStayGone, ConstantsOK DEF CauseInv, Listed, Kept, TargetLost
<1>4. ASSUME NEW d \in Clients, rpc'[d] # "none", d \in wsClosed'
      PROVE  Cause(d)'
  BY <1>1, <1>4 DEF CauseInv, ProgressInv
<1>5. ASSUME NEW d \in Clients, hpc'[d] \in Closing
      PROVE  Cause(d)'
  BY <1>1, <1>5 DEF CauseInv, ProgressInv, Closing
<1> QED BY <1>2, <1>3, <1>4, <1>5 DEF CauseInv, Listed, Closing

LEMMA CauseInductive ==
  TypeOK /\ LoopInv /\ ProgressInv /\ CauseInv /\ [Next]_vars => CauseInv'
<1> SUFFICES ASSUME TypeOK, LoopInv, ProgressInv, CauseInv, [Next]_vars
             PROVE  CauseInv'
  OBVIOUS
<1> USE DEF loopVars, tableVars, socketVars, readerVars, remoteVars, Goto
<1>0. \A d \in Clients : agentOf[d] # None =>
        agentOf'[d] = agentOf[d] /\ (Cause(d) => Cause(d)')
  BY CauseStable
<1>1. ASSUME UNCHANGED <<lpc, cur, pending, agentOf, relayed, wsClosed>>,
             \A d \in Clients : rpc'[d] # "none" => rpc[d] # "none" \/ d \notin wsClosed,
             \A d \in Clients : hpc'[d] \in Closing => hpc[d] \in Closing
      PROVE  CauseInv'
  <2>1. \A a \in Agents, d \in Clients : Listed(a, d)' => Listed(a, d)
    BY <1>1 DEF Listed
  <2> QED BY <1>1, <2>1, CauseFrame
<1>2. ASSUME NEW a \in Agents, AgentJoins(a) PROVE CauseInv'
  <2>1. \A b \in Agents, d \in Clients : Listed(b, d)' => Listed(b, d)
    BY <1>2 DEF AgentJoins, Listed, TypeOK
  <2> QED BY <1>2, <2>1, CauseFrame DEF AgentJoins
<1>3. ASSUME NEW a \in Agents,
             AgentLeaves(a) \/ \E c \in Clients : RecvAnswer(a, c) \/ RecvData(a, c)
      PROVE  CauseInv'
  BY <1>1, <1>3 DEF AgentLeaves, RecvAnswer, RecvData
<1>4. ASSUME NEW c \in Clients,
             \/ ClientLeaves(c) \/ InitiateSent(c) \/ Answered(c) \/ StartOK(c)
             \/ ReceiveData(c) \/ Forwarded(c) \/ JoinTimeout(c) \/ Joined(c)
      PROVE  CauseInv'
  <2>1. UNCHANGED <<lpc, cur, pending, agentOf, relayed, wsClosed>>
    BY <1>4 DEF ClientLeaves, InitiateSent, Answered, StartOK, ReceiveData,
       Forwarded, JoinTimeout, Joined
  <2>2. \A d \in Clients : rpc'[d] # "none" => rpc[d] # "none" \/ d \notin wsClosed
    BY <1>4 DEF ClientLeaves, InitiateSent, Answered, StartOK, ReceiveData,
       Forwarded, JoinTimeout, Joined, TypeOK
  <2>3. \A d \in Clients : hpc'[d] \in Closing => hpc[d] \in Closing
    BY <1>4 DEF ClientLeaves, InitiateSent, Answered, StartOK, ReceiveData,
       Forwarded, JoinTimeout, Joined, TypeOK, Closing
  <2> QED BY <1>1, <2>1, <2>2, <2>3
<1>5. ASSUME NEW c \in Clients, NEW a \in Agents, StartAccepted(c, a)
      PROVE  CauseInv'
  <2>1. \A b \in Agents, d \in Clients : Listed(b, d)' => Listed(b, d)
    BY <1>5 DEF StartAccepted, Listed
  <2>2. \A d \in Clients : agentOf'[d] # None /\ d \notin relayed' =>
          agentOf[d] # None /\ d \notin relayed
    BY <1>5 DEF StartAccepted, TypeOK
  <2>3. \A d \in Clients : hpc'[d] \in Closing => hpc[d] \in Closing
    BY <1>5 DEF StartAccepted, TypeOK, Closing
  <2> QED BY <1>5, <2>1, <2>2, <2>3, CauseFrame DEF StartAccepted
<1>6. ASSUME NEW c \in Clients,
             \/ RejectStart(c) \/ InitiateRaises(c) \/ StartOKRaises(c)
             \/ Refused(c) \/ MessageRaises(c) \/ ForwardRaises(c)
      PROVE  CauseInv'
  <2>1. /\ UNCHANGED <<lpc, cur, pending, agentOf, relayed, rpc>>
        /\ wsClosed' = wsClosed \cup {c}
    BY <1>6 DEF RejectStart, InitiateRaises, StartOKRaises, Refused,
       MessageRaises, ForwardRaises, Crash
  <2>2. rpc[c] = "none" \/ Cause(c)'
    <3>1. CASE ForwardRaises(c) \/ MessageRaises(c)
      BY <3>1 DEF ForwardRaises, MessageRaises, Crash, Cause, TypeOK
    <3>2. CASE ~ (ForwardRaises(c) \/ MessageRaises(c))
      BY <1>6, <3>2 DEF RejectStart, InitiateRaises, StartOKRaises, Refused,
         ProgressInv
    <3> QED BY <3>1, <3>2
  <2>3. \A d \in Clients : hpc'[d] \in Closing => hpc[d] \in Closing
    BY <1>6 DEF RejectStart, InitiateRaises, StartOKRaises, Refused,
       MessageRaises, ForwardRaises, Crash, TypeOK, Closing
  <2>4. \A b \in Agents, d \in Clients : Listed(b, d)' => Listed(b, d)
    BY <2>1 DEF Listed
  <2> QED BY <2>1, <2>2, <2>3, <2>4, CauseFrame
<1>7. ASSUME NEW c \in Clients, Disconnect(c) \/ HandlerClose(c)
      PROVE  CauseInv'
  <2>1. /\ UNCHANGED <<lpc, cur, pending, agentOf, rpc>>
        /\ relayed' = relayed \ {c} /\ wsClosed' \subseteq wsClosed \cup {c}
        /\ \A d \in Clients \ {c} : hpc'[d] = hpc[d]
    BY <1>7 DEF Disconnect, HandlerClose, Drop, TypeOK
  <2>2. Cause(c)'
    <3>1. rpc[c] # "none" /\ agentOf[c] # None
      BY <1>7 DEF Disconnect, HandlerClose, ProgressInv
    <3>2. Cause(c)
      BY <1>7, <3>1 DEF Disconnect, HandlerClose, CauseInv, Cause
    <3> QED BY <1>0, <3>1, <3>2
  <2>3. \A b \in Agents, d \in Clients : Listed(b, d)' => Listed(b, d)
    BY <2>1 DEF Listed
  <2> QED BY <2>1, <2>2, <2>3, CauseFrame
<1>8. ASSUME NEW c \in Clients, ReaderStart(c) \/ ReaderWake(c) \/ ReaderSent(c)
      PROVE  CauseInv'
  <2>1. UNCHANGED <<lpc, cur, pending, agentOf, relayed, wsClosed, hpc>>
    BY <1>8 DEF ReaderStart, ReaderWake, ReaderSent
  <2>2. rpc[c] # "none" /\ \A d \in Clients \ {c} : rpc'[d] = rpc[d]
    BY <1>8 DEF ReaderStart, ReaderWake, ReaderSent, LoopAgain, Take, Park,
       Stop, TypeOK
  <2> QED BY <1>1, <2>1, <2>2
<1>9. ASSUME NEW c \in Clients, ReaderSendRaises(c) \/ ReaderCancelled(c)
      PROVE  CauseInv'
  <2>1. /\ UNCHANGED <<lpc, cur, pending, agentOf, wsClosed, hpc>>
        /\ relayed' = relayed \ {c} /\ rpc[c] # "none"
        /\ \A d \in Clients \ {c} : rpc'[d] = rpc[d]
    BY <1>9 DEF ReaderSendRaises, ReaderCancelled, Drop, Stop, ProgressInv, TypeOK
  <2>2. Cause(c)'
    <3>1. Cause(c)
      BY <1>9, <2>1 DEF ReaderSendRaises, ReaderCancelled, CauseInv, Cause
    <3> QED BY <1>0, <2>1, <3>1 DEF ProgressInv
  <2>3. \A b \in Agents, d \in Clients : Listed(b, d)' => Listed(b, d)
    BY <2>1 DEF Listed
  <2> QED BY <2>1, <2>2, <2>3, CauseFrame
<1>10. ASSUME NEW a \in Agents, NEW c \in Clients, RecvReset(a, c)
       PROVE  CauseInv'
  <2>1. /\ UNCHANGED <<agentOf, relayed, rpc, wsClosed, hpc>>
        /\ agentOf'[c] = a /\ TargetLost(c)' /\ lpc[a] = "receive"
        /\ pending' = pending
    BY <1>10 DEF RecvReset, TargetLost, TypeOK
  <2>2. \A b \in Agents, d \in Clients :
          Listed(b, d)' => Listed(b, d) \/ (b = a /\ d = c)
    <3>1. CASE lpc' = lpc /\ cur' = cur
      BY <2>1, <3>1 DEF Listed
    <3>2. CASE /\ lpc' = [lpc EXCEPT ![a] = "close"]
               /\ cur' = [cur EXCEPT ![a] = c]
      BY <2>1, <3>2 DEF Listed, LoopInv, TypeOK
    <3> QED BY <1>10, <3>1, <3>2 DEF RecvReset
  <2> QED BY <2>1, <2>2, CauseFrame
<1>11. ASSUME NEW a \in Agents, RecvDisconnect(a) PROVE CauseInv'
  <2> DEFINE todo == {c \in relayed : agentOf[c] = a}
  <2>1. /\ a \notin agentUp /\ CloseNext(a, todo) /\ todo \in SUBSET Clients
        /\ UNCHANGED <<agentOf, agentUp, relayed, rpc, wsClosed, hpc>>
    BY <1>11 DEF RecvDisconnect, TypeOK
  <2>2. /\ \A b \in Agents \ {a} : /\ lpc'[b] = lpc[b] /\ cur'[b] = cur[b]
                                   /\ pending'[b] = pending[b]
        /\ \A c \in Clients : c = cur'[a] \/ c \in pending'[a] => c \in todo
    BY <2>1, CloseNextCovers
  <2>3. \A b \in Agents, d \in Clients :
          Listed(b, d)' => Listed(b, d) \/ (agentOf'[d] = b /\ TargetLost(d)')
    BY <2>1, <2>2 DEF Listed, TargetLost
  <2> QED BY <2>1, <2>3, CauseFrame
<1>12. ASSUME NEW a \in Agents, LoopClose(a) \/ LoopDrop(a) PROVE CauseInv'
  <2>1. PICK c \in Clients : c = cur[a]
    BY <1>12 DEF LoopClose, LoopDrop, TypeOK
  <2>2. /\ Listed(a, c) /\ UNCHANGED <<agentOf, rpc, hpc>>
        /\ pending[a] \in SUBSET Clients
    BY <1>12, <2>1 DEF LoopClose, LoopDrop, TypeOK, Listed
  <2>3. Cause(c)'
    <3>1. agentOf[c] # None /\ Cause(c)
      BY <2>2, ConstantsOK DEF CauseInv, Listed, Cause
    <3> QED BY <1>0, <3>1
  <2>4. relayed \ {c} \subseteq relayed' /\ wsClosed' \subseteq wsClosed \cup {c}
    BY <1>12, <2>1 DEF LoopClose, LoopDrop, Drop
  <2>5. \A b \in Agents, d \in Clients : Listed(b, d)' => Listed(b, d)
    <3>1. CASE lpc' = [lpc EXCEPT ![a] = "drop"] /\ UNCHANGED <<cur, pending>>
      BY <2>1, <2>2, <3>1 DEF Listed, TypeOK
    <3>2. CASE CloseNext(a, pending[a])
      <4>1. /\ \A b \in Agents \ {a} : /\ lpc'[b] = lpc[b] /\ cur'[b] = cur[b]
                                       /\ pending'[b] = pending[b]
            /\ \A d \in Clients : d = cur'[a] \/ d \in pending'[a] => d \in pending[a]
        BY <2>2, <3>2, CloseNextCovers
      <4> QED BY <2>2, <4>1 DEF Listed
    <3> QED BY <1>12, <3>1, <3>2 DEF LoopClose, LoopDrop
  <2> QED BY <2>2, <2>3, <2>4, <2>5, CauseFrame
<1>13. ASSUME NEW a \in Agents, LoopRaises(a) PROVE CauseInv'
  <2>1. \A b \in Agents, d \in Clients : Listed(b, d)' => Listed(b, d)
    BY <1>13 DEF LoopRaises, Listed, TypeOK
  <2> QED BY <1>13, <2>1, CauseFrame DEF LoopRaises
<1>14. CASE UNCHANGED vars
  BY <1>1, <1>14 DEF vars
<1> QED
  BY <1>2, <1>3, <1>4, <1>5, <1>6, <1>7, <1>8, <1>9, <1>10, <1>11, <1>12, <1>13,
     <1>14
     DEF Next, HandlerStep, ReaderStep, LoopStep

LEMMA SessionInit == Init => SessionInv
BY ConstantsOK DEF Init, SessionInv, LoopInv, CoverInv, ProgressInv, CauseInv,
   NoUncausedTeardown

LEMMA SessionInductive == TypeOK /\ SessionInv /\ [Next]_vars => SessionInv'
BY CoverInductive, ProgressInductive, CauseInductive DEF SessionInv

\* The whole strengthening holds in every reachable state.
THEOREM SessionInvHolds == Spec => []SessionInv
<1> QED BY SessionInit, SessionInductive, InitType, TypeInductive, PTL DEF Spec

\* Losing one peer, or a handler that raises, never tears down a connection of
\* other peers.
THEOREM NoUncausedTeardownHolds == Spec => []NoUncausedTeardown
<1>1. SessionInv => NoUncausedTeardown
  BY DEF SessionInv, CauseInv
<1> QED BY <1>1, SessionInvHolds, PTL

-----------------------------------------------------------------------------
\* What a handler's end leaves behind follows from what it has torn down when it
\* closes the connection.
ReturnInv ==
  \A c \in Clients :
    /\ hpc[c] \in {"start", "close", "join", "cancel_join", "done"} =>
         c \notin relayed /\ c \notin accessClients
    /\ hpc[c] = "done" => rpc[c] \in {"none", "done"}

LEMMA ReturnInit == Init => ReturnInv
BY DEF Init, ReturnInv

LEMMA ReturnInductive ==
  TypeOK /\ ProgressInv /\ ReturnInv /\ [Next]_vars => ReturnInv'
<1> SUFFICES ASSUME TypeOK, ProgressInv, ReturnInv, [Next]_vars PROVE ReturnInv'
  OBVIOUS
<1> USE DEF loopVars, tableVars, socketVars, readerVars, remoteVars, Goto
<1>1. ASSUME UNCHANGED <<hpc, rpc, accessClients>>, relayed' \subseteq relayed
      PROVE  ReturnInv'
  BY <1>1 DEF ReturnInv
<1>2. ASSUME NEW a \in Agents, AgentJoins(a) \/ AgentLeaves(a) PROVE ReturnInv'
  BY <1>1, <1>2 DEF AgentJoins, AgentLeaves
<1>3. ASSUME NEW c \in Clients, ClientLeaves(c) PROVE ReturnInv'
  BY <1>1, <1>3 DEF ClientLeaves
<1>4. ASSUME NEW c \in Clients, RejectStart(c) PROVE ReturnInv'
  BY <1>4 DEF RejectStart, ReturnInv, ProgressInv, TypeOK
<1>5. ASSUME NEW c \in Clients, NEW a \in Agents, StartAccepted(c, a)
      PROVE  ReturnInv'
  BY <1>5 DEF StartAccepted, ReturnInv, TypeOK
<1>6. ASSUME NEW c \in Clients,
             \/ InitiateSent(c) \/ InitiateRaises(c) \/ Answered(c)
             \/ StartOKRaises(c) \/ Refused(c)
             \/ ReceiveData(c) \/ MessageRaises(c) \/ Forwarded(c) \/ ForwardRaises(c)
      PROVE  ReturnInv'
  BY <1>6 DEF InitiateSent, InitiateRaises, Answered, StartOKRaises, Refused,
     ReceiveData, MessageRaises, Forwarded, ForwardRaises, Crash, ReturnInv, TypeOK
<1>7. ASSUME NEW c \in Clients, StartOK(c) PROVE ReturnInv'
  BY <1>7 DEF StartOK, ReturnInv, TypeOK
<1>8. ASSUME NEW c \in Clients, Disconnect(c) PROVE ReturnInv'
  BY <1>8 DEF Disconnect, Drop, ReturnInv, TypeOK
<1>9. ASSUME NEW c \in Clients, HandlerClose(c) PROVE ReturnInv'
  BY <1>9 DEF HandlerClose, Drop, ReturnInv, TypeOK
<1>10. ASSUME NEW c \in Clients, JoinTimeout(c) \/ Joined(c) PROVE ReturnInv'
  BY <1>10 DEF JoinTimeout, Joined, ReturnInv, TypeOK
<1>11. ASSUME NEW c \in Clients, ReaderStep(c) PROVE ReturnInv'
  <2>1. /\ hpc[c] # "done" /\ UNCHANGED <<hpc, accessClients>>
        /\ relayed' \subseteq relayed
        /\ \A d \in Clients \ {c} : rpc'[d] = rpc[d]
    BY <1>11 DEF ReaderStep, ReaderStart, ReaderWake, ReaderSent,
       ReaderSendRaises, ReaderCancelled, LoopAgain, Take, Park, Stop, Drop,
       ReturnInv, TypeOK
  <2> QED BY <2>1 DEF ReturnInv
<1>12. ASSUME NEW a \in Agents, LoopStep(a) PROVE ReturnInv'
  BY <1>1, <1>12 DEF LoopStep, RecvAnswer, RecvData, RecvReset, RecvDisconnect,
     LoopRaises, LoopClose, LoopDrop, Drop
<1>13. CASE UNCHANGED vars
  BY <1>1, <1>13 DEF vars
<1> QED
  BY <1>2, <1>3, <1>4, <1>5, <1>6, <1>7, <1>8, <1>9, <1>10, <1>11, <1>12, <1>13
     DEF Next, HandlerStep

\* A handler that returned has left no entry in a table and no reader.
THEOREM CleanReturnHolds == Spec => []CleanReturn
<1>2. ReturnInv => CleanReturn
  BY DEF ReturnInv, CleanReturn
<1>3. SessionInv => ProgressInv
  BY DEF SessionInv
<1> QED
  BY <1>2, <1>3, ReturnInit, TypeCorrect, SessionInvHolds, ReturnInductive, PTL DEF Spec

-----------------------------------------------------------------------------
\* The relay dropped the open target connection of c without a close message.
Forgotten(c) ==
  /\ remote[c] = "open" /\ agentOf[c] \in agentUp
  /\ c \notin relayed /\ c \notin closeSent

\* Nobody is going to close it.
Orphan(c) ==
  /\ Forgotten(c) /\ hpc[c] # "close"
  /\ hpc[c] \in {"receive", "forward"} => c \in clientUp /\ c \notin wsClosed
  /\ ~ (hpc[c] = "crashed" /\ rpc[c] = "done" /\ c \in accessClients)

\* There is no such connection, because the relay drops nothing of a live agent
\* before the answer has come, and as long as the target is there a connection
\* that has a reader, and a handler that is not closing it, is dropped by no one
\* but that reader, which ends with it.
OrphanOK(c) ==
  /\ ~ Orphan(c)
  /\ hpc[c] = "initiate" \/ remote[c] = "asked" =>
       /\ answers[c] = "empty"
       /\ agentOf[c] \in agentUp => c \in relayed
  /\ remote[c] = "asked" => hpc[c] = "answer"
  /\ hpc[c] \in {"receive", "forward", "crashed"} /\ rpc[c] # "none" =>
       /\ c \in accessClients
       /\ Forgotten(c) => rpc[c] = "done"

OrphanInv == \A c \in Clients : OrphanOK(c)

\* Neither the close messages nor the closes of clients' sockets are taken back.
LEMMA ClosesStay ==
  TypeOK /\ [Next]_vars => closeSent \subseteq closeSent' /\ wsClosed \subseteq wsClosed'
<1> SUFFICES ASSUME TypeOK, [Next]_vars
             PROVE  closeSent \subseteq closeSent' /\ wsClosed \subseteq wsClosed'
  OBVIOUS
<1> USE DEF loopVars, tableVars, socketVars, readerVars, remoteVars
<1>1. ASSUME NEW c \in Clients, HandlerStep(c)
      PROVE  closeSent \subseteq closeSent' /\ wsClosed \subseteq wsClosed'
  BY <1>1 DEF HandlerStep, RejectStart, StartAccepted, InitiateSent, InitiateRaises,
     Answered, StartOK, StartOKRaises, Refused, ReceiveData, MessageRaises, Forwarded,
     ForwardRaises, Disconnect, HandlerClose, JoinTimeout, Joined, Crash, InformAgent
<1>2. ASSUME NEW c \in Clients, ReaderStep(c) \/ ClientLeaves(c)
      PROVE  closeSent \subseteq closeSent' /\ wsClosed \subseteq wsClosed'
  BY <1>2 DEF ReaderStep, ReaderStart, ReaderWake, ReaderSent, ReaderSendRaises,
     ReaderCancelled, ClientLeaves
<1>3. ASSUME NEW a \in Agents, AgentJoins(a) \/ AgentLeaves(a) \/ LoopStep(a)
      PROVE  closeSent \subseteq closeSent' /\ wsClosed \subseteq wsClosed'
  BY <1>3 DEF AgentJoins, AgentLeaves, LoopStep, RecvAnswer, RecvData, RecvReset,
     RecvDisconnect, LoopRaises, LoopClose, LoopDrop, InformAgent
<1>4. CASE UNCHANGED vars
  BY <1>4 DEF vars
<1> QED BY <1>1, <1>2, <1>3, <1>4 DEF Next

\* A step that leaves d's handler, reader and target alone, and does not drop d
\* unless its agent or its target is gone.
LEMMA OrphanFrame ==
  ASSUME TypeOK, ProgressInv, [Next]_vars, NEW d \in Clients, OrphanOK(d),
         hpc'[d] = hpc[d], rpc'[d] = rpc[d], remote'[d] = remote[d],
         answers'[d] = answers[d], agentOf'[d] = agentOf[d],
         d \in accessClients => d \in accessClients',
         d \in relayed /\ d \notin relayed' => TargetLost(d)'
  PROVE  OrphanOK(d)'
<1>1. agentOf[d] # None => Kept(d)
  BY PeersStayGone
<1>2. agentOf[d] \in agentUp' => agentOf[d] # None
  BY TypeInductive, ConstantsOK DEF TypeOK
<1>3. d \in closeSent => d \in closeSent'
  BY ClosesStay
<1>4. d \in wsClosed => d \in wsClosed'
  BY ClosesStay
<1>5. ~ Orphan(d)'
  BY <1>1, <1>2, <1>3, <1>4 DEF OrphanOK, Orphan, Forgotten, Kept, TargetLost
<1>6. hpc'[d] \in {"receive", "forward", "crashed"} /\ rpc'[d] # "none" =>
        /\ d \in accessClients'
        /\ Forgotten(d)' => rpc'[d] = "done"
  BY <1>1, <1>2, <1>3 DEF OrphanOK, Forgotten, Kept, TargetLost
<1>7. hpc'[d] = "initiate" \/ remote'[d] = "asked" =>
        answers'[d] = "empty" /\ (agentOf'[d] \in agentUp' => d \in relayed')
  BY <1>1, <1>2 DEF OrphanOK, Kept, TargetLost, ProgressInv
<1> QED BY <1>5, <1>6, <1>7 DEF OrphanOK

\* A step of a loop drops only connections on its list.
LEMMA LoopDropsLost ==
  ASSUME TypeOK, ProgressInv, CauseInv, [Next]_vars, NEW a \in Agents,
         LoopClose(a) \/ LoopDrop(a), NEW d \in relayed \ relayed'
  PROVE  TargetLost(d)'
<1>1. d = cur[a] /\ d \in Clients /\ Listed(a, d)
  BY DEF LoopClose, LoopDrop, Drop, Listed, TypeOK
<1>2. agentOf[d] = a /\ TargetLost(d)
  BY <1>1 DEF CauseInv, Listed
<1> QED BY <1>1, <1>2, PeersStayGone, ConstantsOK DEF Kept, TargetLost

LEMMA OrphanInit == Init => OrphanInv
BY DEF Init, OrphanInv, OrphanOK, Orphan, Forgotten

LEMMA OrphanInductive ==
  TypeOK /\ ProgressInv /\ CauseInv /\ ReturnInv /\ OrphanInv /\ [Next]_vars => OrphanInv'
<1> SUFFICES ASSUME TypeOK, ProgressInv, CauseInv, ReturnInv, OrphanInv, [Next]_vars,
                    NEW d \in Clients
             PROVE  OrphanOK(d)'
  BY DEF OrphanInv
<1> USE DEF loopVars, tableVars, socketVars, readerVars, remoteVars, Goto
<1>0. OrphanOK(d) /\ (agentOf[d] # None => Kept(d))
  BY PeersStayGone DEF OrphanInv
<1>1. CASE /\ UNCHANGED <<hpc, rpc, remote, answers, agentOf, accessClients>>
           /\ d \in relayed /\ d \notin relayed' => TargetLost(d)'
  BY <1>0, <1>1, OrphanFrame
<1>2. ASSUME NEW a \in Agents,
             \/ AgentJoins(a) \/ AgentLeaves(a) \/ RecvDisconnect(a) \/ LoopRaises(a)
             \/ \E c \in Clients : RecvData(a, c)
      PROVE  OrphanOK(d)'
  BY <1>1, <1>2 DEF AgentJoins, AgentLeaves, RecvDisconnect, LoopRaises, RecvData
<1>3. ASSUME NEW a \in Agents, LoopClose(a) \/ LoopDrop(a) PROVE OrphanOK(d)'
  <2>1. d \in relayed /\ d \notin relayed' => TargetLost(d)'
    BY <1>3, LoopDropsLost
  <2> QED BY <1>1, <1>3, <2>1 DEF LoopClose, LoopDrop
<1>4. ASSUME NEW a \in Agents, NEW c \in Clients, RecvAnswer(a, c)
      PROVE  OrphanOK(d)'
  <2>1. CASE d = c
    <3>1. /\ remote[d] = "asked" /\ remote'[d] \in {"open", "refused"}
          /\ UNCHANGED <<hpc, rpc, agentOf, agentUp, relayed, accessClients>>
      BY <1>4, <2>1 DEF RecvAnswer, TypeOK
    <3> QED BY <1>0, <3>1 DEF OrphanOK, Orphan, Forgotten
  <2>2. CASE d # c
    BY <1>0, <1>4, <2>2, OrphanFrame DEF RecvAnswer, TypeOK
  <2> QED BY <2>1, <2>2
<1>5. ASSUME NEW a \in Agents, NEW c \in Clients, RecvReset(a, c)
      PROVE  OrphanOK(d)'
  <2>1. CASE d = c
    <3>1. /\ remote[d] = "open" /\ remote'[d] = "ended"
          /\ UNCHANGED <<hpc, rpc, agentOf, agentUp, relayed, accessClients>>
      BY <1>5, <2>1 DEF RecvReset, TypeOK
    <3> QED BY <1>0, <3>1 DEF OrphanOK, Orphan, Forgotten, ProgressInv, TargetLost
  <2>2. CASE d # c
    BY <1>0, <1>5, <2>2, OrphanFrame DEF RecvReset, TypeOK
  <2> QED BY <2>1, <2>2
<1>6. ASSUME NEW c \in Clients, ClientLeaves(c) PROVE OrphanOK(d)'
  BY <1>1, <1>6 DEF ClientLeaves
<1>7. ASSUME NEW c \in Clients, HandlerStep(c), c # d PROVE OrphanOK(d)'
  <2>1. /\ hpc'[d] = hpc[d] /\ rpc'[d] = rpc[d] /\ remote'[d] = remote[d]
        /\ answers'[d] = answers[d] /\ agentOf'[d] = agentOf[d]
        /\ d \in accessClients => d \in accessClients'
    BY <1>7 DEF HandlerStep, RejectStart, StartAccepted, InitiateSent,
       InitiateRaises, Answered, StartOK, StartOKRaises, Refused, ReceiveData,
       MessageRaises, Forwarded, ForwardRaises, Disconnect, HandlerClose, JoinTimeout, Joined,
       Crash, TypeOK
  <2>2. d \in relayed => d \in relayed'
    BY <1>7 DEF HandlerStep, RejectStart, StartAccepted, InitiateSent,
       InitiateRaises, Answered, StartOK, StartOKRaises, Refused, ReceiveData,
       MessageRaises, Forwarded, ForwardRaises, Disconnect, HandlerClose, JoinTimeout, Joined,
       Crash, Drop
  <2> QED BY <1>0, <2>1, <2>2, OrphanFrame
<1>8. ASSUME NEW c \in Clients, ReaderStep(c), c # d PROVE OrphanOK(d)'
  <2>1. /\ rpc'[d] = rpc[d] /\ (d \in relayed => d \in relayed')
        /\ UNCHANGED <<hpc, remote, answers, agentOf, accessClients>>
    BY <1>8 DEF ReaderStep, ReaderStart, ReaderWake, ReaderSent, LoopAgain,
       ReaderSendRaises, ReaderCancelled, Take, Park, Stop, Drop, TypeOK
  <2> QED BY <1>0, <2>1, OrphanFrame
<1>9. ASSUME RejectStart(d) PROVE OrphanOK(d)'
  BY <1>0, <1>9 DEF RejectStart, OrphanOK, Orphan, Forgotten, ProgressInv, TypeOK
<1>10. ASSUME NEW a \in Agents, StartAccepted(d, a) PROVE OrphanOK(d)'
  BY <1>0, <1>10 DEF StartAccepted, OrphanOK, Orphan, Forgotten, ProgressInv, TypeOK
<1>11. ASSUME InitiateSent(d) PROVE OrphanOK(d)'
  BY <1>0, <1>11 DEF InitiateSent, OrphanOK, Orphan, Forgotten, ProgressInv, TypeOK
<1>12. ASSUME InitiateRaises(d) \/ StartOKRaises(d) \/ Refused(d) \/ ForwardRaises(d)
       PROVE  OrphanOK(d)'
  <2>1. /\ hpc'[d] = "crashed" /\ wsClosed' = wsClosed \cup {d}
        /\ UNCHANGED <<rpc, remote, answers, agentOf, agentUp, clientUp, relayed, closeSent,
                       accessClients>>
    BY <1>12 DEF InitiateRaises, StartOKRaises, Refused, ForwardRaises, Crash, TypeOK
  <2>2. hpc[d] \in {"initiate", "start_ok", "refused", "forward"}
    BY <1>12 DEF InitiateRaises, StartOKRaises, Refused, ForwardRaises
  <2>3. CASE hpc[d] = "forward"
    <3>1. agentOf[d] \notin agentUp
      BY <1>12, <2>3 DEF InitiateRaises, StartOKRaises, Refused, ForwardRaises,
         SendRaises
    <3> QED BY <1>0, <2>1, <2>3, <3>1 DEF OrphanOK, Orphan, Forgotten, TargetLost
  <2>4. CASE hpc[d] # "forward"
    BY <1>0, <2>1, <2>2, <2>4 DEF OrphanOK, Orphan, Forgotten, ProgressInv
  <2> QED BY <2>3, <2>4
<1>13. ASSUME Answered(d) PROVE OrphanOK(d)'
  BY <1>0, <1>13 DEF Answered, OrphanOK, Orphan, Forgotten, TypeOK
<1>14. ASSUME \/ StartOK(d) \/ ReceiveData(d) \/ Forwarded(d) \/ Disconnect(d)
              \/ JoinTimeout(d) \/ Joined(d)
       PROVE  OrphanOK(d)'
  <2>1. CASE StartOK(d) \/ ReceiveData(d) \/ Forwarded(d)
    <3>1. CASE StartOK(d)
      <4>1. rpc[d] = "none" /\ rpc'[d] = "start" /\ hpc'[d] = "receive"
        BY <3>1 DEF StartOK, ProgressInv, TypeOK
      <4>2. ~ Forgotten(d)
        BY <1>0, <3>1 DEF StartOK, OrphanOK, Orphan
      <4> QED BY <1>0, <3>1, <4>1, <4>2 DEF StartOK, OrphanOK, Orphan, Forgotten, TargetLost
    <3>2. CASE ReceiveData(d) \/ Forwarded(d)
      BY <1>0, <3>2 DEF ReceiveData, Forwarded, OrphanOK, Orphan, Forgotten, TargetLost, TypeOK
    <3> QED BY <2>1, <3>1, <3>2
  <2>2. CASE Disconnect(d)
    BY <1>0, <2>2 DEF Disconnect, Drop, OrphanOK, Orphan, Forgotten, TypeOK
  <2>3. CASE JoinTimeout(d) \/ Joined(d)
    BY <1>0, <2>3 DEF JoinTimeout, Joined, OrphanOK, Orphan, Forgotten, TypeOK
  <2> QED BY <1>14, <2>1, <2>2, <2>3
<1>15. ASSUME HandlerClose(d) PROVE OrphanOK(d)'
  <2>1. d \in closeSent' \/ agentOf[d] \notin agentUp
    BY <1>15 DEF HandlerClose, InformAgent, SendRaises
  <2> QED BY <1>0, <1>15, <2>1 DEF HandlerClose, OrphanOK, Orphan, Forgotten, TypeOK
<1>16. ASSUME ReaderStart(d) \/ ReaderWake(d) \/ ReaderSent(d)
       PROVE  OrphanOK(d)'
  <2>1. /\ rpc[d] \notin {"none", "done"}
        /\ UNCHANGED <<hpc, remote, answers, tableVars, socketVars, closeSent>>
    BY <1>16 DEF ReaderStart, ReaderWake, ReaderSent
  <2> QED BY <1>0, <2>1 DEF OrphanOK, Orphan, Forgotten
<1>17. ASSUME ReaderSendRaises(d) PROVE OrphanOK(d)'
  <2>1. /\ rpc[d] = "send" /\ rpc'[d] = "done" /\ (d \notin clientUp \/ d \in wsClosed)
        /\ relayed' = relayed \ {d}
        /\ UNCHANGED <<hpc, remote, answers, agentOf, accessClients, socketVars, closeSent>>
    BY <1>17 DEF ReaderSendRaises, Stop, Drop, TypeOK
  <2>2. CASE d \notin relayed
    BY <1>0, <2>1, <2>2 DEF OrphanOK, Orphan, Forgotten
  <2>3. CASE d \in relayed
    <3>1. hpc[d] \in {"receive", "forward", "crashed"}
      BY <2>1, <2>3 DEF ProgressInv, ReturnInv, TypeOK, HandlerPC
    <3>2. d \in accessClients /\ remote[d] # "asked"
      BY <1>0, <2>1, <3>1 DEF OrphanOK
    <3> QED BY <2>1, <3>1, <3>2 DEF OrphanOK, Orphan
  <2> QED BY <2>2, <2>3
<1>18. ASSUME ReaderCancelled(d) PROVE OrphanOK(d)'
  <2>1. /\ hpc[d] = "cancel_join" /\ relayed' = relayed \ {d}
        /\ UNCHANGED <<hpc, remote, answers, agentOf, socketVars, closeSent>>
    BY <1>18 DEF ReaderCancelled, Drop
  <2> QED BY <1>0, <2>1 DEF OrphanOK, Orphan, Forgotten, ReturnInv
<1>19. ASSUME MessageRaises(d) PROVE OrphanOK(d)'
  <2>1. /\ hpc[d] = "receive" /\ hpc'[d] = "crashed"
        /\ UNCHANGED <<rpc, remote, answers, agentOf, agentUp, relayed, accessClients,
                       closeSent>>
    BY <1>19 DEF MessageRaises, Crash, TypeOK
  <2>2. rpc[d] # "none"
    BY <2>1 DEF ProgressInv
  <2> QED BY <1>0, <2>1, <2>2 DEF OrphanOK, Orphan, Forgotten, TargetLost
<1>20. CASE UNCHANGED vars
  BY <1>1, <1>20 DEF vars
<1> QED
  BY <1>2, <1>3, <1>4, <1>5, <1>6, <1>7, <1>8, <1>9, <1>10, <1>11, <1>12,
     <1>13, <1>14, <1>15, <1>16, <1>17, <1>18, <1>19, <1>20
     DEF Next, HandlerStep, ReaderStep, LoopStep

\* A target connection that the agent still has open was never forgotten by the
\* relay: its close was sent, or its handler is on the way to send it.
THEOREM NoOrphanAtAgentHolds == Spec => []NoOrphanAtAgent
<1>1. Init => ReturnInv
  BY DEF Init, ReturnInv
<1>2. OrphanInv => NoOrphanAtAgent
  BY DEF OrphanInv, OrphanOK, Orphan, Forgotten, NoOrphanAtAgent
<1>3. SessionInv => ProgressInv /\ CauseInv
  BY DEF SessionInv
<1> QED
  BY <1>1, <1>2, <1>3, OrphanInit, TypeCorrect, SessionInvHolds, ReturnInductive,
     OrphanInductive, PTL DEF Spec

-----------------------------------------------------------------------------
(* The byte stream from the target to the client: what the reader, the      *)
(* buffer and the client have together is what the agent has sent.          *)

\* What has come through the relay or is in it.
Through(c) == delivered[c] \o hand[c] \o buf[c]

\* Nothing is lost as long as the reader runs; a reader that has ended may have
\* lost what it had in hand, but delivers no more.
StreamOK(c) ==
  /\ delivered[c] = UpTo(Len(delivered[c]))
  /\ rpc[c] # "done" => Through(c) = UpTo(Len(Through(c)))
  /\ c \in relayed => rpc[c] # "done" /\ Through(c) = UpTo(emitted[c])
  /\ rpc[c] # "send" => hand[c] = <<>>
  /\ hpc[c] = "start" =>
       delivered[c] = <<>> /\ hand[c] = <<>> /\ buf[c] = <<>> /\ emitted[c] = 0

StreamInv == \A c \in Clients : StreamOK(c)

\* read() hands out the front of the buffer and keeps the rest.
LEMMA TakeSplits ==
  ASSUME TypeOK, NEW c \in Clients, Take(c)
  PROVE  hand'[c] \o buf'[c] = buf[c]
<1> DEFINE n == IF Len(buf[c]) < ReadSize THEN Len(buf[c]) ELSE ReadSize
<1>1. buf[c] \in Seq(Nat) /\ Len(buf[c]) \in Nat
  BY DEF TypeOK
<1>2. n \in 0 .. Len(buf[c])
  BY <1>1, ConstantsOK
<1>3. /\ hand'[c] = SubSeq(buf[c], 1, n)
      /\ buf'[c] = SubSeq(buf[c], n + 1, Len(buf[c]))
  BY DEF Take, TypeOK
<1> HIDE DEF n
<1> QED BY <1>1, <1>2, <1>3, SplitSeq

\* The reader goes on with what it had sent counted as delivered.
LEMMA ReadKeeps ==
  ASSUME TypeOK, TypeOK', NEW c \in Clients, Take(c) \/ Park(c),
         delivered'[c] = delivered[c] \o hand[c]
  PROVE  Through(c)' = Through(c)
<1>1. /\ delivered[c] \o hand[c] \in Seq(Nat) /\ delivered'[c] \in Seq(Nat)
      /\ hand'[c] \in Seq(Nat) /\ buf'[c] \in Seq(Nat) /\ buf[c] \in Seq(Nat)
  BY DEF TypeOK
<1>2. hand'[c] \o buf'[c] = buf[c]
  <2>1. CASE Take(c)
    BY <2>1, TakeSplits
  <2>2. CASE Park(c)
    BY <1>1, <2>2, ConcatEmptySeq DEF Park, TypeOK
  <2> QED BY <2>1, <2>2
<1>3. (delivered'[c] \o hand'[c]) \o buf'[c] = delivered'[c] \o (hand'[c] \o buf'[c])
  BY <1>1, RegroupSeq
<1> QED BY <1>2, <1>3 DEF Through

\* A step that leaves d's reader and data alone and does not create d.
LEMMA StreamFrame ==
  ASSUME NEW d \in Clients, StreamOK(d),
         rpc'[d] = rpc[d], buf'[d] = buf[d], hand'[d] = hand[d],
         delivered'[d] = delivered[d], emitted'[d] = emitted[d],
         d \in relayed' => d \in relayed, hpc'[d] = "start" => hpc[d] = "start"
  PROVE  StreamOK(d)'
<1>1. Through(d)' = Through(d)
  BY DEF Through
<1> QED BY <1>1 DEF StreamOK

\* The reader takes more or parks.
LEMMA ReadStream ==
  ASSUME TypeOK, TypeOK', NEW d \in Clients, StreamOK(d), rpc[d] # "done",
         Take(d) \/ Park(d), delivered'[d] = delivered[d] \o hand[d],
         UNCHANGED <<relayed, emitted, hpc>>, hpc[d] # "start"
  PROVE  StreamOK(d)'
<1>1. Through(d)' = Through(d)
  BY ReadKeeps
<1>2. /\ delivered[d] \o hand[d] \in Seq(Nat) /\ buf[d] \in Seq(Nat)
      /\ Through(d) = (delivered[d] \o hand[d]) \o buf[d] /\ Len(Through(d)) \in Nat
  BY DEF TypeOK, Through
<1>3. delivered'[d] = UpTo(Len(delivered'[d]))
  <2> DEFINE s == delivered[d] \o hand[d]
  <2>1. s \in Seq(Nat) /\ s \o buf[d] = UpTo(Len(Through(d)))
    BY <1>2 DEF StreamOK
  <2> HIDE DEF s
  <2>2. s = UpTo(Len(s))
    BY <1>2, <2>1, PrefixOfUpTo
  <2> QED BY <2>2 DEF s
<1>4. rpc'[d] # "done" /\ (rpc'[d] # "send" => hand'[d] = <<>>)
  BY DEF Take, Park, Goto, TypeOK
<1> QED BY <1>1, <1>3, <1>4 DEF StreamOK

\* The reader ends: only of a connection that is not active any more.
LEMMA StopStream ==
  ASSUME TypeOK, TypeOK', NEW d \in Clients, StreamOK(d), rpc[d] # "done",
         Stop(d), d \notin relayed', hpc'[d] # "start",
         delivered'[d] \in {delivered[d], delivered[d] \o hand[d]}
  PROVE  StreamOK(d)'
<1>1. /\ delivered[d] \o hand[d] \in Seq(Nat) /\ buf[d] \in Seq(Nat)
      /\ Through(d) = (delivered[d] \o hand[d]) \o buf[d] /\ Len(Through(d)) \in Nat
  BY DEF TypeOK, Through
<1>2. delivered'[d] = UpTo(Len(delivered'[d]))
  <2>1. delivered[d] \o hand[d] = UpTo(Len(delivered[d] \o hand[d]))
    <3> DEFINE s == delivered[d] \o hand[d]
    <3>1. s \in Seq(Nat) /\ s \o buf[d] = UpTo(Len(Through(d)))
      BY <1>1 DEF StreamOK
    <3> HIDE DEF s
    <3>2. s = UpTo(Len(s))
      BY <1>1, <3>1, PrefixOfUpTo
    <3> QED BY <3>2 DEF s
  <2> QED BY <2>1 DEF StreamOK
<1>3. rpc'[d] = "done" /\ hand'[d] = <<>>
  BY DEF Stop, Goto, TypeOK
<1> QED BY <1>2, <1>3 DEF StreamOK

\* A chunk from the agent is put behind what is there.
LEMMA FillStream ==
  ASSUME TypeOK, NEW d \in Clients, StreamOK(d), d \in relayed, hpc[d] # "start",
         UNCHANGED <<rpc, hand, delivered, hpc>>,
         buf'[d] = Append(buf[d], emitted[d] + 1), emitted'[d] = emitted[d] + 1
  PROVE  StreamOK(d)'
<1>1. /\ delivered[d] \o hand[d] \in Seq(Nat) /\ buf[d] \in Seq(Nat)
      /\ emitted[d] \in Nat
  BY ConstantsOK DEF TypeOK
<1>2. Through(d)' = Append(Through(d), emitted[d] + 1)
  <2> DEFINE s == delivered[d] \o hand[d]
  <2>1. s \o Append(buf[d], emitted[d] + 1) = Append(s \o buf[d], emitted[d] + 1)
    <3> HIDE DEF s
    <3>1. s \in Seq(Nat) /\ emitted[d] + 1 \in Nat
      BY <1>1 DEF s
    <3> QED BY <1>1, <3>1, AppendRegroup
  <2> QED BY <2>1 DEF Through
<1>3. Through(d) = UpTo(emitted[d])
  BY DEF StreamOK
<1>4. Through(d)' = UpTo(emitted[d] + 1)
  BY <1>1, <1>2, <1>3, NextOfUpTo
<1>5. Len(UpTo(emitted[d] + 1)) = emitted[d] + 1
  <2>1. emitted[d] + 1 \in Nat
    BY <1>1
  <2> QED BY <2>1, UpToIsSeq
<1> QED BY <1>4, <1>5 DEF StreamOK

LEMMA StreamInductive ==
  TypeOK /\ ProgressInv /\ StreamInv /\ [Next]_vars => StreamInv'
<1> SUFFICES ASSUME TypeOK, ProgressInv, StreamInv, [Next]_vars, NEW d \in Clients
             PROVE  StreamOK(d)'
  BY DEF StreamInv
<1> USE DEF loopVars, tableVars, socketVars, readerVars, remoteVars, Goto
<1>0. StreamOK(d) /\ TypeOK'
  BY TypeInductive DEF StreamInv
<1>1. CASE /\ UNCHANGED <<rpc, buf, hand, delivered, emitted, hpc>>
           /\ relayed' \subseteq relayed
  BY <1>0, <1>1, StreamFrame
<1>2. ASSUME NEW a \in Agents, AgentJoins(a) \/ AgentLeaves(a) PROVE StreamOK(d)'
  BY <1>1, <1>2 DEF AgentJoins, AgentLeaves
<1>3. ASSUME NEW c \in Clients, ClientLeaves(c) PROVE StreamOK(d)'
  BY <1>1, <1>3 DEF ClientLeaves
<1>4. ASSUME NEW a \in Agents,
             \/ RecvDisconnect(a) \/ LoopRaises(a) \/ LoopClose(a) \/ LoopDrop(a)
             \/ \E c \in Clients : RecvAnswer(a, c) \/ RecvReset(a, c)
      PROVE  StreamOK(d)'
  BY <1>1, <1>4 DEF RecvDisconnect, LoopRaises, LoopClose, LoopDrop, RecvAnswer, RecvReset, Drop
<1>5. ASSUME NEW a \in Agents, NEW c \in Clients, RecvData(a, c)
      PROVE  StreamOK(d)'
  <2>1. UNCHANGED <<rpc, hand, delivered, hpc, relayed>> /\ hpc[c] # "start"
    BY <1>5 DEF RecvData, ProgressInv
  <2>2. CASE d # c
    <3>1. buf'[d] = buf[d] /\ emitted'[d] = emitted[d]
      BY <1>5, <2>2 DEF RecvData, TypeOK
    <3> QED BY <1>0, <2>1, <3>1, StreamFrame
  <2>3. CASE d = c /\ d \in relayed
    <3>1. buf'[d] = Append(buf[d], emitted[d] + 1) /\ emitted'[d] = emitted[d] + 1
      BY <1>5, <2>3 DEF RecvData, TypeOK
    <3> QED BY <1>0, <2>1, <2>3, <3>1, FillStream
  <2>4. CASE d = c /\ d \notin relayed
    <3>1. UNCHANGED buf
      BY <1>5, <2>4 DEF RecvData
    <3>2. Through(d)' = Through(d)
      BY <2>1, <3>1 DEF Through
    <3> QED BY <1>0, <2>1, <2>4, <3>2 DEF StreamOK
  <2> QED BY <2>2, <2>3, <2>4
<1>6. ASSUME NEW c \in Clients, NEW a \in Agents, StartAccepted(c, a)
      PROVE  StreamOK(d)'
  <2>1. UNCHANGED <<rpc, buf, hand, delivered, emitted>> /\ relayed' = relayed \cup {c}
    BY <1>6 DEF StartAccepted
  <2>2. CASE d # c
    <3>1. hpc'[d] = hpc[d] /\ (d \in relayed' => d \in relayed)
      BY <1>6, <2>1, <2>2 DEF StartAccepted, TypeOK
    <3> QED BY <1>0, <2>1, <3>1, StreamFrame
  <2>3. CASE d = c
    <3>1. hpc[d] = "start" /\ hpc'[d] = "initiate" /\ rpc[d] = "none"
      BY <1>6, <2>3 DEF StartAccepted, TypeOK, ProgressInv
    <3>2. Through(d)' = Through(d)
      BY <2>1 DEF Through
    <3>3. Through(d) = UpTo(0)
      <4>1. UpTo(0) \in Seq(Nat) /\ Len(UpTo(0)) = 0
        BY UpToIsSeq
      <4>2. delivered[d] = <<>> /\ hand[d] = <<>> /\ buf[d] = <<>>
        BY <1>0, <3>1 DEF StreamOK
      <4>3. <<>> \o <<>> = UpTo(0)
        BY <4>1
      <4>4. UpTo(0) = <<>>
        BY <4>1
      <4> QED BY <4>2, <4>3, <4>4 DEF Through
    <3> QED BY <1>0, <2>1, <3>1, <3>2, <3>3 DEF StreamOK
  <2> QED BY <2>2, <2>3
<1>7. ASSUME NEW c \in Clients, StartOK(c) PROVE StreamOK(d)'
  <2>1. UNCHANGED <<relayed, hand, delivered, buf, emitted>>
    BY <1>7 DEF StartOK
  <2>2. CASE d # c
    <3>1. hpc'[d] = hpc[d] /\ rpc'[d] = rpc[d]
      BY <1>7, <2>2 DEF StartOK, TypeOK
    <3> QED BY <1>0, <2>1, <3>1, StreamFrame
  <2>3. CASE d = c
    <3>1. rpc[d] = "none" /\ rpc'[d] = "start" /\ hpc'[d] = "receive"
      BY <1>7, <2>3 DEF StartOK, TypeOK, ProgressInv
    <3>2. Through(d)' = Through(d)
      BY <2>1 DEF Through
    <3> QED BY <1>0, <2>1, <3>1, <3>2 DEF StreamOK
  <2> QED BY <2>2, <2>3
<1>8. ASSUME NEW c \in Clients,
             \/ RejectStart(c) \/ InitiateSent(c) \/ InitiateRaises(c) \/ Answered(c)
             \/ StartOKRaises(c) \/ Refused(c) \/ ReceiveData(c) \/ Forwarded(c)
             \/ ForwardRaises(c) \/ Disconnect(c) \/ HandlerClose(c)
             \/ JoinTimeout(c) \/ Joined(c) \/ MessageRaises(c)
      PROVE  StreamOK(d)'
  <2>1. /\ UNCHANGED <<rpc, buf, hand, delivered, emitted>>
        /\ relayed' \subseteq relayed
        /\ hpc'[d] = "start" => hpc[d] = "start"
    BY <1>8 DEF RejectStart, InitiateSent, InitiateRaises, Answered,
       StartOKRaises, Refused, ReceiveData, Forwarded, ForwardRaises, Disconnect,
       HandlerClose, JoinTimeout, Joined, MessageRaises, Crash, Drop, TypeOK
  <2> QED BY <1>0, <2>1, StreamFrame
<1>9. ASSUME NEW c \in Clients, ReaderStep(c), c # d PROVE StreamOK(d)'
  <2>1. /\ rpc'[d] = rpc[d] /\ buf'[d] = buf[d] /\ hand'[d] = hand[d]
        /\ delivered'[d] = delivered[d]
        /\ UNCHANGED <<emitted, hpc>> /\ relayed' \subseteq relayed
    BY <1>9 DEF ReaderStep, ReaderStart, ReaderWake, ReaderSent, LoopAgain,
       ReaderSendRaises, ReaderCancelled, Take, Park, Stop, Drop, TypeOK
  <2> QED BY <1>0, <2>1, StreamFrame
<1>10. rpc[d] # "none" => hpc[d] # "start"
  BY DEF ProgressInv
<1>11. ASSUME ReaderStart(d) \/ ReaderWake(d) PROVE StreamOK(d)'
  <2>1. /\ rpc[d] \in {"start", "wait"} /\ UNCHANGED <<delivered, relayed, emitted, hpc>>
        /\ Take(d) \/ Park(d) \/ (d \notin relayed /\ Stop(d))
    BY <1>11 DEF ReaderStart, ReaderWake, LoopAgain
  <2>2. delivered'[d] = delivered[d] \o hand[d]
    <3>1. hand[d] = <<>> /\ delivered[d] \in Seq(Nat)
      BY <1>0, <2>1 DEF StreamOK, TypeOK
    <3> QED BY <2>1, <3>1, ConcatEmptySeq
  <2>3. CASE Take(d) \/ Park(d)
    BY <1>0, <1>10, <2>1, <2>2, <2>3, ReadStream
  <2>4. CASE d \notin relayed /\ Stop(d)
    BY <1>0, <1>10, <2>1, <2>2, <2>4, StopStream
  <2> QED BY <2>1, <2>3, <2>4
<1>12. ASSUME ReaderSent(d) PROVE StreamOK(d)'
  <2>1. /\ rpc[d] = "send" /\ UNCHANGED <<relayed, emitted, hpc>>
        /\ Take(d) \/ Park(d) \/ (d \notin relayed /\ Stop(d))
        /\ delivered'[d] = delivered[d] \o hand[d]
    BY <1>12 DEF ReaderSent, LoopAgain, TypeOK
  <2>2. CASE Take(d) \/ Park(d)
    BY <1>0, <1>10, <2>1, <2>2, ReadStream
  <2>3. CASE d \notin relayed /\ Stop(d)
    BY <1>0, <1>10, <2>1, <2>3, StopStream
  <2> QED BY <2>1, <2>2, <2>3
<1>13. ASSUME ReaderSendRaises(d) \/ ReaderCancelled(d) PROVE StreamOK(d)'
  <2>1. /\ rpc[d] # "done" /\ Stop(d) /\ d \notin relayed'
        /\ UNCHANGED <<delivered, hpc>>
    BY <1>13 DEF ReaderSendRaises, ReaderCancelled, Drop
  <2>2. hpc[d] # "start"
    BY <1>10, <1>13 DEF ReaderSendRaises, ReaderCancelled
  <2> QED BY <1>0, <2>1, <2>2, StopStream
<1>14. CASE UNCHANGED vars
  BY <1>1, <1>14 DEF vars
<1> QED
  BY <1>2, <1>3, <1>4, <1>5, <1>6, <1>7, <1>8, <1>9, <1>11, <1>12, <1>13, <1>14
     DEF Next, HandlerStep, ReaderStep, LoopStep

LEMMA StreamInit == Init => StreamInv
<1>1. UpTo(0) = <<>>
  BY UpToIsSeq
<1>2. <<>> \o <<>> = <<>> /\ Len(<<>>) = 0
  OBVIOUS
<1> QED BY <1>1, <1>2 DEF Init, StreamInv, StreamOK, Through

\* What the client is sent is a prefix of what the agent sent, and while the
\* connection is active nothing of it is lost on its way through the relay.
THEOREM StreamIntactHolds == Spec => []StreamIntact
<1>2. StreamInv => StreamIntact
  BY DEF StreamInv, StreamOK, Through, StreamIntact
<1>3. SessionInv => ProgressInv
  BY DEF SessionInv
<1> QED
  BY <1>2, <1>3, StreamInit, TypeCorrect, SessionInvHolds, StreamInductive, PTL DEF Spec

-----------------------------------------------------------------------------
(* What a task waits for, and what it has done before it stopped.           *)

\* A handler that waits for its answer has a queue, which stays empty only until
\* the agent has answered; one that stopped has closed its client's socket, and
\* one that tore its connection down has informed the agent, if there is one.
WaitOK(c) ==
  /\ hpc[c] \in {"initiate", "answer"} => answers[c] # "none"
  /\ hpc[c] = "answer" /\ answers[c] = "empty" => remote[c] \in {"none", "asked"}
  /\ hpc[c] \in {"join", "cancel_join", "done", "crashed"} => c \in wsClosed
  /\ hpc[c] \in {"join", "cancel_join", "done"} /\ agentOf[c] \in agentUp => c \in closeSent
  /\ hpc[c] = "start" => c \notin closeSent

\* An agent that is there is in the table.
WaitInv ==
  /\ agentUp \subseteq registered
  /\ \A c \in Clients : WaitOK(c)

LEMMA WaitInit == Init => WaitInv
BY ConstantsOK DEF Init, WaitInv, WaitOK

\* A step that leaves d's handler and answer alone.
LEMMA WaitFrame ==
  ASSUME TypeOK, ProgressInv, [Next]_vars, NEW d \in Clients, WaitOK(d),
         hpc'[d] = hpc[d], answers'[d] = answers[d], agentOf'[d] = agentOf[d],
         remote'[d] = remote[d] \/ remote[d] = "open",
         d \in closeSent' => d \in closeSent \/ agentOf[d] # None
  PROVE  WaitOK(d)'
<1>1. agentOf[d] # None => Kept(d)
  BY PeersStayGone
<1>2. agentOf[d] \in agentUp' => agentOf[d] # None
  BY TypeInductive, ConstantsOK DEF TypeOK
<1>3. d \in closeSent => d \in closeSent'
  BY ClosesStay
<1>4. d \in wsClosed => d \in wsClosed'
  BY ClosesStay
<1> QED BY <1>1, <1>2, <1>3, <1>4 DEF WaitOK, Kept, ProgressInv

LEMMA WaitInductive ==
  TypeOK /\ ProgressInv /\ CauseInv /\ OrphanInv /\ WaitInv /\ [Next]_vars => WaitInv'
<1> SUFFICES ASSUME TypeOK, ProgressInv, CauseInv, OrphanInv, WaitInv, [Next]_vars
             PROVE  WaitInv'
  OBVIOUS
<1> USE DEF loopVars, tableVars, socketVars, readerVars, remoteVars, Goto
<1>1. agentUp' \subseteq registered'
  <2>1. ASSUME NEW a \in Agents, AgentJoins(a) \/ AgentLeaves(a) \/ RecvDisconnect(a)
        PROVE  agentUp' \subseteq registered'
    BY <2>1 DEF AgentJoins, AgentLeaves, RecvDisconnect, WaitInv
  <2>2. ASSUME NEW a \in Agents,
               \/ LoopRaises(a) \/ LoopClose(a) \/ LoopDrop(a)
               \/ \E c \in Clients : RecvAnswer(a, c) \/ RecvData(a, c) \/ RecvReset(a, c)
        PROVE  UNCHANGED <<agentUp, registered>>
    BY <2>2 DEF LoopRaises, LoopClose, LoopDrop, RecvAnswer, RecvData, RecvReset
  <2>3. ASSUME NEW c \in Clients, HandlerStep(c)
        PROVE  UNCHANGED <<agentUp, registered>>
    BY <2>3 DEF HandlerStep, RejectStart, StartAccepted, InitiateSent, InitiateRaises,
       Answered, StartOK, StartOKRaises, Refused, ReceiveData, Forwarded, ForwardRaises,
       Disconnect, HandlerClose, JoinTimeout, Joined, MessageRaises, Crash
  <2>4. ASSUME NEW c \in Clients, ClientLeaves(c) \/ ReaderStep(c)
        PROVE  UNCHANGED <<agentUp, registered>>
    BY <2>4 DEF ClientLeaves, ReaderStep, ReaderStart, ReaderWake, ReaderSent,
       ReaderSendRaises, ReaderCancelled
  <2>5. UNCHANGED vars => UNCHANGED <<agentUp, registered>>
    BY DEF vars
  <2> QED BY <2>1, <2>2, <2>3, <2>4, <2>5 DEF Next, LoopStep, WaitInv
<1> SUFFICES ASSUME NEW d \in Clients PROVE WaitOK(d)'
  BY <1>1 DEF WaitInv
<1>0. WaitOK(d) /\ OrphanOK(d)
  BY DEF WaitInv, OrphanInv
<1>2. CASE UNCHANGED <<hpc, remote, answers, agentOf, closeSent>>
  BY <1>0, <1>2, WaitFrame
<1>3. ASSUME NEW a \in Agents,
             \/ AgentJoins(a) \/ AgentLeaves(a) \/ RecvDisconnect(a) \/ LoopDrop(a)
             \/ LoopRaises(a)
             \/ \E c \in Clients : RecvData(a, c)
      PROVE  WaitOK(d)'
  BY <1>2, <1>3 DEF AgentJoins, AgentLeaves, RecvDisconnect, LoopDrop, LoopRaises,
     RecvData
<1>4. ASSUME NEW c \in Clients, ClientLeaves(c) \/ ReaderStep(c) PROVE WaitOK(d)'
  BY <1>2, <1>4 DEF ClientLeaves, ReaderStep, ReaderStart, ReaderWake, ReaderSent,
     ReaderSendRaises, ReaderCancelled
<1>5. ASSUME NEW a \in Agents, LoopClose(a) PROVE WaitOK(d)'
  <2>1. cur[a] \in Clients /\ agentOf[cur[a]] = a
    BY <1>5 DEF LoopClose, TypeOK, CauseInv
  <2>2. UNCHANGED <<hpc, remote, answers, agentOf>> /\ closeSent' \subseteq closeSent \cup {cur[a]}
    BY <1>5 DEF LoopClose, InformAgent
  <2> QED BY <1>0, <2>1, <2>2, WaitFrame, ConstantsOK
<1>6. ASSUME NEW a \in Agents, NEW c \in Clients, RecvAnswer(a, c)
      PROVE  WaitOK(d)'
  <2>1. CASE d = c
    <3>1. /\ remote[d] = "asked" /\ UNCHANGED <<hpc, agentOf, agentUp, wsClosed, closeSent>>
          /\ answers[d] # "none" => answers'[d] \in {"ok", "error"}
      BY <1>6, <2>1 DEF RecvAnswer, TypeOK
    <3>2. hpc[d] = "answer"
      BY <1>0, <3>1 DEF OrphanOK
    <3> QED BY <1>0, <3>1, <3>2 DEF WaitOK
  <2>2. CASE d # c
    BY <1>0, <1>6, <2>2, WaitFrame DEF RecvAnswer, TypeOK
  <2> QED BY <2>1, <2>2
<1>7. ASSUME NEW a \in Agents, NEW c \in Clients, RecvReset(a, c)
      PROVE  WaitOK(d)'
  BY <1>0, <1>7, WaitFrame DEF RecvReset, TypeOK
<1>8. ASSUME NEW c \in Clients, HandlerStep(c), c # d PROVE WaitOK(d)'
  <2>1. /\ hpc'[d] = hpc[d] /\ remote'[d] = remote[d]
        /\ answers'[d] = answers[d] /\ agentOf'[d] = agentOf[d]
    BY <1>8 DEF HandlerStep, RejectStart, StartAccepted, InitiateSent,
       InitiateRaises, Answered, StartOK, StartOKRaises, Refused, ReceiveData,
       MessageRaises, Forwarded, ForwardRaises, Disconnect, HandlerClose, JoinTimeout, Joined,
       Crash, TypeOK
  <2>2. d \in closeSent' => d \in closeSent
    BY <1>8 DEF HandlerStep, RejectStart, StartAccepted, InitiateSent,
       InitiateRaises, Answered, StartOK, StartOKRaises, Refused, ReceiveData,
       MessageRaises, Forwarded, ForwardRaises, Disconnect, HandlerClose, JoinTimeout, Joined,
       Crash, InformAgent
  <2> QED BY <1>0, <2>1, <2>2, WaitFrame
<1>9. ASSUME RejectStart(d) PROVE WaitOK(d)'
  BY <1>0, <1>9, ConstantsOK DEF RejectStart, WaitOK, ProgressInv, TypeOK
<1>10. ASSUME NEW a \in Agents, StartAccepted(d, a) PROVE WaitOK(d)'
  BY <1>0, <1>10 DEF StartAccepted, WaitOK, TypeOK
<1>11. ASSUME InitiateSent(d) PROVE WaitOK(d)'
  BY <1>0, <1>11 DEF InitiateSent, WaitOK, ProgressInv, TypeOK
<1>12. ASSUME \/ InitiateRaises(d) \/ StartOKRaises(d) \/ Refused(d)
              \/ MessageRaises(d) \/ ForwardRaises(d)
       PROVE  WaitOK(d)'
  BY <1>0, <1>12 DEF InitiateRaises, StartOKRaises, Refused, MessageRaises,
     ForwardRaises, Crash, WaitOK, TypeOK
<1>13. ASSUME Answered(d) PROVE WaitOK(d)'
  BY <1>0, <1>13 DEF Answered, WaitOK, TypeOK
<1>14. ASSUME StartOK(d) \/ ReceiveData(d) \/ Forwarded(d) \/ Disconnect(d)
       PROVE  WaitOK(d)'
  BY <1>0, <1>14 DEF StartOK, ReceiveData, Forwarded, Disconnect, Drop, WaitOK, TypeOK
<1>15. ASSUME HandlerClose(d) PROVE WaitOK(d)'
  <2>1. d \in closeSent' \/ agentOf[d] \notin agentUp
    BY <1>15 DEF HandlerClose, InformAgent, SendRaises
  <2> QED BY <1>0, <1>15, <2>1 DEF HandlerClose, WaitOK, TypeOK
<1>16. ASSUME JoinTimeout(d) \/ Joined(d) PROVE WaitOK(d)'
  <2>1. hpc[d] \in {"join", "cancel_join"} /\ hpc'[d] \in {"cancel_join", "done"}
        /\ UNCHANGED <<remote, answers, agentOf, agentUp, wsClosed, closeSent>>
    BY <1>16 DEF JoinTimeout, Joined, TypeOK
  <2> QED BY <1>0, <2>1 DEF WaitOK
<1>17. CASE UNCHANGED vars
  BY <1>2, <1>17 DEF vars
<1> QED
  BY <1>3, <1>4, <1>5, <1>6, <1>7, <1>8, <1>9, <1>10, <1>11, <1>12,
     <1>13, <1>14, <1>15, <1>16, <1>17
     DEF Next, HandlerStep, LoopStep

=============================================================================

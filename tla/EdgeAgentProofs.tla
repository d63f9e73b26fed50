-------------------------- MODULE EdgeAgentProofs --------------------------
(***************************************************************************)
(* Proofs about EdgeAgent, for any number of connections, sessions and     *)
(* chunks.                                                                 *)
(***************************************************************************)
EXTENDS EdgeAgent, FiniteSetTheorems, TLAPS

\* A connect under way belongs to the session that asked for it.
ConnectInv == mpc = "connect" => born[cur] = session

\* The inductive invariant.
EdgeInv == TypeOK /\ NoLeakedWriter /\ SessionOwnsConnections /\ ConnectInv

\* What a send adds to the messages that went to the relay.
LEMMA SendType ==
  ASSUME TypeOK, NEW c \in Conns, NEW m \in {"ok", "error", "data", "reset"}, Send(c, m)
  PROVE  sent' \in [Conns -> Seq({"ok", "error", "data", "reset"})]
<1>1. Append(sent[c], m) \in Seq({"ok", "error", "data", "reset"})
  BY DEF TypeOK
<1>2. CASE sent' = sent
  BY <1>2 DEF TypeOK
<1>3. CASE sent' = [sent EXCEPT ![c] = Append(@, m)]
  BY <1>1, <1>3 DEF TypeOK
<1> QED
  BY <1>2, <1>3 DEF Send

\* The steps of the main task keep the types of all variables.
LEMMA TypeMain == TypeOK /\ Main => TypeOK'
<1> SUFFICES ASSUME TypeOK, Main PROVE TypeOK'
  OBVIOUS
<1> USE EdgeOK DEF TypeOK, MainPlaces, TargetStates, Outputs, NoConn, Conns, mainVars,
                   connVars, readerVars, LeaveSession, NextMessage
<1>0. ASSUME mpc' \in MainPlaces, cur' \in Conns \cup {NoConn},
             cur' = NoConn <=> mpc' \in {"down", "receive", "leave"},
             session' \in 0 .. MaxSessions, ws' \in {"up", "broken"},
             UNCHANGED <<connVars, readerVars, sent>>
      PROVE  TypeOK'
  BY <1>0
<1>1. CASE Connect
  <2>1. session' \in 0 .. MaxSessions
    BY <1>1 DEF Connect
  <2>2. /\ mpc = "down" /\ mpc' = "receive" /\ ws' = "up" /\ cur' = cur
        /\ UNCHANGED <<connVars, readerVars, sent>>
    BY <1>1 DEF Connect
  <2>3. cur = NoConn
    BY <2>2
  <2> QED
    BY <1>0, <2>1, <2>2, <2>3
<1>2. CASE ReceiveRaises \/ Unparsable \/ Reported \/ MainSendRaises \/ CleanUp
  <2>1. CASE ReceiveRaises
    BY <2>1 DEF ReceiveRaises
  <2>2. CASE Unparsable
    BY <2>2 DEF Unparsable
  <2>3. CASE Reported
    BY <2>3 DEF Reported
  <2>4. CASE MainSendRaises
    BY <2>4 DEF MainSendRaises
  <2>5. CASE CleanUp
    BY <2>5 DEF CleanUp
  <2> QED
    BY <1>2, <2>1, <2>2, <2>3, <2>4, <2>5
<1>3. ASSUME NEW c \in Conns,
             \/ Initiate(c) \/ Confirmed(c) \/ RelayCloses(c) \/ WriteData(c)
             \/ Drained(c) \/ DrainFails(c)
      PROVE  TypeOK'
  <2>1. CASE Initiate(c)
    BY <2>1 DEF Initiate
  <2>2. CASE Confirmed(c)
    BY <2>2 DEF Confirmed
  <2>3. CASE RelayCloses(c)
    BY <2>3 DEF RelayCloses, CloseWriter
  <2>4. CASE WriteData(c)
    <3>1. output' \in [Conns -> Outputs]
      BY <2>4 DEF WriteData, Write
    <3> QED
      BY <2>4, <3>1 DEF WriteData
  <2>5. CASE Drained(c) \/ DrainFails(c)
    BY <1>0, <2>5 DEF Drained, DrainFails
  <2> QED
    BY <1>3, <2>1, <2>2, <2>3, <2>4, <2>5
<1>4. ASSUME NEW c \in Conns, Connected(c) PROVE TypeOK'
  <2>1. sent' \in [Conns -> Seq({"ok", "error", "data", "reset"})]
    BY <1>4, SendType DEF Connected
  <2> QED
    BY <1>4, <2>1 DEF Connected
<1>5. ASSUME NEW c \in Conns, ConnectFails(c) PROVE TypeOK'
  <2>1. sent' \in [Conns -> Seq({"ok", "error", "data", "reset"})]
    BY <1>5, SendType DEF ConnectFails
  <2> QED
    BY <1>5, <2>1 DEF ConnectFails
<1>6. ASSUME NEW c \in Conns, DrainReset(c) PROVE TypeOK'
  <2>1. sent' \in [Conns -> Seq({"ok", "error", "data", "reset"})]
    BY <1>6, SendType DEF DrainReset
  <2>2. CASE c \in active
    BY <1>6, <2>1, <2>2 DEF DrainReset, CloseWriter
  <2>3. CASE c \notin active
    BY <1>6, <2>1, <2>3 DEF DrainReset, CloseWriter
  <2> QED
    BY <2>2, <2>3
<1> QED
  BY <1>1, <1>2, <1>3, <1>4, <1>5, <1>6 DEF Main

\* The steps of a reader keep the types of all variables.
LEMMA TypeReader == ASSUME NEW c \in Conns, TypeOK, Reader(c) PROVE TypeOK'
<1> USE DEF TypeOK, mainVars, connVars, readerVars
<1>1. CASE ReaderData(c)
  <2>1. sent' \in [Conns -> Seq({"ok", "error", "data", "reset"})]
    BY <1>1, SendType DEF ReaderData
  <2>2. reads' \in [Conns -> 0 .. MaxChunks]
    BY <1>1, EdgeOK DEF ReaderData
  <2> QED
    BY <1>1, <2>1, <2>2 DEF ReaderData
<1>2. CASE ReaderSent(c) \/ ReaderDone(c)
  BY <1>2 DEF ReaderSent, ReaderDone
<1>3. CASE ReaderEnds(c) \/ ReaderSendRaises(c)
  <2>1. Finally(c)
    BY <1>3 DEF ReaderEnds, ReaderSendRaises
  <2>2. sent' \in [Conns -> Seq({"ok", "error", "data", "reset"})]
    BY <2>1, SendType DEF Finally
  <2> QED
    BY <2>1, <2>2 DEF Finally, CloseWriter
<1> QED
  BY <1>1, <1>2, <1>3 DEF Reader

\* Every action keeps the types of all variables.
LEMMA TypeStep == TypeOK /\ [Next]_vars => TypeOK'
<1> SUFFICES ASSUME TypeOK, [Next]_vars PROVE TypeOK'
  OBVIOUS
<1>1. CASE UNCHANGED vars
  BY <1>1 DEF vars, mainVars, connVars, readerVars, TypeOK
<1>2. CASE RelayLost
  BY <1>2 DEF RelayLost, mainVars, connVars, readerVars, TypeOK
<1>3. ASSUME NEW c \in Conns, TargetEnds(c) \/ TargetResets(c) \/ TargetReads(c)
      PROVE  TypeOK'
  <2>1. UNCHANGED <<mainVars, ws, active, born, writer, readerVars, sent>>
    BY <1>3 DEF TargetEnds, TargetResets, TargetReads
  <2>2. target' \in [Conns -> TargetStates] /\ output' \in [Conns -> Outputs]
    <3>1. CASE TargetEnds(c) \/ TargetResets(c)
      <4>1. CASE Reset(c)
        <5>1. PICK how \in {"reset", "failed"} : target' = [target EXCEPT ![c] = how]
          BY <4>1 DEF Reset
        <5>2. how \in TargetStates /\ "none" \in Outputs
          BY DEF TargetStates, Outputs
        <5>3. output' = [output EXCEPT ![c] = "none"]
          BY <4>1 DEF Reset
        <5> QED BY <5>1, <5>2, <5>3 DEF TypeOK
      <4>2. CASE target' = [target EXCEPT ![c] = "ended"] /\ UNCHANGED output
        BY <4>2 DEF TargetStates, TypeOK
      <4> QED BY <3>1, <4>1, <4>2 DEF TargetEnds, TargetResets
    <3>2. CASE TargetReads(c)
      BY <3>2 DEF TargetReads, Outputs, TypeOK
    <3> QED BY <1>3, <3>1, <3>2
  <2> QED
    BY <2>1, <2>2 DEF mainVars, readerVars, TypeOK
<1> QED
  BY <1>1, <1>2, <1>3, TypeMain, TypeReader DEF Next

\* Every variable keeps its type, and the main task deals with a connection
\* exactly while it handles a message about one.
THEOREM TypeCorrect == Spec => []TypeOK
<1>1. Init => TypeOK
  BY EdgeOK DEF Init, TypeOK, MainPlaces, TargetStates, Outputs, NoConn
<1> QED
  BY <1>1, TypeStep, PTL DEF Spec

-----------------------------------------------------------------------------
\* The steps of the main task keep writers and active_connections in line:
\* only Connected adds a connection, of the session it was asked for in, and
\* its reader is created unless the session is left.
LEMMA EdgeMain ==
  EdgeInv /\ Main => (NoLeakedWriter /\ SessionOwnsConnections /\ ConnectInv)'
<1> SUFFICES ASSUME EdgeInv, Main
             PROVE  (NoLeakedWriter /\ SessionOwnsConnections /\ ConnectInv)'
  OBVIOUS
<1> USE DEF EdgeInv, TypeOK, NoLeakedWriter, SessionOwnsConnections, ConnectInv,
            mainVars, connVars, readerVars, LeaveSession, NextMessage
<1>1. CASE Connect
  BY <1>1 DEF Connect
<1>2. CASE ReceiveRaises \/ Unparsable
  BY <1>2 DEF ReceiveRaises, Unparsable
<1>3. CASE Reported \/ MainSendRaises
  BY <1>3 DEF Reported, MainSendRaises
<1>4. CASE CleanUp
  BY <1>4 DEF CleanUp
<1>5. ASSUME NEW c \in Conns, Initiate(c)
      PROVE  (NoLeakedWriter /\ SessionOwnsConnections /\ ConnectInv)'
  BY <1>5 DEF Initiate
<1>6. ASSUME NEW c \in Conns, Connected(c)
      PROVE  (NoLeakedWriter /\ SessionOwnsConnections /\ ConnectInv)'
  BY <1>6 DEF Connected
<1>7. ASSUME NEW c \in Conns, ConnectFails(c) \/ Confirmed(c)
      PROVE  (NoLeakedWriter /\ SessionOwnsConnections /\ ConnectInv)'
  BY <1>7 DEF ConnectFails, Confirmed
<1>8. ASSUME NEW c \in Conns,
             RelayCloses(c) \/ WriteData(c) \/ Drained(c) \/ DrainFails(c)
      PROVE  (NoLeakedWriter /\ SessionOwnsConnections /\ ConnectInv)'
  BY <1>8 DEF RelayCloses, CloseWriter, WriteData, Drained, DrainFails
<1>9. ASSUME NEW c \in Conns, DrainReset(c)
      PROVE  (NoLeakedWriter /\ SessionOwnsConnections /\ ConnectInv)'
  <2>1. mpc' \in {"report", "leave"} /\ mpc = "drain"
    BY <1>9 DEF DrainReset
  <2> QED
    BY <1>9, <2>1 DEF DrainReset, CloseWriter
<1> QED
  BY <1>1, <1>2, <1>3, <1>4, <1>5, <1>6, <1>7, <1>8, <1>9 DEF Main

\* Readers and peers keep the same: a reader ends with its connection closed.
LEMMA EdgeStep == EdgeInv /\ [Next]_vars => EdgeInv'
<1> SUFFICES ASSUME EdgeInv, [Next]_vars PROVE EdgeInv'
  OBVIOUS
<1>1. TypeOK'
  BY TypeStep DEF EdgeInv
<1> SUFFICES (NoLeakedWriter /\ SessionOwnsConnections /\ ConnectInv)'
  BY <1>1 DEF EdgeInv
<1> USE DEF EdgeInv, TypeOK, NoLeakedWriter, SessionOwnsConnections, ConnectInv,
            mainVars, connVars, readerVars
<1>2. CASE UNCHANGED vars
  BY <1>2 DEF vars
<1>3. CASE RelayLost
  BY <1>3 DEF RelayLost
<1>4. ASSUME NEW c \in Conns, TargetEnds(c) \/ TargetResets(c) \/ TargetReads(c)
      PROVE  (NoLeakedWriter /\ SessionOwnsConnections /\ ConnectInv)'
  BY <1>4 DEF TargetEnds, TargetResets, TargetReads
<1>5. ASSUME NEW c \in Conns, Reader(c)
      PROVE  (NoLeakedWriter /\ SessionOwnsConnections /\ ConnectInv)'
  <2>1. CASE ReaderData(c) \/ ReaderSent(c) \/ ReaderDone(c)
    BY <1>5, <2>1 DEF ReaderData, ReaderSent, ReaderDone
  <2>2. CASE ReaderEnds(c) \/ ReaderSendRaises(c)
    BY <1>5, <2>2 DEF ReaderEnds, ReaderSendRaises, Finally, CloseWriter
  <2> QED
    BY <1>5, <2>1, <2>2 DEF Reader
<1> QED
  BY <1>2, <1>3, <1>4, <1>5, EdgeMain DEF Next

\* No connection is active before the first session.
LEMMA EdgeInit == Init => EdgeInv
BY EdgeOK DEF Init, EdgeInv, TypeOK, NoLeakedWriter, SessionOwnsConnections,
              ConnectInv, MainPlaces, TargetStates, Outputs, NoConn

\* A file descriptor is open exactly while its connection is in
\* active_connections, and then a task that will close it exists.
THEOREM NoLeakedWriterHolds == Spec => []NoLeakedWriter
<1>1. EdgeInv => NoLeakedWriter
  BY DEF EdgeInv
<1> QED
  BY <1>1, EdgeInit, EdgeStep, PTL DEF Spec

\* No target connection outlives the session it was opened in.
THEOREM SessionOwnsConnectionsHolds == Spec => []SessionOwnsConnections
<1>1. EdgeInv => SessionOwnsConnections
  BY DEF EdgeInv
<1> QED
  BY <1>1, EdgeInit, EdgeStep, PTL DEF Spec

-----------------------------------------------------------------------------
(* The messages about a connection.                                        *)

\* Counting one message more.
LEMMA CountNext ==
  ASSUME NEW s, NEW k, NEW n \in Nat
  PROVE  /\ Count(s, k, n) \in Nat /\ Count(s, k, 0) = 0
         /\ \A m \in Nat : m = n + 1 =>
              Count(s, k, m) = Count(s, k, n) + (IF s[m] = k THEN 1 ELSE 0)
<1> DEFINE S == {i \in 1 .. n : s[i] = k}
<1>1. IsFiniteSet(S)
  <2>1. IsFiniteSet(1 .. n)
    BY FS_Interval
  <2> QED BY <2>1, FS_Subset
<1>2. Cardinality(S) \in Nat
  BY <1>1, FS_CardinalityType
<1>3. {i \in 1 .. 0 : s[i] = k} = {}
  OBVIOUS
<1>4. {i \in 1 .. n + 1 : s[i] = k} = IF s[n + 1] = k THEN S \cup {n + 1} ELSE S
  OBVIOUS
<1>5. n + 1 \notin S
  OBVIOUS
<1>6. Cardinality(S \cup {n + 1}) = Cardinality(S) + 1
  BY <1>1, <1>5, FS_AddElement
<1> QED
  BY <1>2, <1>3, <1>4, <1>6, FS_EmptySet DEF Count

\* Sequences that agree so far, and one sequence further on.
LEMMA CountSame ==
  ASSUME NEW s, NEW t, NEW k, NEW n \in Nat, \A i \in 1 .. n : s[i] = t[i]
  PROVE  Count(s, k, n) = Count(t, k, n)
<1>1. {i \in 1 .. n : s[i] = k} = {i \in 1 .. n : t[i] = k}
  OBVIOUS
<1> QED BY <1>1 DEF Count

LEMMA CountGrows ==
  ASSUME NEW s, NEW k, NEW n \in Nat, NEW m \in Nat, n <= m
  PROVE  Count(s, k, n) <= Count(s, k, m)
<1> DEFINE S == {i \in 1 .. n : s[i] = k}
           T == {i \in 1 .. m : s[i] = k}
<1>1. IsFiniteSet(T)
  <2>1. IsFiniteSet(1 .. m)
    BY FS_Interval
  <2> QED BY <2>1, FS_Subset
<1>2. S \subseteq T
  OBVIOUS
<1>3. Cardinality(S) <= Cardinality(T)
  BY <1>1, <1>2, FS_Subset
<1> QED BY <1>3 DEF Count

\* A sequence that continues another one by a message.
LEMMA CountLonger ==
  ASSUME NEW s, NEW t, NEW k, NEW n \in Nat, NEW m \in Nat, m = n + 1,
         \A i \in 1 .. n : s[i] = t[i]
  PROVE  Count(t, k, m) = Count(s, k, n) + (IF t[m] = k THEN 1 ELSE 0)
<1>1. Count(s, k, n) = Count(t, k, n)
  BY CountSame
<1>2. Count(t, k, m) = Count(t, k, n) + (IF t[m] = k THEN 1 ELSE 0)
  BY CountNext
<1> QED BY <1>1, <1>2

LEMMA CountAppend ==
  ASSUME NEW K, NEW s \in Seq(K), NEW m \in K, NEW k
  PROVE  Count(Append(s, m), k, Len(Append(s, m))) =
           Count(s, k, Len(s)) + (IF m = k THEN 1 ELSE 0)
<1> DEFINE t == Append(s, m)
<1>1. /\ Len(s) \in Nat /\ Len(t) \in Nat /\ Len(t) = Len(s) + 1 /\ t[Len(t)] = m
      /\ \A i \in 1 .. Len(s) : s[i] = t[i]
  OBVIOUS
<1> HIDE DEF t
<1>2. Count(t, k, Len(t)) = Count(s, k, Len(s)) + (IF t[Len(t)] = k THEN 1 ELSE 0)
  BY <1>1, CountLonger
<1> QED BY <1>1, <1>2 DEF t

\* The resets that may have been sent: one by the reader, one by whoever else
\* closed the writer.
ResetsDue(c) ==
  (IF rpc[c] \in {"report", "done"} THEN 1 ELSE 0) +
  (IF writer[c] = "closed" THEN 1 ELSE 0)

\* Until a connection was answered nothing else is sent about it; when its
\* answer is lost with the session, so is all that comes later.
AnswerInv(c) ==
  /\ born[c] <= session
  /\ born[c] = 0 \/ (mpc = "connect" /\ cur = c) => sent[c] = <<>> /\ writer[c] = "none"
  /\ mpc \in {"confirm", "drain"} /\ cur = c => writer[c] # "none"
  /\ mpc = "confirm" /\ cur = c => rpc[c] = "none"
  /\ writer[c] = "none" => rpc[c] = "none" /\ sent[c] \in {<<>>, <<"error">>}
  /\ writer[c] # "none" =>
       IF sent[c] = <<>> THEN SendRaises(c) ELSE sent[c][1] = "ok"
  /\ \A i \in 2 .. Len(sent[c]) : sent[c][i] \in {"data", "reset"}
  /\ Count(sent[c], "reset", Len(sent[c])) <= ResetsDue(c)

AnswersInv ==
  /\ mpc # "down" => session > 0
  /\ \A c \in Conns : AnswerInv(c)

\* What every step keeps of the main task's dealings with a connection.
MainKeeps(c) ==
  /\ born'[c] = 0 \/ (mpc' = "connect" /\ cur' = c) =>
       born[c] = 0 \/ (mpc = "connect" /\ cur = c)
  /\ mpc' \in {"confirm", "drain"} /\ cur' = c => writer'[c] # "none"
  /\ mpc' = "confirm" /\ cur' = c => rpc'[c] = "none"
  /\ born'[c] <= session'

\* A step that sends nothing about the connection.
LEMMA AnswerQuiet ==
  ASSUME NEW c \in Conns, AnswerInv(c), MainKeeps(c), sent'[c] = sent[c],
         writer'[c] = writer[c] \/ (writer[c] = "open" /\ writer'[c] = "closed"),
         writer[c] = "none" => rpc'[c] = "none",
         writer[c] # "none" /\ SendRaises(c) => SendRaises(c)',
         ResetsDue(c) \in Nat, ResetsDue(c)' \in Nat, ResetsDue(c)' >= ResetsDue(c),
         Len(sent[c]) \in Nat
  PROVE  AnswerInv(c)'
<1>1. Count(sent[c], "reset", Len(sent[c])) \in Nat
  BY CountNext
<1>2. (Count(sent[c], "reset", Len(sent[c])) <= ResetsDue(c))'
  <2>1. Count(sent[c], "reset", Len(sent[c]))' = Count(sent[c], "reset", Len(sent[c]))
    BY DEF Count
  <2> QED BY <1>1, <2>1 DEF AnswerInv
<1>3. (\A i \in 2 .. Len(sent[c]) : sent[c][i] \in {"data", "reset"})'
  BY DEF AnswerInv
<1> QED BY <1>2, <1>3 DEF AnswerInv, MainKeeps

\* A step that sends data or a reset about a connection that was answered.
LEMMA AnswerMore ==
  ASSUME TypeOK, NEW c \in Conns, AnswerInv(c), MainKeeps(c),
         NEW m \in {"data", "reset"}, Send(c, m),
         writer[c] # "none", writer'[c] # "none", UNCHANGED <<born, session, ws>>,
         ResetsDue(c) \in Nat, ResetsDue(c)' \in Nat,
         ResetsDue(c)' >= ResetsDue(c) + (IF m = "reset" THEN 1 ELSE 0)
  PROVE  AnswerInv(c)'
<1>0. /\ sent[c] \in Seq({"ok", "error", "data", "reset"}) /\ Len(sent[c]) \in Nat
      /\ Count(sent[c], "reset", Len(sent[c])) \in Nat
  BY CountNext DEF TypeOK
<1>1. CASE sent' = sent
  <2>1. ResetsDue(c)' >= ResetsDue(c)
    OBVIOUS
  <2>2. SendRaises(c)' = SendRaises(c)
    BY DEF SendRaises
  <2>3. (Count(sent[c], "reset", Len(sent[c])) <= ResetsDue(c))'
    <3>1. Count(sent[c], "reset", Len(sent[c]))' = Count(sent[c], "reset", Len(sent[c]))
      BY <1>1 DEF Count
    <3> QED BY <1>0, <2>1, <3>1 DEF AnswerInv
  <2> QED BY <1>1, <2>2, <2>3 DEF AnswerInv, MainKeeps
<1>2. CASE ~ SendRaises(c) /\ sent' = [sent EXCEPT ![c] = Append(@, m)]
  <2>1. sent[c] # <<>> /\ sent[c][1] = "ok"
    BY <1>2 DEF AnswerInv
  <2>2. sent'[c] = Append(sent[c], m)
    BY <1>2 DEF TypeOK
  <2>3. /\ sent'[c] # <<>> /\ sent'[c][1] = "ok" /\ Len(sent'[c]) = Len(sent[c]) + 1
        /\ \A i \in 1 .. Len(sent[c]) : sent'[c][i] = sent[c][i]
        /\ sent'[c][Len(sent[c]) + 1] = m
    <3> DEFINE s == sent[c]
    <3>1. s \in Seq({"ok", "error", "data", "reset"}) /\ s # <<>> /\ s[1] = "ok"
      BY <1>0, <2>1
    <3> HIDE DEF s
    <3>2. /\ Append(s, m) # <<>> /\ Append(s, m)[1] = "ok"
          /\ Len(Append(s, m)) = Len(s) + 1
          /\ \A i \in 1 .. Len(s) : Append(s, m)[i] = s[i]
          /\ Append(s, m)[Len(s) + 1] = m
      BY <3>1
    <3> QED BY <2>2, <3>2 DEF s
  <2>4. \A i \in 2 .. Len(sent'[c]) : sent'[c][i] \in {"data", "reset"}
    <3>1. TAKE i \in 2 .. Len(sent'[c])
    <3>2. i \in 2 .. Len(sent[c]) \/ i = Len(sent[c]) + 1
      BY <1>0, <2>3
    <3> QED BY <1>0, <2>3, <3>2 DEF AnswerInv
  <2>5. Count(sent'[c], "reset", Len(sent'[c])) <= ResetsDue(c)'
    <3>1. Count(sent'[c], "reset", Len(sent'[c])) =
            Count(sent[c], "reset", Len(sent[c])) + (IF m = "reset" THEN 1 ELSE 0)
      BY <1>0, <2>2, CountAppend
    <3> QED BY <1>0, <3>1 DEF AnswerInv
  <2> QED BY <2>3, <2>4, <2>5 DEF AnswerInv, MainKeeps
<1> QED BY <1>1, <1>2 DEF Send, SendRaises

\* The step that answers: nothing was sent before.
LEMMA AnswerFirst ==
  ASSUME TypeOK, NEW c \in Conns, AnswerInv(c), MainKeeps(c),
         mpc = "connect", cur = c, mpc' # "connect", born[c] # 0,
         NEW m \in {"ok", "error"}, Send(c, m), UNCHANGED <<born, session, ws, rpc>>,
         m = "ok" => writer'[c] = "open", m = "error" => writer'[c] = "none"
  PROVE  AnswerInv(c)'
<1>1. sent[c] = <<>> /\ rpc[c] = "none"
  BY DEF AnswerInv
<1>2. \/ SendRaises(c) /\ sent' = sent
      \/ sent' = [sent EXCEPT ![c] = Append(@, m)]
  BY DEF Send, SendRaises, TypeOK
<1>3. sent'[c] = <<>> \/ sent'[c] = <<m>>
  BY <1>1, <1>2 DEF TypeOK
<1>4. sent'[c] = <<>> => SendRaises(c)'
  <2>1. SendRaises(c)' = SendRaises(c)
    BY DEF SendRaises
  <2>2. sent' = [sent EXCEPT ![c] = Append(@, m)] => sent'[c] = <<m>>
    BY <1>1 DEF TypeOK
  <2> QED BY <1>2, <2>1, <2>2
<1>5. Count(sent'[c], "reset", Len(sent'[c])) = 0
  <2>1. CASE sent'[c] = <<>>
    BY <2>1, CountNext
  <2>2. CASE sent'[c] = <<m>>
    <3>1. {i \in 1 .. 1 : <<m>>[i] = "reset"} = {}
      OBVIOUS
    <3> QED BY <2>2, <3>1, FS_EmptySet DEF Count
  <2> QED BY <1>3, <2>1, <2>2
<1>6. ResetsDue(c)' \in Nat /\ ResetsDue(c)' >= 0
  BY DEF ResetsDue
<1>7. \A i \in 2 .. Len(sent'[c]) : sent'[c][i] \in {"data", "reset"}
  BY <1>3
<1>8. rpc'[c] = "none" /\ sent'[c] # <<>> => sent'[c][1] = m
  BY <1>1, <1>3
<1>9. (Count(sent[c], "reset", Len(sent[c])) <= ResetsDue(c))'
  BY <1>5, <1>6 DEF ResetsDue
<1> QED
  BY <1>1, <1>3, <1>4, <1>7, <1>8, <1>9 DEF AnswerInv, MainKeeps

LEMMA DueType ==
  ASSUME NEW c \in Conns PROVE ResetsDue(c) \in Nat /\ ResetsDue(c)' \in Nat
BY DEF ResetsDue

\* A lost answer stays lost: a connection never comes back to a later session.
LEMMA LostStaysLost ==
  ASSUME TypeOK, NEW c \in Conns, born[c] <= session, UNCHANGED born,
         \/ session' = session /\ (ws' = ws \/ ws' = "broken")
         \/ session' = session + 1
  PROVE  /\ SendRaises(c) => SendRaises(c)'
         /\ born'[c] <= session'
BY DEF TypeOK, SendRaises

\* The steps of the main task, seen by one connection.
LEMMA AnswerMain ==
  ASSUME EdgeInv, AnswersInv, Main, NEW d \in Conns
  PROVE  AnswerInv(d)'
<1>0. /\ TypeOK /\ AnswerInv(d) /\ ResetsDue(d) \in Nat /\ ResetsDue(d)' \in Nat
      /\ Len(sent[d]) \in Nat /\ born[d] <= session
      /\ born[d] \in Nat /\ session \in Nat
  <2>1. TypeOK /\ AnswerInv(d)
    BY DEF EdgeInv, AnswersInv
  <2>2. Len(sent[d]) \in Nat
    BY <2>1 DEF TypeOK
  <2>3. born[d] \in Nat /\ session \in Nat
    BY <2>1, EdgeOK DEF TypeOK
  <2>4. born[d] <= session
    BY <2>1 DEF AnswerInv
  <2> QED BY <2>1, <2>2, <2>3, <2>4, DueType
<1>1. ASSUME UNCHANGED <<born, writer, rpc, sent>>, mpc' \notin {"connect", "confirm"},
             mpc' = "drain" => cur' \in active,
             \/ session' = session /\ (ws' = ws \/ ws' = "broken")
             \/ session' = session + 1
      PROVE  AnswerInv(d)'
  <2>1. writer'[d] = writer[d] /\ ResetsDue(d)' = ResetsDue(d)
    BY <1>1 DEF ResetsDue
  <2>2. MainKeeps(d)
    BY <1>0, <1>1, LostStaysLost DEF MainKeeps, EdgeInv, NoLeakedWriter, TypeOK, AnswerInv
  <2>3. writer[d] = "none" => rpc'[d] = "none"
    BY <1>0, <1>1 DEF AnswerInv
  <2>4. SendRaises(d) => SendRaises(d)'
    BY <1>0, <1>1, LostStaysLost
  <2> QED
    BY <1>0, <1>1, <2>1, <2>2, <2>3, <2>4, AnswerQuiet
<1>2. CASE Connect \/ ReceiveRaises \/ Unparsable \/ Reported \/ MainSendRaises
  BY <1>1, <1>2 DEF Connect, ReceiveRaises, Unparsable, Reported, MainSendRaises,
     LeaveSession, NextMessage, connVars, readerVars, mainVars
<1>3. ASSUME NEW c \in Conns, WriteData(c) \/ Drained(c) \/ DrainFails(c)
      PROVE  AnswerInv(d)'
  BY <1>1, <1>3 DEF WriteData, Drained, DrainFails, LeaveSession, NextMessage,
     connVars, readerVars, mainVars
<1>4. ASSUME NEW c \in Conns, Initiate(c) PROVE AnswerInv(d)'
  <2>1. /\ UNCHANGED <<writer, rpc, sent, ws, session>> /\ mpc' = "connect" /\ cur' = c
        /\ born[c] = 0 /\ born' = [born EXCEPT ![c] = session]
        /\ mpc = "receive"
    BY <1>4 DEF Initiate, readerVars
  <2>2. ResetsDue(d)' = ResetsDue(d)
    BY <2>1 DEF ResetsDue
  <2>3. MainKeeps(d)
    BY <1>0, <2>1 DEF MainKeeps, TypeOK
  <2>4. writer[d] # "none" => d # c
    BY <1>0, <2>1 DEF AnswerInv
  <2>5. writer[d] # "none" /\ SendRaises(d) => SendRaises(d)'
    BY <1>0, <2>1, <2>4 DEF SendRaises, TypeOK
  <2>6. writer[d] = "none" => rpc'[d] = "none"
    BY <1>0, <2>1 DEF AnswerInv
  <2> QED
    BY <1>0, <2>1, <2>2, <2>3, <2>5, <2>6, AnswerQuiet
<1>5. ASSUME NEW c \in Conns, Connected(c) \/ ConnectFails(c), d = c
      PROVE  AnswerInv(d)'
  <2>1. /\ mpc = "connect" /\ cur = c /\ UNCHANGED <<born, session, ws, rpc>>
        /\ mpc' # "connect" /\ mpc' # "drain" /\ session > 0 /\ born[c] # 0
    BY <1>0, <1>5 DEF Connected, ConnectFails, connVars, readerVars, AnswersInv, EdgeInv,
       ConnectInv
  <2>2. writer[c] = "none" /\ rpc[c] = "none"
    BY <1>0, <1>5, <2>1 DEF AnswerInv
  <2>3. CASE Connected(c)
    <3>1. writer'[c] = "open" /\ Send(c, "ok")
      BY <1>0, <2>3 DEF Connected, TypeOK
    <3>2. MainKeeps(d)
      BY <1>0, <1>5, <2>1, <2>2, <3>1 DEF MainKeeps
    <3> QED BY <1>0, <1>5, <2>1, <3>1, <3>2, AnswerFirst
  <2>4. CASE ConnectFails(c)
    <3>1. writer'[c] = "none" /\ Send(c, "error") /\ mpc' = "refuse"
      BY <2>2, <2>4 DEF ConnectFails, connVars
    <3>2. MainKeeps(d)
      BY <1>0, <1>5, <2>1, <2>2, <3>1 DEF MainKeeps
    <3> QED BY <1>0, <1>5, <2>1, <3>1, <3>2, AnswerFirst
  <2> QED BY <1>5, <2>3, <2>4
<1>6. ASSUME NEW c \in Conns, Connected(c) \/ ConnectFails(c), d # c
      PROVE  AnswerInv(d)'
  <2>1. /\ cur' = c /\ UNCHANGED <<born, session, ws, rpc>> /\ mpc' # "connect"
        /\ writer'[d] = writer[d] /\ sent'[d] = sent[d]
    <3>1. CASE Connected(c)
      BY <1>0, <1>6, <3>1 DEF Connected, Send, readerVars, TypeOK
    <3>2. CASE ConnectFails(c)
      BY <1>0, <1>6, <3>2 DEF ConnectFails, Send, connVars, readerVars, TypeOK
    <3> QED BY <1>6, <3>1, <3>2
  <2>2. MainKeeps(d) /\ ResetsDue(d)' = ResetsDue(d)
    BY <1>0, <1>6, <2>1 DEF MainKeeps, ResetsDue
  <2>3. SendRaises(d)' = SendRaises(d) /\ (writer[d] = "none" => rpc'[d] = "none")
    BY <1>0, <2>1 DEF SendRaises, AnswerInv
  <2> QED BY <1>0, <2>1, <2>2, <2>3, AnswerQuiet
<1>7. ASSUME NEW c \in Conns, Confirmed(c) PROVE AnswerInv(d)'
  <2>1. /\ UNCHANGED <<writer, born, sent, ws, session>> /\ mpc' = "receive"
        /\ rpc' = [rpc EXCEPT ![c] = "read"] /\ rpc[c] = "none" /\ writer[c] # "none"
    BY <1>7 DEF Confirmed, connVars, NextMessage, AnswersInv, AnswerInv
  <2>2. /\ ResetsDue(d)' = ResetsDue(d) /\ SendRaises(d)' = SendRaises(d)
        /\ writer[d] = "none" => rpc'[d] = "none"
    BY <1>0, <2>1 DEF ResetsDue, SendRaises, AnswerInv, TypeOK
  <2>3. MainKeeps(d)
    BY <1>0, <2>1 DEF MainKeeps
  <2> QED BY <1>0, <2>1, <2>2, <2>3, AnswerQuiet
<1>8. CASE CleanUp
  <2>1. /\ UNCHANGED <<rpc, born, sent, ws, session>> /\ mpc' = "down"
        /\ writer'[d] = writer[d] \/ (writer[d] = "open" /\ writer'[d] = "closed")
    BY <1>0, <1>8 DEF CleanUp, readerVars, EdgeInv, NoLeakedWriter, TypeOK
  <2>2. /\ ResetsDue(d)' >= ResetsDue(d) /\ SendRaises(d)' = SendRaises(d)
        /\ writer[d] = "none" => rpc'[d] = "none"
    BY <1>0, <2>1 DEF ResetsDue, SendRaises, AnswerInv
  <2>3. MainKeeps(d)
    BY <1>0, <2>1 DEF MainKeeps
  <2> QED BY <1>0, <2>1, <2>2, <2>3, AnswerQuiet
<1>9. ASSUME NEW c \in Conns, RelayCloses(c) PROVE AnswerInv(d)'
  <2>1. /\ UNCHANGED <<rpc, born, sent, ws, session, mpc>> /\ mpc = "receive"
        /\ writer'[d] = writer[d] \/ (writer[d] = "open" /\ writer'[d] = "closed")
    BY <1>0, <1>9 DEF RelayCloses, CloseWriter, mainVars, readerVars, EdgeInv,
       NoLeakedWriter, TypeOK
  <2>2. /\ ResetsDue(d)' >= ResetsDue(d) /\ SendRaises(d)' = SendRaises(d)
        /\ writer[d] = "none" => rpc'[d] = "none"
    BY <1>0, <2>1 DEF ResetsDue, SendRaises, AnswerInv
  <2>3. MainKeeps(d)
    BY <1>0, <2>1 DEF MainKeeps
  <2> QED BY <1>0, <2>1, <2>2, <2>3, AnswerQuiet
<1>10. ASSUME NEW c \in Conns, DrainReset(c) PROVE AnswerInv(d)'
  <2>0. /\ mpc = "drain" /\ cur = c /\ writer[c] # "none"
        /\ UNCHANGED <<rpc, born, session>>
        /\ writer' = [writer EXCEPT ![c] = "closed"]
        /\ mpc' \in {"report", "leave"}
    <3>1. mpc' \in {"report", "leave"}
      BY <1>10 DEF DrainReset, LeaveSession
    <3>2. mpc = "drain" /\ cur = c /\ writer[c] # "none"
      BY <1>10 DEF DrainReset, AnswersInv, AnswerInv
    <3> QED BY <1>10, <3>1, <3>2 DEF DrainReset, CloseWriter, readerVars
  <2>1. MainKeeps(d)
    BY <1>0, <2>0 DEF MainKeeps
  <2>2. CASE d = c /\ c \in active
    <3>1. writer[c] = "open" /\ writer'[c] = "closed" /\ Send(c, "reset") /\ ws' = ws
      BY <1>0, <1>10, <2>0, <2>2 DEF DrainReset, EdgeInv, NoLeakedWriter, TypeOK
    <3>2. ResetsDue(d)' = ResetsDue(d) + 1
      BY <2>0, <2>2, <3>1 DEF ResetsDue
    <3> QED BY <1>0, <2>0, <2>1, <2>2, <3>1, <3>2, AnswerMore
  <2>3. CASE d # c \/ c \notin active
    <3>1. sent'[d] = sent[d] /\ (ws' = ws \/ ws' = "broken")
      BY <1>0, <1>10, <2>3 DEF DrainReset, Send, LeaveSession, TypeOK
    <3>2. /\ writer'[d] = writer[d] \/ (writer[d] = "open" /\ writer'[d] = "closed")
          /\ writer[d] = "none" => rpc'[d] = "none"
      BY <1>0, <2>0, <2>3 DEF EdgeInv, NoLeakedWriter, TypeOK, AnswerInv
    <3>3. ResetsDue(d)' >= ResetsDue(d) /\ (SendRaises(d) => SendRaises(d)')
      BY <1>0, <2>0, <3>1, <3>2 DEF ResetsDue, SendRaises
    <3> QED BY <1>0, <2>0, <2>1, <3>1, <3>2, <3>3, AnswerQuiet
  <2> QED BY <2>2, <2>3
<1> QED
  BY <1>2, <1>3, <1>4, <1>5, <1>6, <1>7, <1>8, <1>9, <1>10 DEF Main

\* The steps of readers and peers.
LEMMA AnswerOthers ==
  ASSUME EdgeInv, AnswersInv, UNCHANGED mainVars, UNCHANGED born, NEW d \in Conns,
         \/ UNCHANGED <<writer, rpc, sent>> /\ (ws' = ws \/ ws' = "broken")
         \/ \E c \in Conns : Reader(c)
  PROVE  AnswerInv(d)'
<1>0. /\ TypeOK /\ AnswerInv(d) /\ ResetsDue(d) \in Nat /\ ResetsDue(d)' \in Nat
      /\ Len(sent[d]) \in Nat /\ born[d] <= session
  BY DueType DEF EdgeInv, AnswersInv, AnswerInv, TypeOK
<1>1. UNCHANGED <<mpc, cur, session>>
  BY DEF mainVars
<1>2. CASE UNCHANGED <<writer, rpc, sent>> /\ (ws' = ws \/ ws' = "broken")
  <2>1. MainKeeps(d) /\ ResetsDue(d)' = ResetsDue(d)
    BY <1>0, <1>1, <1>2 DEF MainKeeps, ResetsDue, AnswerInv
  <2>2. (SendRaises(d) => SendRaises(d)') /\ (writer[d] = "none" => rpc'[d] = "none")
    BY <1>0, <1>1, <1>2 DEF SendRaises, AnswerInv
  <2> QED BY <1>0, <1>2, <2>1, <2>2, AnswerQuiet
<1>3. ASSUME NEW c \in Conns, Reader(c), d # c PROVE AnswerInv(d)'
  <2>1. /\ sent'[d] = sent[d] /\ writer'[d] = writer[d] /\ rpc'[d] = rpc[d] /\ ws' = ws
    <3>1. CASE ReaderData(c)
      BY <1>0, <1>3, <3>1 DEF ReaderData, Send, connVars, TypeOK
    <3>2. CASE ReaderSent(c) \/ ReaderDone(c)
      BY <1>0, <1>3, <3>2 DEF ReaderSent, ReaderDone, connVars, TypeOK
    <3>3. CASE Finally(c)
      BY <1>0, <1>3, <3>3 DEF Finally, CloseWriter, Send, TypeOK
    <3> QED BY <1>3, <3>1, <3>2, <3>3 DEF Reader, ReaderEnds, ReaderSendRaises
  <2>2. MainKeeps(d) /\ ResetsDue(d)' = ResetsDue(d)
    BY <1>0, <1>1, <2>1 DEF MainKeeps, ResetsDue, AnswerInv
  <2>3. (SendRaises(d) => SendRaises(d)') /\ (writer[d] = "none" => rpc'[d] = "none")
    BY <1>0, <1>1, <2>1 DEF SendRaises, AnswerInv
  <2> QED BY <1>0, <2>1, <2>2, <2>3, AnswerQuiet
<1>4. CASE ReaderSent(d) \/ ReaderDone(d)
  <2>1. /\ UNCHANGED <<sent, writer, ws>>
        /\ \/ rpc[d] = "send" /\ rpc'[d] = "read"
           \/ rpc[d] = "report" /\ rpc'[d] = "done"
    BY <1>0, <1>4 DEF ReaderSent, ReaderDone, connVars, TypeOK
  <2>2. MainKeeps(d) /\ ResetsDue(d)' = ResetsDue(d)
    BY <1>0, <1>1, <2>1 DEF MainKeeps, ResetsDue, AnswerInv
  <2>3. (SendRaises(d) => SendRaises(d)') /\ (writer[d] = "none" => rpc'[d] = "none")
    BY <1>0, <1>1, <2>1 DEF SendRaises, AnswerInv
  <2> QED BY <1>0, <2>1, <2>2, <2>3, AnswerQuiet
<1>5. CASE ReaderData(d)
  <2>1. /\ UNCHANGED <<writer, ws>> /\ rpc[d] = "read" /\ rpc'[d] = "send"
        /\ Send(d, "data")
    BY <1>0, <1>5 DEF ReaderData, connVars, TypeOK
  <2>2. MainKeeps(d) /\ ResetsDue(d)' = ResetsDue(d) /\ writer[d] # "none"
    BY <1>0, <1>1, <2>1 DEF MainKeeps, ResetsDue, AnswerInv
  <2> QED BY <1>0, <1>1, <2>1, <2>2, AnswerMore
<1>6. CASE Finally(d) /\ rpc[d] \in {"read", "send"}
  <2>1. /\ writer'[d] = "closed" /\ ws' = ws /\ rpc'[d] = "report" /\ Send(d, "reset")
    BY <1>0, <1>6 DEF Finally, CloseWriter, TypeOK
  <2>2. writer[d] # "none" /\ MainKeeps(d)
    BY <1>0, <1>1, <1>6, <2>1 DEF MainKeeps, AnswerInv
  <2>3. ResetsDue(d)' >= ResetsDue(d) + 1
    BY <1>6, <2>1 DEF ResetsDue
  <2> QED BY <1>0, <1>1, <2>1, <2>2, <2>3, AnswerMore
<1> QED
  BY <1>2, <1>3, <1>4, <1>5, <1>6 DEF Reader, ReaderEnds, ReaderSendRaises

LEMMA AnswerStep == EdgeInv /\ AnswersInv /\ [Next]_vars => AnswersInv'
<1> SUFFICES ASSUME EdgeInv, AnswersInv, [Next]_vars PROVE AnswersInv'
  OBVIOUS
<1>1. (mpc # "down" => session > 0)'
  <2>1. CASE Main
    <3> USE DEF AnswersInv, EdgeInv, TypeOK, mainVars, LeaveSession, NextMessage
    <3>1. session \in Nat
      BY EdgeOK
    <3>2. CASE Connect
      BY <3>1, <3>2 DEF Connect
    <3>3. CASE ReceiveRaises \/ Unparsable \/ Reported \/ MainSendRaises \/ CleanUp
      BY <3>3 DEF ReceiveRaises, Unparsable, Reported, MainSendRaises, CleanUp
    <3>4. ASSUME NEW c \in Conns,
                 \/ Initiate(c) \/ Connected(c) \/ ConnectFails(c) \/ Confirmed(c)
                 \/ RelayCloses(c) \/ WriteData(c)
                 \/ Drained(c) \/ DrainReset(c) \/ DrainFails(c)
          PROVE  session' = session /\ mpc # "down"
      BY <3>4 DEF Initiate, Connected, ConnectFails, Confirmed, RelayCloses, WriteData,
         Drained, DrainReset, DrainFails
    <3> QED BY <2>1, <3>2, <3>3, <3>4 DEF Main
  <2>2. CASE UNCHANGED mainVars
    BY <2>2 DEF mainVars, AnswersInv
  <2>3. Main \/ UNCHANGED mainVars
    BY DEF Next, Reader, ReaderData, ReaderSent, ReaderEnds, ReaderSendRaises,
       ReaderDone, Finally, TargetEnds, TargetResets, TargetReads, RelayLost, vars
  <2> QED BY <2>1, <2>2, <2>3
<1>2. ASSUME NEW d \in Conns PROVE AnswerInv(d)'
  <2>1. CASE Main
    BY <2>1, AnswerMain
  <2>2. CASE \/ RelayLost \/ UNCHANGED vars
             \/ \E c \in Conns : TargetEnds(c) \/ TargetResets(c) \/ TargetReads(c)
    BY <2>2, AnswerOthers DEF RelayLost, TargetEnds, TargetResets, TargetReads, vars, connVars,
       readerVars
  <2>3. ASSUME NEW c \in Conns, Reader(c) PROVE AnswerInv(d)'
    <3>1. UNCHANGED <<mainVars, born>>
      BY <2>3 DEF Reader, ReaderData, ReaderSent, ReaderEnds, ReaderSendRaises,
         ReaderDone, Finally, connVars
    <3> QED BY <2>3, <3>1, AnswerOthers
  <2> QED BY <2>1, <2>2, <2>3 DEF Next
<1> QED BY <1>1, <1>2 DEF AnswersInv

LEMMA AnswersInit == Init => AnswersInv
<1> SUFFICES ASSUME Init, NEW c \in Conns PROVE AnswerInv(c) /\ mpc = "down"
  BY DEF AnswersInv, Init
<1>1. Count(sent[c], "reset", Len(sent[c])) = 0
  BY CountNext DEF Init
<1> QED BY <1>1 DEF Init, AnswerInv, ResetsDue

\* The invariant is about one connection at a time; the order of its messages
\* follows.
LEMMA AnswersInOrder == EdgeInv /\ AnswersInv => AnswerComesFirst
<1> SUFFICES ASSUME EdgeInv, AnswersInv, NEW c \in Conns
             PROVE  /\ \A i \in 1 .. Len(sent[c]) : i = 1 <=> sent[c][i] \in {"ok", "error"}
                    /\ sent[c] # <<>> /\ sent[c][1] = "error" => Len(sent[c]) = 1
                    /\ Count(sent[c], "reset", Len(sent[c])) <= 2
  BY DEF AnswerComesFirst
<1>1. /\ AnswerInv(c) /\ sent[c] \in Seq({"ok", "error", "data", "reset"})
      /\ Len(sent[c]) \in Nat
  BY DEF AnswersInv, EdgeInv, TypeOK
<1>2. sent[c] # <<>> => sent[c] = <<"error">> \/ sent[c][1] = "ok"
  BY <1>1 DEF AnswerInv
<1>3. \A i \in 1 .. Len(sent[c]) : i = 1 \/ i \in 2 .. Len(sent[c])
  BY <1>1
<1>4. \A i \in 1 .. Len(sent[c]) : i = 1 <=> sent[c][i] \in {"ok", "error"}
  BY <1>1, <1>2, <1>3 DEF AnswerInv
<1>5. Count(sent[c], "reset", Len(sent[c])) <= 2
  <2>1. Count(sent[c], "reset", Len(sent[c])) \in Nat
    BY <1>1, CountNext
  <2> QED BY <1>1, <2>1 DEF AnswerInv, ResetsDue
<1> QED BY <1>2, <1>4, <1>5

\* The relay receives one answer about a connection before anything else,
\* nothing after a refusal, and at most two resets, in every session and for
\* any number of connections.
THEOREM AnswerComesFirstHolds == Spec => []AnswerComesFirst
<1> QED
  BY AnswersInit, AnswersInOrder, EdgeInit, EdgeStep, AnswerStep, PTL DEF Spec

-----------------------------------------------------------------------------
(* How a connection ends.                                                  *)

\* There is a reset among the first n messages.
HasReset(s, n) == \E i \in 1 .. n : s[i] = "reset"

\* A reader that ended has reported it, unless its session was lost; what was
\* reported as ended is closed; a connection of this session has a reader once
\* the main task has confirmed it; and no target connection is without a writer.
EndOK(c) ==
  /\ rpc[c] \in {"report", "done"} /\ ~ SendRaises(c) => HasReset(sent[c], Len(sent[c]))
  /\ HasReset(sent[c], Len(sent[c])) => writer[c] = "closed"
  /\ writer[c] # "none" /\ rpc[c] = "none" /\ ~ SendRaises(c) => mpc = "confirm" /\ cur = c
  /\ target[c] # "none" => writer[c] # "none"

EndInv == \A c \in Conns : EndOK(c)

\* One message more is a reset or leaves it at those there were.
LEMMA ResetAppend ==
  ASSUME NEW K, NEW s \in Seq(K), NEW m \in K
  PROVE  HasReset(Append(s, m), Len(Append(s, m))) <=> HasReset(s, Len(s)) \/ m = "reset"
<1> DEFINE t == Append(s, m)
<1>1. /\ Len(s) \in Nat /\ Len(t) = Len(s) + 1 /\ t[Len(s) + 1] = m
      /\ \A i \in 1 .. Len(s) : t[i] = s[i]
  OBVIOUS
<1> HIDE DEF t
<1>2. \A i \in 1 .. Len(t) : i \in 1 .. Len(s) \/ i = Len(s) + 1
  BY <1>1
<1>3. /\ Len(s) + 1 \in 1 .. Len(t)
      /\ \A i \in 1 .. Len(s) : i \in 1 .. Len(t)
  BY <1>1
<1>4. HasReset(t, Len(t)) <=> HasReset(s, Len(s)) \/ m = "reset"
  BY <1>1, <1>2, <1>3 DEF HasReset
<1> QED BY <1>4 DEF t

\* What a send adds.
LEMMA ResetSent ==
  ASSUME TypeOK, NEW c \in Conns, NEW m \in {"ok", "error", "data", "reset"}, Send(c, m),
         UNCHANGED <<born, session, ws>>
  PROVE  /\ SendRaises(c)' <=> SendRaises(c)
         /\ SendRaises(c) => sent'[c] = sent[c]
         /\ ~ SendRaises(c) =>
              (HasReset(sent'[c], Len(sent'[c])) <=>
                 HasReset(sent[c], Len(sent[c])) \/ m = "reset")
<1>1. SendRaises(c)' <=> SendRaises(c)
  BY DEF SendRaises
<1>2. SendRaises(c) => sent'[c] = sent[c]
  BY DEF Send, SendRaises
<1>3. ASSUME ~ SendRaises(c)
      PROVE  HasReset(sent'[c], Len(sent'[c])) <=>
               HasReset(sent[c], Len(sent[c])) \/ m = "reset"
  <2>1. sent'[c] = Append(sent[c], m) /\ sent[c] \in Seq({"ok", "error", "data", "reset"})
    BY <1>3 DEF Send, SendRaises, TypeOK
  <2> QED BY <2>1, ResetAppend
<1> QED BY <1>1, <1>2, <1>3

\* A step that sends nothing about the connection and leaves its reader alone.
LEMMA EndQuiet ==
  ASSUME NEW c \in Conns, AnswerInv(c), EndOK(c), sent'[c] = sent[c], rpc'[c] = rpc[c],
         writer'[c] = writer[c] \/ (writer[c] = "open" /\ writer'[c] = "closed"),
         target'[c] = target[c] \/ target[c] # "none",
         writer[c] # "none" /\ SendRaises(c) => SendRaises(c)',
         mpc = "confirm" /\ cur = c => UNCHANGED <<mpc, cur>> \/ SendRaises(c)'
  PROVE  EndOK(c)'
BY DEF EndOK, AnswerInv

LEMMA EndInit == Init => EndInv
BY DEF Init, EndInv, EndOK, HasReset

\* The steps of the main task.
LEMMA EndMain ==
  ASSUME EdgeInv, AnswersInv, EndInv, Main, NEW d \in Conns
  PROVE  EndOK(d)'
<1>0. /\ TypeOK /\ AnswerInv(d) /\ EndOK(d) /\ born[d] <= session
      /\ born[d] \in Nat /\ session \in Nat
  BY EdgeOK DEF EdgeInv, AnswersInv, EndInv, AnswerInv, TypeOK
<1>1. ASSUME UNCHANGED <<born, writer, target, rpc, sent>>,
             mpc = "confirm" => ws' = "broken",
             \/ session' = session /\ (ws' = ws \/ ws' = "broken")
             \/ session' = session + 1
      PROVE  EndOK(d)'
  <2>1. SendRaises(d) => SendRaises(d)'
    BY <1>0, <1>1, LostStaysLost
  <2>2. ws' = "broken" => SendRaises(d)'
    BY DEF SendRaises
  <2> QED BY <1>0, <1>1, <2>1, <2>2, EndQuiet
<1>2. CASE Connect \/ ReceiveRaises \/ Unparsable \/ Reported \/ MainSendRaises
  BY <1>1, <1>2 DEF Connect, ReceiveRaises, Unparsable, Reported, MainSendRaises,
     LeaveSession, NextMessage, connVars, readerVars, mainVars
<1>3. ASSUME NEW c \in Conns, WriteData(c) \/ Drained(c) \/ DrainFails(c)
      PROVE  EndOK(d)'
  BY <1>1, <1>3 DEF WriteData, Drained, DrainFails, LeaveSession, NextMessage,
     connVars, readerVars, mainVars
<1>4. ASSUME NEW c \in Conns, Initiate(c) PROVE EndOK(d)'
  <2>1. /\ UNCHANGED <<writer, target, rpc, sent, ws, session>> /\ mpc = "receive"
        /\ born[c] = 0 /\ born' = [born EXCEPT ![c] = session]
    BY <1>4 DEF Initiate, readerVars
  <2>2. writer[d] # "none" => d # c
    BY <1>0, <2>1 DEF AnswerInv
  <2>3. writer[d] # "none" /\ SendRaises(d) => SendRaises(d)'
    BY <1>0, <2>1, <2>2 DEF SendRaises, TypeOK
  <2> QED BY <1>0, <2>1, <2>3, EndQuiet
<1>5. ASSUME NEW c \in Conns, Connected(c) PROVE EndOK(d)'
  <2>1. /\ mpc = "connect" /\ cur = c /\ mpc' = "confirm" /\ cur' = c
        /\ UNCHANGED <<born, session, ws, rpc>> /\ Send(c, "ok")
        /\ writer' = [writer EXCEPT ![c] = "open"]
        /\ target' = [target EXCEPT ![c] = "open"]
    BY <1>5 DEF Connected, readerVars
  <2>2. CASE d = c
    <3>1. writer'[d] = "open" /\ rpc'[d] = "none"
      BY <1>0, <2>1, <2>2 DEF AnswerInv, TypeOK
    <3>2. sent[d] = <<>>
      BY <1>0, <2>1, <2>2 DEF AnswerInv
    <3>3. ~ HasReset(sent[d], Len(sent[d]))
      BY <3>2 DEF HasReset
    <3>4. ~ HasReset(sent'[d], Len(sent'[d]))
      BY <1>0, <2>1, <2>2, <3>3, ResetSent
    <3> QED BY <2>1, <2>2, <3>1, <3>4 DEF EndOK
  <2>3. CASE d # c
    <3>1. /\ sent'[d] = sent[d] /\ writer'[d] = writer[d] /\ target'[d] = target[d]
          /\ SendRaises(d)' = SendRaises(d)
      BY <1>0, <2>1, <2>3 DEF Send, SendRaises, TypeOK
    <3> QED BY <1>0, <2>1, <3>1, EndQuiet
  <2> QED BY <2>2, <2>3
<1>6. ASSUME NEW c \in Conns, ConnectFails(c) PROVE EndOK(d)'
  <2>1. /\ mpc = "connect" /\ cur = c /\ UNCHANGED <<born, session, ws, rpc, writer, target>>
        /\ Send(c, "error")
    BY <1>6 DEF ConnectFails, connVars, readerVars
  <2>2. CASE d = c
    <3>1. writer[d] = "none" /\ rpc[d] = "none" /\ sent[d] = <<>>
      BY <1>0, <2>1, <2>2 DEF AnswerInv
    <3>2. ~ HasReset(sent[d], Len(sent[d]))
      BY <3>1 DEF HasReset
    <3>3. ~ HasReset(sent'[d], Len(sent'[d]))
      BY <1>0, <2>1, <2>2, <3>2, ResetSent
    <3>4. target'[d] = "none" /\ writer'[d] = "none" /\ rpc'[d] = "none"
      BY <1>0, <2>1, <3>1 DEF EndOK
    <3> QED BY <3>3, <3>4 DEF EndOK
  <2>3. CASE d # c
    <3>1. sent'[d] = sent[d] /\ SendRaises(d)' = SendRaises(d)
      BY <1>0, <2>1, <2>3 DEF Send, SendRaises, TypeOK
    <3> QED BY <1>0, <2>1, <3>1, EndQuiet
  <2> QED BY <2>2, <2>3
<1>7. ASSUME NEW c \in Conns, Confirmed(c) PROVE EndOK(d)'
  <2>1. /\ mpc = "confirm" /\ cur = c /\ UNCHANGED <<born, session, ws, sent, writer, target>>
        /\ rpc' = [rpc EXCEPT ![c] = "read"] /\ rpc[c] = "none"
    BY <1>7 DEF Confirmed, connVars, AnswersInv, AnswerInv
  <2>2. SendRaises(d)' = SendRaises(d)
    BY <2>1 DEF SendRaises
  <2>3. CASE d = c
    <3>1. rpc'[d] = "read"
      BY <1>0, <2>1, <2>3 DEF TypeOK
    <3> QED BY <1>0, <2>1, <3>1 DEF EndOK
  <2>4. CASE d # c
    <3>1. rpc'[d] = rpc[d]
      BY <1>0, <2>1, <2>4 DEF TypeOK
    <3> QED BY <1>0, <2>1, <2>2, <2>4, <3>1, EndQuiet
  <2> QED BY <2>3, <2>4
<1>8. CASE CleanUp \/ \E c \in Conns : RelayCloses(c)
  <2>1. /\ UNCHANGED <<rpc, born, sent, ws, session, target>> /\ mpc # "confirm"
        /\ writer'[d] = writer[d] \/ (writer[d] = "open" /\ writer'[d] = "closed")
    BY <1>0, <1>8 DEF CleanUp, RelayCloses, CloseWriter, mainVars, readerVars, EdgeInv,
       NoLeakedWriter, TypeOK
  <2>2. SendRaises(d)' = SendRaises(d)
    BY <2>1 DEF SendRaises
  <2> QED BY <1>0, <2>1, <2>2, EndQuiet
<1>9. ASSUME NEW c \in Conns, DrainReset(c) PROVE EndOK(d)'
  <2>0. /\ mpc = "drain" /\ cur = c /\ writer[c] # "none"
        /\ UNCHANGED <<rpc, born, session, target>>
        /\ writer' = [writer EXCEPT ![c] = "closed"]
    <3>1. mpc = "drain" /\ cur = c /\ writer[c] # "none"
      BY <1>9 DEF DrainReset, AnswersInv, AnswerInv
    <3> QED BY <1>9, <3>1 DEF DrainReset, CloseWriter, readerVars
  <2>1. CASE d = c /\ c \in active
    <3>1. writer'[d] = "closed" /\ Send(d, "reset") /\ ws' = ws
      BY <1>0, <1>9, <2>0, <2>1 DEF DrainReset, TypeOK
    <3>2. /\ SendRaises(d)' <=> SendRaises(d)
          /\ ~ SendRaises(d) => HasReset(sent'[d], Len(sent'[d]))
      BY <1>0, <2>0, <3>1, ResetSent
    <3>3. rpc[d] = "none" => SendRaises(d)
      BY <1>0, <2>0, <2>1 DEF EndOK
    <3> QED BY <2>0, <3>1, <3>2, <3>3 DEF EndOK
  <2>2. CASE d # c \/ c \notin active
    <3>1. sent'[d] = sent[d] /\ (ws' = ws \/ ws' = "broken")
      BY <1>0, <1>9, <2>2 DEF DrainReset, Send, LeaveSession, TypeOK
    <3>2. writer'[d] = writer[d] \/ (writer[d] = "open" /\ writer'[d] = "closed")
      BY <1>0, <2>0, <2>2 DEF EdgeInv, NoLeakedWriter, TypeOK
    <3>3. SendRaises(d) => SendRaises(d)'
      BY <2>0, <3>1 DEF SendRaises
    <3> QED BY <1>0, <2>0, <3>1, <3>2, <3>3, EndQuiet
  <2> QED BY <2>1, <2>2
<1> QED
  BY <1>2, <1>3, <1>4, <1>5, <1>6, <1>7, <1>8, <1>9 DEF Main

\* The steps of a reader.
LEMMA EndReader ==
  ASSUME EdgeInv, AnswersInv, EndInv, NEW c \in Conns, Reader(c), NEW d \in Conns
  PROVE  EndOK(d)'
<1>0. /\ TypeOK /\ AnswerInv(d) /\ EndOK(d)
      /\ UNCHANGED <<mpc, cur, session, born, target, ws>>
  BY DEF EdgeInv, AnswersInv, EndInv, Reader, ReaderData, ReaderSent, ReaderEnds,
     ReaderSendRaises, ReaderDone, Finally, connVars, mainVars
<1>1. SendRaises(d)' <=> SendRaises(d)
  BY <1>0 DEF SendRaises
<1>2. CASE d # c
  <2>1. sent'[d] = sent[d] /\ writer'[d] = writer[d] /\ rpc'[d] = rpc[d]
    <3>1. CASE ReaderData(c)
      BY <1>0, <1>2, <3>1 DEF ReaderData, Send, connVars, TypeOK
    <3>2. CASE ReaderSent(c) \/ ReaderDone(c)
      BY <1>0, <1>2, <3>2 DEF ReaderSent, ReaderDone, connVars, TypeOK
    <3>3. CASE Finally(c)
      BY <1>0, <1>2, <3>3 DEF Finally, CloseWriter, Send, TypeOK
    <3> QED BY <3>1, <3>2, <3>3 DEF Reader, ReaderEnds, ReaderSendRaises
  <2> QED BY <1>0, <1>1, <2>1, EndQuiet
<1>3. CASE ReaderSent(d) \/ ReaderDone(d)
  <2>1. /\ UNCHANGED <<sent, writer>>
        /\ \/ rpc[d] = "send" /\ rpc'[d] = "read"
           \/ rpc[d] = "report" /\ rpc'[d] = "done"
    BY <1>0, <1>3 DEF ReaderSent, ReaderDone, connVars, TypeOK
  <2> QED BY <1>0, <1>1, <2>1 DEF EndOK
<1>4. CASE ReaderData(d)
  <2>1. writer' = writer /\ rpc'[d] = "send" /\ Send(d, "data")
    BY <1>0, <1>4 DEF ReaderData, connVars, TypeOK
  <2>2. HasReset(sent'[d], Len(sent'[d])) <=> HasReset(sent[d], Len(sent[d]))
    BY <1>0, <2>1, ResetSent
  <2> QED BY <1>0, <2>1, <2>2 DEF EndOK
<1>5. CASE Finally(d)
  <2>1. writer'[d] = "closed" /\ rpc'[d] = "report" /\ Send(d, "reset")
    BY <1>0, <1>5 DEF Finally, CloseWriter, TypeOK
  <2>2. ~ SendRaises(d) => HasReset(sent'[d], Len(sent'[d]))
    BY <1>0, <2>1, ResetSent
  <2> QED BY <1>1, <2>1, <2>2 DEF EndOK
<1> QED BY <1>2, <1>3, <1>4, <1>5 DEF Reader, ReaderEnds, ReaderSendRaises

LEMMA EndStep == EdgeInv /\ AnswersInv /\ EndInv /\ [Next]_vars => EndInv'
<1> SUFFICES ASSUME EdgeInv, AnswersInv, EndInv, [Next]_vars, NEW d \in Conns
             PROVE  EndOK(d)'
  BY DEF EndInv
<1>0. TypeOK /\ AnswerInv(d) /\ EndOK(d)
  BY DEF EdgeInv, AnswersInv, EndInv
<1>1. CASE \/ RelayLost \/ UNCHANGED vars
           \/ \E c \in Conns : TargetEnds(c) \/ TargetResets(c) \/ TargetReads(c)
  <2>1. /\ UNCHANGED <<mpc, cur, session, born, writer, rpc, sent>>
        /\ ws' = ws \/ ws' = "broken"
    BY <1>1 DEF RelayLost, TargetEnds, TargetResets, TargetReads, vars, mainVars, connVars, readerVars
  <2>2. target'[d] = target[d] \/ target[d] # "none"
    <3>1. ASSUME NEW c \in Conns, TargetEnds(c) \/ TargetResets(c) \/ TargetReads(c)
          PROVE  target'[d] = target[d] \/ target[d] # "none"
      <4>1. /\ target[c] # "none"
            /\ \/ UNCHANGED target
               \/ \E how \in TargetStates : target' = [target EXCEPT ![c] = how]
        BY <3>1 DEF TargetEnds, TargetResets, TargetReads, Reset, TargetStates
      <4> QED BY <1>0, <4>1 DEF TypeOK
    <3>2. RelayLost \/ UNCHANGED vars => target' = target
      BY DEF RelayLost, vars, connVars
    <3> QED BY <1>1, <3>1, <3>2
  <2>3. SendRaises(d) => SendRaises(d)'
    BY <2>1 DEF SendRaises
  <2> QED BY <1>0, <2>1, <2>2, <2>3, EndQuiet
<1> QED BY <1>1, EndMain, EndReader DEF Next

=============================================================================

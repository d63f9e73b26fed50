------------------------ MODULE AgentSendLockProofs ------------------------
(***************************************************************************)
(* Mutual exclusion on the WebSocket of an agent, for every set of         *)
(* senders, every capacity and every number of connections.                *)
(*                                                                         *)
(* The lock is removed from the table while tasks hold it, so mutual       *)
(* exclusion does not follow from the lock alone: a second lock exists     *)
(* only when the loop is done, and then no send gets further than its call.*)
(***************************************************************************)
EXTENDS AgentSendLock, TLAPS

PlaceType ==
  /\ place \in [Tasks -> {"idle", "wait", "send", "done"}]
  /\ mine \in [Tasks -> Locks \cup {NoLock}]
  /\ locked \in [Locks -> BOOLEAN]
  /\ socket \in {"up", "broken", "seen"}
  /\ made \in 0 .. 2

\* The table holds the lock made last, or lost the first one to a loop that is
\* done.
TableInv ==
  /\ entry \in {NoLock, made}
  /\ made = 2 => entry = 2
  /\ made = 2 \/ (made = 1 /\ entry = NoLock) => place[Loop] = "done"
  /\ place[Loop] = "done" => socket = "seen"
  /\ \A t \in Tasks : place[t] \in {"wait", "send"} => mine[t] \in 1 .. made

\* A send in progress has the first lock.
HolderInv ==
  /\ OneWriter
  /\ \A t \in Tasks : place[t] = "send" => mine[t] = 1 /\ locked[1]

LockInv == PlaceType /\ TableInv /\ HolderInv

LEMMA LoopIsTask == Loop \in Tasks
BY DEF Tasks

LEMMA LockInit == Init => LockInv
BY LoopIsTask DEF Init, LockInv, PlaceType, TableInv, HolderInv, OneWriter, Sending,
   Locks, NoLock

\* Acquiring the lock is safe for a task that is idle.
LEMMA AcquireStep ==
  ASSUME LockInv, NEW t \in Tasks, place[t] = "idle", Acquire(t), UNCHANGED socket
  PROVE  LockInv'
<1> USE LoopIsTask DEF Locks, NoLock
<1> DEFINE l == TheLock
<1>1. /\ l \in Locks /\ l \in 1 .. made' /\ made' \in made .. 2
      /\ mine' = [mine EXCEPT ![t] = l] /\ entry' = l /\ made' = l
      /\ l = 2 => socket = "seen"
      /\ made' = 2 => place[Loop] = "done"
  BY DEF Acquire, GetLock, TheLock, LockInv, PlaceType, TableInv
<1> HIDE DEF l
<1>2. place[Loop] = "done" => t # Loop
  OBVIOUS
<1>3. CASE Goto(t, "send") /\ locked' = [locked EXCEPT ![l] = TRUE] /\ ~ locked[l]
           /\ socket # "seen"
  <2>1. l = 1
    BY <1>1, <1>3
  <2>2. \A s \in Tasks : place[s] # "send"
    BY <1>3, <2>1 DEF LockInv, HolderInv
  <2>3. PlaceType'
    BY <1>1, <1>3 DEF LockInv, PlaceType, Goto
  <2>4. TableInv'
    BY <1>1, <1>2, <1>3 DEF LockInv, PlaceType, TableInv, Goto
  <2>5. HolderInv'
    BY <1>1, <1>3, <2>1, <2>2 DEF LockInv, PlaceType, HolderInv, OneWriter, Sending, Goto
  <2> QED BY <2>3, <2>4, <2>5 DEF LockInv
<1>4. ASSUME NEW p \in {"idle", "wait"}, Goto(t, p), UNCHANGED locked
      PROVE  LockInv'
  <2>1. PlaceType'
    BY <1>1, <1>4 DEF LockInv, PlaceType, Goto
  <2>2. TableInv'
    BY <1>1, <1>2, <1>4 DEF LockInv, PlaceType, TableInv, Goto
  <2>3. HolderInv'
    BY <1>1, <1>4 DEF LockInv, PlaceType, HolderInv, OneWriter, Sending, Goto
  <2> QED BY <2>1, <2>2, <2>3 DEF LockInv
<1>5. \/ Goto(t, "send") /\ locked' = [locked EXCEPT ![l] = TRUE] /\ ~ locked[l]
         /\ socket # "seen"
      \/ Goto(t, "idle") /\ UNCHANGED locked
      \/ Goto(t, "wait") /\ UNCHANGED locked
  BY DEF Acquire, Begin, l
<1> QED BY <1>3, <1>4, <1>5

\* The waiter that gets the lock finds no send in progress.
LEMMA GrantedStep ==
  ASSUME LockInv, NEW t \in Tasks, Granted(t)
  PROVE  LockInv'
<1> USE LoopIsTask DEF Locks, NoLock
<1>1. /\ place[t] = "wait" /\ mine[t] \in Locks /\ mine[t] \in 1 .. made
      /\ ~ locked[mine[t]]
      /\ UNCHANGED <<mine, entry, made, socket>>
      /\ Begin(t, mine[t])
  BY DEF Granted, LockInv, PlaceType, TableInv
<1>2. t = Loop => place[Loop] # "done"
  BY <1>1
<1>3. CASE socket = "seen"
  <2>1. Goto(t, "idle") /\ UNCHANGED locked
    BY <1>1, <1>3 DEF Begin
  <2> QED
    BY <1>1, <1>2, <2>1 DEF LockInv, PlaceType, TableInv, HolderInv, OneWriter,
       Sending, Goto
<1>4. CASE socket # "seen"
  <2>1. made # 2 /\ mine[t] = 1
    BY <1>1, <1>4 DEF LockInv, PlaceType, TableInv
  <2>2. Goto(t, "send") /\ locked' = [locked EXCEPT ![1] = TRUE]
    BY <1>1, <1>4, <2>1 DEF Begin
  <2>3. \A s \in Tasks : place[s] # "send"
    BY <1>1, <2>1 DEF LockInv, HolderInv
  <2>4. PlaceType' /\ TableInv'
    BY <1>1, <1>2, <2>2 DEF LockInv, PlaceType, TableInv, Goto
  <2>5. HolderInv'
    BY <1>1, <2>1, <2>2, <2>3 DEF LockInv, PlaceType, HolderInv, OneWriter, Sending,
       Goto
  <2> QED BY <2>4, <2>5 DEF LockInv
<1> QED BY <1>3, <1>4

\* The release ends the only send in progress.
LEMMA ReleaseStep ==
  ASSUME LockInv, NEW t \in Tasks, place[t] = "send", Release(t), UNCHANGED socket
  PROVE  LockInv'
<1> USE LoopIsTask DEF Locks, NoLock
<1>1. /\ mine[t] = 1
      /\ locked' = [locked EXCEPT ![1] = FALSE] /\ Goto(t, "idle")
      /\ UNCHANGED <<mine, entry, made, socket>>
  BY DEF Release, LockInv, HolderInv
<1>2. \A s \in Tasks : place'[s] # "send"
  BY <1>1 DEF LockInv, PlaceType, HolderInv, OneWriter, Sending, Goto
<1>3. PlaceType' /\ TableInv'
  BY <1>1 DEF LockInv, PlaceType, TableInv, Goto
<1>4. HolderInv'
  BY <1>2 DEF HolderInv, OneWriter, Sending
<1> QED BY <1>3, <1>4 DEF LockInv

\* A step that leaves the tasks and the lock alone, and moves the socket on.
LEMMA SocketStep ==
  ASSUME LockInv, UNCHANGED <<place, mine, entry, made, locked>>,
         socket' \in {"up", "broken", "seen"}, socket = "seen" => socket' = "seen"
  PROVE  LockInv'
BY LoopIsTask DEF LockInv, PlaceType, TableInv, HolderInv, OneWriter, Sending

\* The last step of the loop removes the lock.
LEMMA PopStep == LockInv /\ LoopPops => LockInv'
<1> SUFFICES ASSUME LockInv, LoopPops PROVE LockInv'
  OBVIOUS
<1> USE LoopIsTask DEF Locks, NoLock
<1>1. /\ place[Loop] = "idle" /\ socket = "seen" /\ socket' = "seen"
      /\ entry' = NoLock /\ place' = [place EXCEPT ![Loop] = "done"]
      /\ UNCHANGED <<mine, made, locked>>
  BY DEF LoopPops, Goto
<1>2. made \in 0 .. 1
  BY <1>1 DEF LockInv, PlaceType, TableInv
<1>3. PlaceType' /\ TableInv'
  BY <1>1, <1>2 DEF LockInv, PlaceType, TableInv
<1>4. HolderInv'
  BY <1>1 DEF LockInv, PlaceType, HolderInv, OneWriter, Sending
<1> QED BY <1>3, <1>4 DEF LockInv

LEMMA LockStep == LockInv /\ [Next]_vars => LockInv'
<1> SUFFICES ASSUME LockInv, [Next]_vars PROVE LockInv'
  OBVIOUS
<1> USE LoopIsTask
<1>1. ASSUME NEW t \in Tasks, Ask(t) PROVE LockInv'
  BY <1>1, AcquireStep DEF Ask
<1>2. ASSUME NEW t \in Tasks, Granted(t) PROVE LockInv'
  BY <1>2, GrantedStep
<1>3. ASSUME NEW t \in Tasks, SendEnds(t) \/ SendRaises(t) PROVE LockInv'
  BY <1>3, ReleaseStep DEF SendEnds, SendRaises
<1>4. CASE LoopTakesReset \/ LoopCloses
  BY <1>4, AcquireStep DEF LoopTakesReset, LoopCloses
<1>5. CASE LoopPops
  BY <1>5, PopStep
<1>6. CASE LoopTakes \/ AgentTakes \/ AgentReports \/ AgentSends \/ UNCHANGED vars
  BY <1>6, SocketStep DEF LoopTakes, AgentTakes, AgentReports, AgentSends, vars,
     lockVars, LockInv, PlaceType
<1>7. CASE LoopSeesLoss \/ ConnectionLost
  BY <1>7, SocketStep DEF LoopSeesLoss, ConnectionLost, lockVars
<1>8. CASE PingTimeout(wire = Capacity) \/ PingTimeout(inbox = Capacity)
  BY <1>8, SocketStep DEF PingTimeout, lockVars
<1> QED
  BY <1>1, <1>2, <1>3, <1>4, <1>5, <1>6, <1>7, <1>8 DEF Next, LoopStep

\* Two sends to the WebSocket of an agent are never in progress at once.
THEOREM OneWriterHolds == Spec => []OneWriter
<1>1. LockInv => OneWriter
  BY DEF LockInv, HolderInv
<1> QED
  BY LockInit, LockStep, <1>1, PTL DEF Spec

-----------------------------------------------------------------------------
(* The lock implements the queue.                                          *)

\* Those that wait are the waiters of the first lock, each of them once.
WaitInv ==
  /\ waiters \in [Locks -> Seq(Tasks)]
  /\ ~ locked[2] /\ waiters[2] = <<>>
  /\ \A t \in Tasks : place[t] = "wait" =>
       mine[t] = 1 /\ \E i \in 1 .. Len(waiters[1]) : waiters[1][i] = t
  /\ \A i \in 1 .. Len(waiters[1]) : place[waiters[1][i]] = "wait"
  /\ \A i, j \in 1 .. Len(waiters[1]) : waiters[1][i] = waiters[1][j] => i = j

QueueInv == LockInv /\ WaitInv

\* What a step may do to the queue: nothing, or append an idle task, or take
\* the first one out.
Enqueued(t) ==
  /\ t \notin Range(InService \o waiters[1])
  /\ (InService \o waiters[1])' = Append(InService \o waiters[1], t)
Dequeued ==
  /\ InService \o waiters[1] # <<>>
  /\ (InService \o waiters[1])' = Tail(InService \o waiters[1])
SameQueue == (InService \o waiters[1])' = InService \o waiters[1]

LEMMA ServiceEmpty ==
  ASSUME \A t \in Tasks : place[t] # "send" PROVE InService = <<>>
BY DEF InService, Sending

LEMMA ServiceOne ==
  ASSUME OneWriter, NEW t \in Tasks, place[t] = "send" PROVE InService = <<t>>
<1>1. Sending # {} /\ \A s \in Sending : s = t
  BY DEF OneWriter, Sending
<1>2. (CHOOSE s \in Sending : TRUE) = t
  BY <1>1
<1> QED BY <1>1, <1>2 DEF InService

LEMMA AcquireQueues ==
  ASSUME QueueInv, NEW t \in Tasks, place[t] = "idle", Acquire(t), UNCHANGED socket
  PROVE  WaitInv' /\ (SameQueue \/ Enqueued(t))
<1> DEFINE w == waiters[1]
           l == TheLock
<1> USE DEF Locks, NoLock
<1>1. /\ w \in Seq(Tasks) /\ \A i \in 1 .. Len(w) : w[i] # t
      /\ \A i \in 1 .. Len(w) : w[i] \in Tasks
      /\ l \in Locks /\ mine' = [mine EXCEPT ![t] = l]
      /\ l = 2 => socket = "seen"
  BY DEF QueueInv, WaitInv, Acquire, GetLock, TheLock, LockInv, PlaceType, TableInv
<1>2. LockInv'
  BY AcquireStep DEF QueueInv
<1>3. CASE UNCHANGED <<waiters, locked>> /\ Goto(t, "idle")
  <2>1. place' = place
    BY <1>3 DEF Goto, QueueInv, LockInv, PlaceType
  <2>2. SameQueue
    BY <1>3, <2>1 DEF SameQueue, InService, Sending
  <2>3. WaitInv'
    BY <1>1, <1>3, <2>1 DEF QueueInv, WaitInv, LockInv, PlaceType
  <2> QED BY <2>2, <2>3
<1>4. CASE /\ l = 1 /\ w = <<>> /\ ~ locked[1] /\ UNCHANGED waiters
           /\ Goto(t, "send") /\ locked' = [locked EXCEPT ![1] = TRUE]
  <2>1. InService = <<>>
    BY <1>4, ServiceEmpty DEF QueueInv, LockInv, HolderInv
  <2>2. InService' = <<t>>
    <3>1. place'[t] = "send"
      BY <1>4 DEF Goto, QueueInv, LockInv, PlaceType
    <3>2. Sending' # {} /\ \A s \in Sending' : s = t
      BY <1>2, <3>1 DEF LockInv, HolderInv, OneWriter, Sending
    <3>3. (CHOOSE s \in Sending' : TRUE) = t
      BY <3>2
    <3> QED BY <3>2, <3>3 DEF InService
  <2>3. Enqueued(t)
    <3>1. InService \o w = <<>> /\ (InService \o w)' = <<t>>
      <4>1. <<>> \o <<>> = <<>> /\ <<t>> \o <<>> = <<t>>
        OBVIOUS
      <4>2. waiters'[1] = <<>>
        BY <1>4
      <4> QED BY <1>4, <2>1, <2>2, <4>1, <4>2
    <3>2. t \notin Range(<<>>) /\ <<t>> = Append(<<>>, t)
      BY DEF Range
    <3> QED BY <3>1, <3>2 DEF Enqueued
  <2>4. WaitInv'
    BY <1>1, <1>4 DEF QueueInv, WaitInv, LockInv, PlaceType, Goto
  <2> QED BY <2>3, <2>4
<1>5. CASE /\ l = 1 /\ waiters' = [waiters EXCEPT ![1] = Append(w, t)]
           /\ Goto(t, "wait") /\ UNCHANGED locked
  <2>1. /\ waiters'[1] = Append(w, t)
        /\ waiters'[2] = waiters[2]
        /\ waiters' \in [Locks -> Seq(Tasks)]
    BY <1>1, <1>5 DEF QueueInv, WaitInv
  <2>2. InService' = InService
    <3>1. Sending' = Sending
      BY <1>5 DEF Sending, Goto, QueueInv, LockInv, PlaceType
    <3> QED BY <3>1 DEF InService
  <2>3. InService \in Seq(Tasks) /\ \A i \in 1 .. Len(InService) : InService[i] # t
    <3>1. CASE \A s \in Tasks : place[s] # "send"
      <4>1. InService = <<>>
        BY <3>1, ServiceEmpty
      <4> QED BY <4>1
    <3>2. ASSUME NEW s \in Tasks, place[s] = "send"
          PROVE  InService = <<s>> /\ s # t
      <4>1. OneWriter
        BY DEF QueueInv, LockInv, HolderInv
      <4> QED BY <3>2, <4>1, ServiceOne
    <3>3. ASSUME NEW s \in Tasks, InService = <<s>>, s # t
          PROVE  InService \in Seq(Tasks) /\ \A i \in 1 .. Len(InService) : InService[i] # t
      BY <3>3
    <3> QED BY <3>1, <3>2, <3>3
  <2>4. Enqueued(t)
    <3> DEFINE s == InService
    <3> HIDE DEF s, w
    <3>1. \A i \in 1 .. Len(s \o w) : (s \o w)[i] # t
      BY <1>1, <2>3 DEF s
    <3>2. s \o Append(w, t) = Append(s \o w, t)
      BY <1>1, <2>3 DEF s
    <3>3. t \notin Range(s \o w)
      BY <3>1, <1>1, <2>3 DEF Range, s
    <3> QED BY <2>1, <2>2, <3>2, <3>3 DEF Enqueued, s, w
  <2>5. WaitInv'
    <3>1. /\ Len(waiters'[1]) = Len(w) + 1 /\ waiters'[1][Len(w) + 1] = t
          /\ \A i \in 1 .. Len(w) : waiters'[1][i] = w[i]
      BY <1>1, <2>1
    <3>2. \A i \in 1 .. Len(waiters'[1]) : i \in 1 .. Len(w) \/ i = Len(w) + 1
      BY <3>1, <1>1
    <3>3. /\ place'[t] = "wait" /\ mine'[t] = 1
          /\ \A s \in Tasks : s # t => place'[s] = place[s] /\ mine'[s] = mine[s]
      BY <1>1, <1>5 DEF Goto, QueueInv, LockInv, PlaceType
    <3>4. \A s \in Tasks : place'[s] = "wait" =>
            mine'[s] = 1 /\ \E i \in 1 .. Len(waiters'[1]) : waiters'[1][i] = s
      <4>1. TAKE s \in Tasks
      <4>2. HAVE place'[s] = "wait"
      <4>3. CASE s = t
        BY <4>3, <3>1, <3>3, <1>1
      <4>4. CASE s # t
        <5>1. mine[s] = 1 /\ \E i \in 1 .. Len(w) : w[i] = s
          BY <4>2, <4>4, <3>3 DEF QueueInv, WaitInv
        <5>2. PICK i \in 1 .. Len(w) : w[i] = s
          BY <5>1
        <5> QED BY <5>1, <5>2, <4>4, <3>1, <3>3, <1>1
      <4> QED BY <4>3, <4>4
    <3>5. \A i \in 1 .. Len(waiters'[1]) : place'[waiters'[1][i]] = "wait"
      BY <1>1, <3>1, <3>2, <3>3 DEF QueueInv, WaitInv
    <3>6. \A i, j \in 1 .. Len(waiters'[1]) : waiters'[1][i] = waiters'[1][j] => i = j
      <4>1. \A i, j \in 1 .. Len(w) : w[i] = w[j] => i = j
        BY DEF QueueInv, WaitInv
      <4>2. \A i \in 1 .. Len(w) : w[i] # t
        BY <1>1
      <4> HIDE DEF w
      <4> QED BY <3>1, <3>2, <4>1, <4>2
    <3> QED BY <2>1, <3>4, <3>5, <3>6, <1>5 DEF WaitInv, QueueInv
  <2> QED BY <2>4, <2>5
<1>6. \/ UNCHANGED <<waiters, locked>> /\ Goto(t, "idle")
      \/ /\ l = 1 /\ w = <<>> /\ ~ locked[1] /\ UNCHANGED waiters
         /\ Goto(t, "send") /\ locked' = [locked EXCEPT ![1] = TRUE]
      \/ /\ l = 1 /\ waiters' = [waiters EXCEPT ![1] = Append(w, t)]
         /\ Goto(t, "wait") /\ UNCHANGED locked
  <2>1. l = 2 => ~ locked[l] /\ waiters[l] = <<>> /\ socket = "seen"
    BY <1>1 DEF QueueInv, WaitInv
  <2> QED BY <1>1, <2>1 DEF Acquire, Begin
<1> QED BY <1>3, <1>4, <1>5, <1>6

LEMMA GrantedQueues ==
  ASSUME QueueInv, NEW t \in Tasks, Granted(t)
  PROVE  WaitInv' /\ (SameQueue \/ Dequeued)
<1> DEFINE w == waiters[1]
<1> USE DEF Locks, NoLock
<1>1. /\ w \in Seq(Tasks) /\ w # <<>> /\ Head(w) = t /\ Len(w) \in Nat /\ Len(w) > 0
      /\ mine[t] = 1 /\ ~ locked[1] /\ UNCHANGED mine
      /\ waiters' = [waiters EXCEPT ![1] = Tail(w)]
      /\ Begin(t, 1)
  <2>1. mine[t] = 1 /\ w \in Seq(Tasks) /\ \E i \in 1 .. Len(w) : w[i] = t
    BY DEF Granted, QueueInv, WaitInv
  <2> QED BY <2>1 DEF Granted
<1>2. /\ Tail(w) \in Seq(Tasks) /\ Len(Tail(w)) = Len(w) - 1
      /\ \A i \in 1 .. Len(Tail(w)) : Tail(w)[i] = w[i + 1]
      /\ w[1] = t
  BY <1>1
<1>3. /\ waiters'[1] = Tail(w) /\ waiters'[2] = waiters[2]
      /\ waiters' \in [Locks -> Seq(Tasks)]
  BY <1>1, <1>2 DEF QueueInv, WaitInv
<1>4. \A i \in 1 .. Len(Tail(w)) : Tail(w)[i] # t
  BY <1>1, <1>2 DEF QueueInv, WaitInv
<1>5. InService = <<>>
  BY <1>1, ServiceEmpty DEF QueueInv, LockInv, HolderInv
<1> HIDE DEF w
<1>6. WaitInv'
  <2>1. /\ place' = [place EXCEPT ![t] = place'[t]] /\ place'[t] # "wait"
        /\ locked'[2] = locked[2]
    BY <1>1 DEF Begin, Goto, QueueInv, LockInv, PlaceType
  <2>2. \A s \in Tasks : s # t => place'[s] = place[s]
    BY <2>1 DEF QueueInv, LockInv, PlaceType
  <2>3. \A s \in Tasks : place'[s] = "wait" =>
          mine'[s] = 1 /\ \E i \in 1 .. Len(Tail(w)) : Tail(w)[i] = s
    <3>1. TAKE s \in Tasks
    <3>2. HAVE place'[s] = "wait"
    <3>3. s # t /\ place[s] = "wait" /\ mine'[s] = 1
      BY <3>2, <2>1, <2>2, <1>1 DEF QueueInv, WaitInv
    <3>4. PICK i \in 1 .. Len(w) : w[i] = s
      BY <3>3 DEF QueueInv, WaitInv, w
    <3>5. i # 1
      BY <3>3, <3>4, <1>2
    <3>6. i - 1 \in 1 .. Len(Tail(w)) /\ Tail(w)[i - 1] = s
      BY <3>4, <3>5, <1>1, <1>2
    <3> QED BY <3>3, <3>6
  <2>4. \A i \in 1 .. Len(Tail(w)) : place'[Tail(w)[i]] = "wait"
    <3>1. TAKE i \in 1 .. Len(Tail(w))
    <3>2. i + 1 \in 1 .. Len(w) /\ Tail(w)[i] = w[i + 1]
      BY <1>1, <1>2
    <3>3. w[i + 1] \in Tasks /\ place[w[i + 1]] = "wait"
      BY <3>2, <1>1 DEF QueueInv, WaitInv, w
    <3> QED BY <3>2, <3>3, <2>2, <1>4
  <2>5. \A i, j \in 1 .. Len(Tail(w)) : Tail(w)[i] = Tail(w)[j] => i = j
    <3>1. TAKE i, j \in 1 .. Len(Tail(w))
    <3>2. i + 1 \in 1 .. Len(w) /\ j + 1 \in 1 .. Len(w)
      BY <1>1, <1>2
    <3>3. w[i + 1] = w[j + 1] => i + 1 = j + 1
      BY <3>2 DEF QueueInv, WaitInv, w
    <3> QED BY <1>2, <3>3
  <2> QED BY <1>3, <2>1, <2>3, <2>4, <2>5 DEF WaitInv, QueueInv
<1>7. InService \o w = w
  BY <1>1, <1>5
<1>8. CASE socket = "seen"
  <2>1. \A s \in Tasks : place'[s] # "send"
    BY <1>1, <1>8 DEF Begin, Goto, QueueInv, LockInv, PlaceType, HolderInv
  <2>2. InService' = <<>>
    BY <2>1 DEF InService, Sending
  <2>3. (InService \o waiters[1])' = Tail(w)
    BY <2>2, <1>2, <1>3
  <2> QED BY <1>1, <1>6, <1>7, <2>3 DEF Dequeued, w
<1>9. CASE socket # "seen"
  <2>1. LockInv'
    BY GrantedStep DEF QueueInv
  <2>2. place'[t] = "send"
    BY <1>1, <1>9 DEF Begin, Goto, QueueInv, LockInv, PlaceType
  <2>3. Sending' # {} /\ \A s \in Sending' : s = t
    BY <2>1, <2>2 DEF LockInv, HolderInv, OneWriter, Sending
  <2>4. (CHOOSE s \in Sending' : TRUE) = t
    BY <2>3
  <2>5. InService' = <<t>>
    BY <2>3, <2>4 DEF InService
  <2>6. <<t>> \o Tail(w) = w
    BY <1>1, <1>2
  <2>7. SameQueue
    BY <2>5, <2>6, <1>3, <1>7 DEF SameQueue, w
  <2> QED BY <1>6, <2>7
<1> QED BY <1>8, <1>9

LEMMA ReleaseQueues ==
  ASSUME QueueInv, NEW t \in Tasks, place[t] = "send", Release(t)
  PROVE  WaitInv' /\ Dequeued
<1> DEFINE w == waiters[1]
<1> USE DEF Locks, NoLock
<1>1. /\ w \in Seq(Tasks) /\ mine[t] = 1 /\ UNCHANGED <<mine, waiters>>
      /\ Goto(t, "idle") /\ locked' = [locked EXCEPT ![1] = FALSE]
  <2>1. w \in Seq(Tasks)
    BY DEF QueueInv, WaitInv
  <2>2. mine[t] = 1
    BY DEF QueueInv, LockInv, HolderInv
  <2> QED BY <2>1, <2>2 DEF Release
<1>2. InService = <<t>>
  BY ServiceOne DEF QueueInv, LockInv, HolderInv
<1>3. \A s \in Tasks : place'[s] # "send"
  BY <1>1 DEF Goto, QueueInv, LockInv, PlaceType, HolderInv, OneWriter, Sending
<1>4. InService' = <<>>
  BY <1>3 DEF InService, Sending
<1>5. <<t>> \o w # <<>> /\ Tail(<<t>> \o w) = w /\ <<>> \o w = w
  BY <1>1
<1>6. Dequeued
  BY <1>1, <1>2, <1>4, <1>5 DEF Dequeued
<1>7. WaitInv'
  BY <1>1 DEF Goto, QueueInv, LockInv, PlaceType, WaitInv
<1> QED BY <1>6, <1>7

\* The end of the loop and all steps that touch no lock.
LEMMA OtherQueues ==
  ASSUME QueueInv, UNCHANGED <<mine, locked, waiters>>,
         UNCHANGED place \/ (place[Loop] = "idle" /\ Goto(Loop, "done"))
  PROVE  WaitInv' /\ SameQueue
<1> USE LoopIsTask
<1>1. /\ Sending' = Sending
      /\ \A t \in Tasks : place'[t] = "wait" <=> place[t] = "wait"
  BY DEF Sending, Goto, QueueInv, LockInv, PlaceType
<1>2. InService' = InService
  BY <1>1 DEF InService
<1>3. \A i \in 1 .. Len(waiters[1]) : waiters[1][i] \in Tasks
  BY DEF QueueInv, WaitInv, Locks
<1> QED BY <1>1, <1>2, <1>3 DEF SameQueue, QueueInv, WaitInv

LEMMA QueueStep ==
  ASSUME QueueInv, [Next]_vars
  PROVE  QueueInv' /\ (SameQueue \/ Dequeued \/ \E t \in Tasks : Enqueued(t))
<1> USE LoopIsTask
<1>1. LockInv'
  BY LockStep DEF QueueInv
<1>2. ASSUME NEW t \in Tasks, Ask(t)
      PROVE  WaitInv' /\ (SameQueue \/ Enqueued(t))
  BY <1>2, AcquireQueues DEF Ask
<1>3. ASSUME NEW t \in Tasks, Granted(t) PROVE WaitInv' /\ (SameQueue \/ Dequeued)
  BY <1>3, GrantedQueues
<1>4. ASSUME NEW t \in Tasks, SendEnds(t) \/ SendRaises(t) PROVE WaitInv' /\ Dequeued
  BY <1>4, ReleaseQueues DEF SendEnds, SendRaises
<1>5. CASE LoopTakesReset \/ LoopCloses
  BY <1>1, <1>5, AcquireQueues DEF LoopTakesReset, LoopCloses, QueueInv
<1>6. CASE \/ LoopTakes \/ LoopSeesLoss \/ LoopPops \/ AgentTakes \/ AgentReports
           \/ AgentSends \/ ConnectionLost \/ UNCHANGED vars
           \/ PingTimeout(wire = Capacity) \/ PingTimeout(inbox = Capacity)
  BY <1>1, <1>6, OtherQueues DEF LoopTakes, LoopSeesLoss, LoopPops, AgentTakes,
     AgentReports, AgentSends, ConnectionLost, PingTimeout, vars, lockVars, QueueInv
<1> QED
  BY <1>1, <1>2, <1>3, <1>4, <1>5, <1>6 DEF Next, LoopStep, QueueInv

LEMMA QueueInit == Init => QueueInv /\ Q!Init
<1> SUFFICES ASSUME Init PROVE QueueInv /\ Q!Init
  OBVIOUS
<1>1. WaitInv
  BY DEF Init, WaitInv, Locks
<1>2. InService = <<>> /\ waiters[1] = <<>>
  BY ServiceEmpty DEF Init, Locks
<1>3. <<>> \o <<>> = <<>>
  OBVIOUS
<1> QED BY <1>1, <1>2, <1>3, LockInit DEF QueueInv, Q!Init

\* The lock implements SendQueue: mutual exclusion, and no task is overtaken by
\* one that asked after it, also while the lock is replaced in the table.
THEOREM ServedInOrderHolds == Spec => ServedInOrder
<1>1. QueueInv /\ [Next]_vars => [Q!Next]_(InService \o waiters[1])
  <2> SUFFICES ASSUME QueueInv, [Next]_vars
               PROVE  [Q!Next]_(InService \o waiters[1])
    OBVIOUS
  <2>1. CASE SameQueue
    BY <2>1 DEF SameQueue
  <2>2. CASE Dequeued
    BY <2>2 DEF Dequeued, Q!Next, Q!SendOver
  <2>3. ASSUME NEW t \in Tasks, Enqueued(t) PROVE Q!Next
    <3>1. t \notin Q!Range(InService \o waiters[1])
      BY <2>3 DEF Enqueued, Range, Q!Range
    <3> QED BY <2>3, <3>1 DEF Enqueued, Q!Next, Q!Submit
  <2> QED BY <2>1, <2>2, <2>3, QueueStep
<1>2. QueueInv /\ [Next]_vars => QueueInv'
  BY QueueStep
<1> QED
  BY QueueInit, <1>1, <1>2, PTL DEF Spec, ServedInOrder, Q!Spec

-----------------------------------------------------------------------------
(* The types.                                                              *)

\* The counters of messages and of connections keep within their bounds.
FlowType ==
  /\ todo \in 0 .. MaxOpen
  /\ wire \in 0 .. Capacity /\ inbox \in 0 .. Capacity
  /\ agent \in {"receive", "report"}

LEMMA FlowStep == FlowType /\ [Next]_vars => FlowType'
<1> SUFFICES ASSUME FlowType, [Next]_vars PROVE FlowType'
  OBVIOUS
<1> USE LockOK DEF FlowType, flowVars
<1>1. ASSUME NEW t \in Tasks, Ask(t) \/ Granted(t) \/ SendEnds(t) \/ SendRaises(t)
      PROVE  FlowType'
  BY <1>1 DEF Ask, Granted, SendEnds, SendRaises
<1>2. CASE LoopTakes \/ LoopTakesReset
  BY <1>2 DEF LoopTakes, LoopTakesReset
<1>3. CASE LoopSeesLoss \/ LoopCloses \/ LoopPops
  BY <1>3 DEF LoopSeesLoss, LoopCloses, LoopPops
<1>4. CASE AgentTakes \/ AgentReports \/ AgentSends
  BY <1>4 DEF AgentTakes, AgentReports, AgentSends
<1>5. CASE \/ PingTimeout(wire = Capacity) \/ PingTimeout(inbox = Capacity)
           \/ ConnectionLost \/ UNCHANGED vars
  BY <1>5 DEF PingTimeout, ConnectionLost, vars
<1> QED BY <1>1, <1>2, <1>3, <1>4, <1>5 DEF Next, LoopStep

\* Every variable keeps its type, the table makes at most two locks, and a task
\* is among the waiters of its lock exactly while it waits: none is forgotten
\* with a lock that left the table.
THEOREM TypeCorrect == Spec => []TypeOK
<1>1. Init => FlowType
  BY LockOK DEF Init, FlowType
<1>2. QueueInv /\ FlowType => TypeOK
  <2> SUFFICES ASSUME QueueInv, FlowType PROVE TypeOK
    OBVIOUS
  <2>1. LockInv /\ WaitInv
    BY DEF QueueInv
  <2>2. entry \in Locks \cup {NoLock}
    BY <2>1 DEF LockInv, PlaceType, TableInv, Locks, NoLock
  <2>3. ASSUME NEW t \in Tasks, NEW l \in Locks
        PROVE  t \in Range(waiters[l]) <=> place[t] = "wait" /\ mine[t] = l
    <3>1. t \in Range(waiters[l]) <=> \E i \in 1 .. Len(waiters[l]) : waiters[l][i] = t
      BY <2>1 DEF WaitInv, Range
    <3>2. CASE l = 1
      BY <2>1, <3>1, <3>2 DEF WaitInv
    <3>3. CASE l = 2
      BY <2>1, <3>1, <3>3 DEF WaitInv
    <3> QED BY <3>2, <3>3 DEF Locks
  <2> QED
    BY <2>1, <2>2, <2>3 DEF LockInv, PlaceType, WaitInv, FlowType, TypeOK
<1>3. QueueInv /\ [Next]_vars => QueueInv'
  BY QueueStep
<1> QED
  BY QueueInit, <1>1, <1>2, <1>3, FlowStep, PTL DEF Spec

=============================================================================

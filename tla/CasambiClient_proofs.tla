---------------------- MODULE CasambiClient_proofs -----------------------
(***************************************************************************)
(* Proofs about CasambiClient: its types; that _activityLock keeps two     *)
(* tasks from being inside a critical section at once; and of the          *)
(* operations it transmits, that the client implements Delivery, puts none *)
(* on the air twice, and between two connect() calls uses no counter again *)
(* whose write ended.                                                      *)
(***************************************************************************)
EXTENDS CasambiClient, Sequence_proofs

-----------------------------------------------------------------------------
(* Types.                                                                  *)

\* A caller that may return from _notifySignal.wait() is waiting there.
WokenWait == \A t \in woken : pc[t] \in SignalWait

\* A caller suspended on the radio in its critical section holds the lock.
WritersHold == \A t \in Callers : pc[t] \in Writing => Holds(t)

\* The control points at which a caller is in the queue of the lock.
Claims == Writing \cup LockWait

\* Nobody is in the queue q twice; the callers in it are those at a control
\* point that claims the lock, and one that is writing is its head.
QueueOK(q, f) ==
  /\ Distinct(q)
  /\ \A t \in Callers : InQ(q, t) <=> f[t] \in Claims
  /\ \A t \in Callers : f[t] \in Writing => q # <<>> /\ Head(q) = t

\* A callback task is in the queue q only to run its handler, or because it
\* ended before it released the lock.
TasksOK(q, c) ==
  \A i \in 1..Len(q) : q[i] \notin Callers =>
    q[i] \in 1..Len(c) /\ c[q[i]].pc \in {"lock", "dead"}

LockInv == QueueOK(lockQ, pc) /\ TasksOK(lockQ, cbs) /\ WokenWait

LEMMA TypeInit == Init => TypeOK
<1> SUFFICES ASSUME Init PROVE TypeOK
  OBVIOUS
<1> USE DEF Init
<1>1. \A S : <<>> \in Seq(S)
  BY EmptySeq
<1>2. ClientType /\ LinkType /\ BoundType
  BY DEF ClientType, LinkType, BoundType, ConnectionState
<1>3. LockType /\ HistoryType
  BY <1>1 DEF LockType, HistoryType
<1>4. TaskType
  BY <1>1, EmptySeq DEF TaskType
<1>5. CallerType
  BY DEF CallerType, Labels, Idle, Jobs
<1> QED BY <1>2, <1>3, <1>4, <1>5 DEF TypeOK

LEMMA GotoType ==
  ASSUME CallerType, NEW t \in Callers, NEW l \in Labels, Goto(t, l)
  PROVE  pc' \in [Callers -> Labels]
BY DEF CallerType, Goto

LEMMA LabelsType ==
  /\ Idle \cup LockWait \cup Writing \cup SignalWait \subseteq Labels
  /\ {"connecting", "stopping", "closing"} \subseteq Labels
  /\ \A w \in SignalWait : AfterSignal[w] \in LockWait
BY DEF Labels, Idle, LockWait, Writing, SignalWait, AfterSignal

LEMMA JobType ==
  ASSUME CallerType, NEW t \in Callers, NEW j \in Jobs
  PROVE  [job EXCEPT ![t] = j] \in [Callers -> Jobs]
BY DEF CallerType

LEMMA RaiseType ==
  ASSUME TypeOK, NEW t \in Callers, Holds(t), Raise(t)
  PROVE  LockType' /\ pc' \in [Callers -> Labels]
<1>1. LockType'
  BY TailQueue DEF TypeOK, LockType, Holds, Raise
<1>2. "raised" \in Labels
  BY DEF Labels, Idle
<1> QED BY <1>1, <1>2, GotoType DEF TypeOK, Raise

LEMMA ReleaseAndWaitType ==
  ASSUME TypeOK, NEW t \in Callers, Holds(t), NEW w \in SignalWait,
         ReleaseAndWait(t, w)
  PROVE  LockType' /\ pc' \in [Callers -> Labels]
<1>1. Tail(lockQ) \in Seq(Callers \cup Nat)
  BY TailQueue DEF TypeOK, LockType, Holds
<1>2. LockType'
  BY <1>1, AppendQueue DEF ReleaseAndWait, LockType
<1>3. w \in Labels /\ AfterSignal[w] \in Labels
  BY LabelsType
<1> QED BY <1>2, <1>3, GotoType DEF TypeOK, ReleaseAndWait

LEMMA AcquireType ==
  ASSUME LockType, NEW x \in Callers \cup Nat, Acquire(x)
  PROVE  LockType'
BY AppendQueue DEF LockType, Acquire

LEMMA OpenClientType ==
  ASSUME TypeOK, NEW t \in Callers, OpenClient(t)
  PROVE  TaskType' /\ pc' \in [Callers -> Labels] /\ outCount' \in Nat
<1> DEFINE q == [items |-> <<>>, unfinished |-> 0]
           c == [pc |-> "get", q |-> Len(queues) + 1, item |-> NoPacket,
                 after |-> {}]
<1>1. q \in Queue
  BY EmptySeq DEF Queue
<1>2. c \in Callback
  BY LenProperties DEF TypeOK, TaskType, Callback, Packet, NoPacket
<1>3. queues' = Append(queues, q) /\ cbs' = Append(cbs, c) /\ cbTask' = Len(cbs) + 1
  BY DEF OpenClient
<1>4. c.q = Len(queues) + 1
  OBVIOUS
<1> HIDE DEF q, c
<1>5. /\ queues' \in Seq(Queue) /\ Len(queues') = Len(queues) + 1
      /\ cbs' \in Seq(Callback) /\ Len(cbs') = Len(cbs) + 1
      /\ \A k \in 1..Len(cbs) : cbs'[k] = cbs[k]
      /\ cbs'[Len(cbs) + 1] = c
  BY <1>1, <1>2, <1>3, AppendProperties DEF TypeOK, TaskType
<1>6. Len(cbs) \in Nat /\ Len(queues) = Len(cbs)
  BY LenProperties DEF TypeOK, TaskType
<1>7. \A k \in 1..Len(cbs') : cbs'[k].q <= Len(queues')
  <2> SUFFICES ASSUME NEW k \in 1..Len(cbs') PROVE cbs'[k].q <= Len(queues')
    OBVIOUS
  <2>1. CASE k = Len(cbs) + 1
    BY <1>4, <1>5, <1>6, <2>1
  <2>2. CASE k # Len(cbs) + 1
    <3>1. k \in 1..Len(cbs)
      BY <1>5, <1>6, <2>2
    <3>2. cbs[k] \in Callback
      BY <3>1, ElementOfSeq DEF TypeOK, TaskType
    <3>3. cbs[k].q \in Nat /\ cbs[k].q <= Len(queues)
      BY <3>1, <3>2 DEF TypeOK, TaskType, Callback
    <3> QED BY <1>5, <1>6, <3>1, <3>3
  <2> QED BY <2>1, <2>2
<1>8. TaskType'
  BY <1>3, <1>5, <1>6, <1>7 DEF TaskType
<1>9. pc' \in [Callers -> Labels] /\ outCount' \in Nat
  BY LabelsType, GotoType DEF TypeOK, OpenClient
<1> QED BY <1>8, <1>9

\* Setting one record of cbs.
LEMMA CbsType ==
  ASSUME TaskType, NEW k \in 1..Len(cbs), NEW c \in Callback, c.q <= Len(queues),
         cbs' = [cbs EXCEPT ![k] = c], Len(queues') = Len(queues),
         queues' \in Seq(Queue), cbTask' \in 0..Len(cbs)
  PROVE  TaskType'
<1>1. /\ cbs' \in Seq(Callback) /\ Len(cbs') = Len(cbs)
      /\ \A j \in 1..Len(cbs) : cbs'[j] = IF j = k THEN c ELSE cbs[j]
  BY ExceptSeq DEF TaskType
<1> QED BY <1>1 DEF TaskType

\* Changing the control point of a callback task, and the rest of its record.
LEMMA CallbackGoes ==
  ASSUME NEW c \in Callback, NEW l \in {"get", "sleep", "lock", "dead"}
  PROVE  [c EXCEPT !.pc = l] \in Callback /\ [c EXCEPT !.pc = l].q = c.q
BY DEF Callback

LEMMA CallbackSleeps ==
  ASSUME NEW c \in Callback, NEW a \in SUBSET Callers, NEW p \in Packet
  PROVE  /\ [c EXCEPT !.pc = "sleep", !.after = a, !.item = p] \in Callback
         /\ [c EXCEPT !.pc = "sleep", !.after = a, !.item = p].q = c.q
BY DEF Callback

LEMMA CallbackLoops ==
  ASSUME NEW c \in Callback, NEW l \in {"get", "dead"}, NEW n \in Nat \ {0}
  PROVE  /\ [c EXCEPT !.q = n, !.pc = l] \in Callback
         /\ [c EXCEPT !.q = n, !.pc = l].q = n
BY DEF Callback

LEMMA StartDisconnectType ==
  ASSUME TypeOK, NEW t \in Callers, NEW q \in Seq(Callers \cup Nat),
         StartDisconnect(t, q)
  PROVE  TaskType' /\ LockType' /\ pc' \in [Callers -> Labels]
<1>1. LockType'
  BY WithoutQueue DEF StartDisconnect, LockType
<1>2. pc' \in [Callers -> Labels]
  BY LabelsType, GotoType DEF TypeOK, StartDisconnect
<1>3. TaskType'
  <2>1. CASE ~(cbTask # 0 /\ cbs[cbTask].pc # "dead")
    BY <2>1 DEF TypeOK, TaskType, StartDisconnect
  <2>2. CASE cbTask # 0 /\ cbs[cbTask].pc # "dead"
    <3> DEFINE c == [cbs[cbTask] EXCEPT !.pc = "dead"]
    <3>1. cbTask \in 1..Len(cbs)
      BY <2>2, LenProperties DEF TypeOK, TaskType
    <3>2. cbs[cbTask] \in Callback /\ cbs[cbTask].q <= Len(queues)
      BY <3>1, ElementOfSeq DEF TypeOK, TaskType
    <3>3. c \in Callback /\ c.q <= Len(queues)
      BY <3>2 DEF Callback
    <3>4. /\ cbs' = [cbs EXCEPT ![cbTask] = c]
          /\ queues' = queues /\ cbTask' = 0
      BY <2>2 DEF StartDisconnect
    <3>5. 0 \in 0..Len(cbs)
      BY LenProperties DEF TypeOK, TaskType
    <3> QED BY <3>1, <3>3, <3>4, <3>5, CbsType DEF TypeOK, TaskType
  <2> QED BY <2>1, <2>2
<1> QED BY <1>1, <1>2, <1>3

LEMMA TypeNext ==
  ASSUME TypeOK, WokenWait, WritersHold, [Next]_vars
  PROVE  TypeOK'
<1> USE DEF clientVars, taskVars, callerVars, linkVars, historyVars, boundVars
<1>u. \* Which parts of TypeOK a step that leaves variables alone preserves.
      /\ UNCHANGED clientVars => ClientType'
      /\ UNCHANGED lockQ => LockType'
      /\ UNCHANGED taskVars => TaskType'
      /\ UNCHANGED linkVars => LinkType'
      /\ UNCHANGED historyVars => HistoryType'
      /\ UNCHANGED boundVars => BoundType'
  BY DEF TypeOK, ClientType, LockType, TaskType, LinkType, HistoryType, BoundType
<1>c. ASSUME pc' \in [Callers -> Labels], UNCHANGED <<job, op, woken>>
      PROVE  CallerType'
  BY <1>c DEF TypeOK, CallerType
<1>l. /\ \A l \in Idle \cup LockWait \cup Writing \cup SignalWait : l \in Labels
      /\ {"connecting", "stopping", "closing"} \subseteq Labels
  BY LabelsType
<1>1. CASE UNCHANGED vars
  BY <1>1, <1>u DEF vars, TypeOK, CallerType
<1>2. ASSUME NEW t \in Callers, BeginConnect(t) PROVE TypeOK'
  <2>1. TaskType' /\ pc' \in [Callers -> Labels] /\ outCount' \in Nat
    BY <1>2, OpenClientType DEF BeginConnect
  <2>2. job' \in [Callers -> Jobs]
    BY <1>2, JobType DEF BeginConnect, Jobs, TypeOK
  <2>3. ClientType' /\ CallerType'
    BY <1>2, <2>1, <2>2 DEF BeginConnect, TypeOK, ClientType, CallerType
  <2> QED BY <1>2, <1>u, <2>1, <2>3 DEF BeginConnect, TypeOK
<1>3. ASSUME NEW t \in Callers, Connected(t) PROVE TypeOK'
  <2>1. LockType' /\ pc' \in [Callers -> Labels]
    BY <1>3, <1>l, AcquireType, GotoType DEF Connected, TypeOK, LockWait
  <2>2. ClientType' /\ LinkType'
    BY <1>3 DEF Connected, TypeOK, ClientType, LinkType, ConnectionState
  <2> QED BY <1>3, <1>u, <1>c, <2>1, <2>2 DEF Connected, TypeOK
<1>4. ASSUME NEW t \in Callers, ConnectFails(t) PROVE TypeOK'
  <2>1. pc' \in [Callers -> Labels]
    BY <1>4, <1>l, GotoType DEF ConnectFails, TypeOK, Idle
  <2>2. ClientType' /\ LinkType'
    BY <1>4 DEF ConnectFails, TypeOK, ClientType, LinkType
  <2> QED BY <1>4, <1>u, <1>c, <2>1, <2>2 DEF ConnectFails, TypeOK
<1>5. ASSUME NEW t \in Callers, Read(t) PROVE TypeOK'
  <2>1. LockType' /\ pc' \in [Callers -> Labels]
    <3>1. CASE LinkUp
      BY <1>5, <3>1, <1>l, <1>u, GotoType DEF Read, TypeOK, Writing
    <3>2. CASE ~LinkUp
      BY <1>5, <3>2, RaiseType DEF Read
    <3> QED BY <3>1, <3>2
  <2> QED BY <1>5, <1>u, <1>c, <2>1 DEF Read, TypeOK
<1>6. ASSUME NEW t \in Callers, ReadEnds(t) PROVE TypeOK'
  <2>1. Holds(t)
    BY <1>6 DEF ReadEnds, WritersHold, Writing
  <2>2. LockType' /\ pc' \in [Callers -> Labels]
    <3>1. CASE Goto(t, "subscribing") /\ UNCHANGED lockQ
      BY <1>l, <1>u, <3>1, GotoType DEF TypeOK, Writing
    <3>2. CASE Raise(t)
      BY <2>1, <3>2, RaiseType
    <3> QED BY <1>6, <3>1, <3>2 DEF ReadEnds
  <2>3. ClientType'
    BY <1>6 DEF ReadEnds, TypeOK, ClientType
  <2> QED BY <1>6, <1>u, <1>c, <2>2, <2>3 DEF ReadEnds, TypeOK
<1>6a. ASSUME NEW t \in Callers, SubscribeEnds(t) PROVE TypeOK'
  <2>1. Holds(t)
    BY <1>6a DEF SubscribeEnds, WritersHold, Writing
  <2>2. LockType' /\ pc' \in [Callers -> Labels]
    BY <1>6a, <2>1, RaiseType, ReleaseAndWaitType DEF SubscribeEnds, SignalWait
  <2>3. LinkType'
    BY <1>6a DEF SubscribeEnds, TypeOK, LinkType
  <2> QED BY <1>6a, <1>u, <1>c, <2>2, <2>3 DEF SubscribeEnds, TypeOK
<1>7. ASSUME NEW t \in Callers, Resume(t) PROVE TypeOK'
  <2>1. AfterSignal[pc[t]] \in Labels
    BY <1>7, LabelsType DEF Resume, WokenWait
  <2>2. LockType' /\ pc' \in [Callers -> Labels]
    BY <1>7, <2>1, AcquireType, GotoType DEF Resume, TypeOK
  <2>3. CallerType'
    BY <1>7, <2>2 DEF Resume, TypeOK, CallerType
  <2> QED BY <1>7, <1>u, <2>2, <2>3 DEF Resume, TypeOK
<1>t. \* What release() leaves of the lock, and a task queued behind it.
      ASSUME NEW t \in Callers, Holds(t)
      PROVE  /\ Tail(lockQ) \in Seq(Callers \cup Nat)
             /\ Append(Tail(lockQ), t) \in Seq(Callers \cup Nat)
  BY <1>t, TailQueue, AppendQueue DEF TypeOK, LockType, Holds
<1>8. ASSUME NEW t \in Callers, Respond(t) PROVE TypeOK'
  <2>1. Holds(t)
    BY <1>8 DEF Respond
  <2>2. LockType' /\ TaskType' /\ pc' \in [Callers -> Labels]
    <3>1. CASE state = "ERROR"
      BY <1>8, <1>t, <2>1, <3>1, StartDisconnectType DEF Respond
    <3>2. CASE state # "ERROR" /\ (tkey = 0 \/ ~LinkUp)
      BY <1>8, <1>u, <2>1, <3>2, RaiseType DEF Respond
    <3>3. CASE state # "ERROR" /\ tkey # 0 /\ LinkUp
      BY <1>8, <1>l, <1>u, <3>3, GotoType DEF Respond, TypeOK, Writing
    <3> QED BY <3>1, <3>2, <3>3
  <2>3. dev' \in {dev, "keyed"} /\ devKey' \in {devKey, air, 0}
    BY <1>8 DEF Respond
  <2>4. ClientType'
    BY <1>8 DEF Respond, TypeOK, ClientType
  <2>5. LinkType'
    <3>1. air' = air /\ links' = links
      BY <1>8 DEF Respond
    <3>2. devKey' \in Nat
      BY <2>3 DEF TypeOK, LinkType
    <3>3. dev' \in {"closed", "open", "subscribed", "greeted", "keyed", "acked",
                   "proved", "up"}
      BY <2>3 DEF TypeOK, LinkType
    <3> QED BY <3>1, <3>2, <3>3 DEF TypeOK, LinkType
  <2> QED BY <1>8, <1>u, <1>c, <2>2, <2>4, <2>5 DEF Respond, TypeOK
<1>9. ASSUME NEW t \in Callers, ResponseEnds(t) PROVE TypeOK'
  <2>1. Holds(t)
    BY <1>9 DEF ResponseEnds, WritersHold, Writing
  <2>2. LockType' /\ pc' \in [Callers -> Labels]
    BY <1>9, <2>1, RaiseType, ReleaseAndWaitType DEF ResponseEnds, SignalWait
  <2> QED BY <1>9, <1>u, <1>c, <2>2 DEF ResponseEnds, TypeOK
<1>10. ASSUME NEW t \in Callers, Derive(t) PROVE TypeOK'
  <2>1. Holds(t)
    BY <1>10 DEF Derive
  <2>2. LockType' /\ TaskType' /\ pc' \in [Callers -> Labels]
    <3>1. CASE state = "ERROR"
      BY <1>10, <1>t, <2>1, <3>1, StartDisconnectType DEF Derive
    <3>2. CASE state # "ERROR" /\ HasKey
      BY <1>10, <1>l, <1>t, <1>u, <2>1, <3>2, GotoType
         DEF Derive, TypeOK, LockType, LockWait
    <3>3. CASE state # "ERROR" /\ ~HasKey
      BY <1>10, <1>u, <2>1, <3>3, RaiseType DEF Derive
    <3> QED BY <3>1, <3>2, <3>3
  <2>3. ClientType'
    BY <1>10 DEF Derive, TypeOK, ClientType, ConnectionState
  <2> QED BY <1>10, <1>u, <1>c, <2>2, <2>3 DEF Derive, TypeOK
<1>11. ASSUME NEW t \in Callers, Authenticate(t) PROVE TypeOK'
  <2>1. Holds(t)
    BY <1>11 DEF Authenticate
  <2>2. LockType' /\ pc' \in [Callers -> Labels]
    <3>1. CASE Raise(t)
      BY <2>1, <3>1, RaiseType
    <3>2. CASE ReleaseAndWait(t, "authWait")
      BY <2>1, <3>2, ReleaseAndWaitType DEF SignalWait
    <3>3. CASE Goto(t, "authWriting") /\ UNCHANGED lockQ
      BY <1>l, <1>u, <3>3, GotoType DEF TypeOK, Writing
    <3> QED BY <1>11, <3>1, <3>2, <3>3 DEF Authenticate
  <2>3. ClientType' /\ LinkType'
    BY <1>11 DEF Authenticate, TypeOK, ClientType, LinkType, ConnectionState
  <2> QED BY <1>11, <1>u, <1>c, <2>2, <2>3 DEF Authenticate, TypeOK
<1>12. ASSUME NEW t \in Callers, AuthEnds(t) PROVE TypeOK'
  <2>1. Holds(t)
    BY <1>12 DEF AuthEnds, WritersHold, Writing
  <2>2. LockType' /\ pc' \in [Callers -> Labels]
    BY <1>12, <2>1, RaiseType, ReleaseAndWaitType
       DEF AuthEnds, WriteFails, SignalWait
  <2>3. ClientType'
    BY <1>12 DEF AuthEnds, WriteFails, TypeOK, ClientType, ConnectionState
  <2> QED BY <1>12, <1>u, <1>c, <2>2, <2>3 DEF AuthEnds, TypeOK
<1>13. ASSUME NEW t \in Callers, Accept(t) PROVE TypeOK'
  <2>1. Holds(t)
    BY <1>13 DEF Accept
  <2>2. LockType' /\ TaskType' /\ pc' \in [Callers -> Labels]
    <3>1. CASE state = "ERROR"
      BY <1>13, <1>t, <2>1, <3>1, StartDisconnectType DEF Accept
    <3>2. CASE state # "ERROR" /\ job[t] = "retry"
      BY <1>13, <1>l, <1>t, <1>u, <2>1, <3>2, GotoType
         DEF Accept, TypeOK, LockType, LockWait
    <3>3. CASE state # "ERROR" /\ job[t] # "retry"
      BY <1>13, <1>l, <1>t, <1>u, <2>1, <3>3, GotoType
         DEF Accept, TypeOK, LockType, Idle
    <3> QED BY <3>1, <3>2, <3>3
  <2>3. ClientType'
    BY <1>13 DEF Accept, TypeOK, ClientType, ConnectionState
  <2> QED BY <1>13, <1>u, <1>c, <2>2, <2>3 DEF Accept, TypeOK
<1>14. ASSUME NEW t \in Callers, BeginSend(t) PROVE TypeOK'
  <2>1. op' \in [Callers -> Nat] /\ BoundType'
    BY <1>14 DEF BeginSend, TypeOK, CallerType, BoundType
  <2>2. job' \in [Callers -> Jobs]
    BY <1>14, JobType DEF BeginSend, TypeOK, Jobs
  <2>3. /\ LockType' /\ TaskType' /\ pc' \in [Callers -> Labels]
        /\ outCount' \in Nat
    <3>1. CASE state = "AUTHENTICATED"
      BY <1>14, <1>l, <1>u, <3>1, AcquireType, GotoType
         DEF BeginSend, TypeOK, ClientType, LockWait
    <3>2. CASE state = "NONE"
      BY <1>14, <1>u, <3>2, OpenClientType DEF BeginSend
    <3>3. CASE state \notin {"AUTHENTICATED", "NONE"}
      BY <1>14, <1>l, <1>u, <3>3, GotoType DEF BeginSend, TypeOK, ClientType, Idle
    <3> QED BY <3>1, <3>2, <3>3
  <2>4. ClientType' /\ CallerType'
    BY <1>14, <2>1, <2>2, <2>3 DEF BeginSend, TypeOK, ClientType, CallerType
  <2>5. LinkType' /\ HistoryType'
    BY <1>14, <1>u DEF BeginSend
  <2> QED BY <2>1, <2>3, <2>4, <2>5 DEF TypeOK
<1>15. ASSUME NEW t \in Callers, Send(t) PROVE TypeOK'
  <2>1. Holds(t)
    BY <1>15 DEF Send
  <2>2. job' \in [Callers -> Jobs]
    BY <1>15, JobType DEF Send, TypeOK, CallerType, Jobs
  <2>3. HistoryType'
    <3> DEFINE r == [op |-> op[t], counter |-> outCount, attempt |-> Len(queues)]
    <3>1. r \in [op : Nat, counter : Nat, attempt : Nat]
      BY DEF TypeOK, ClientType, CallerType, TaskType
    <3>2. aired' \in {aired, Append(aired, r)}
      BY <1>15 DEF Send
    <3> DEFINE R == [op : Nat, counter : Nat, attempt : Nat]
    <3>3. aired \in Seq(R)
      BY DEF TypeOK, HistoryType
    <3>4. r \in R
      BY <3>1
    <3> HIDE DEF r, R
    <3>5. Append(aired, r) \in Seq(R)
      BY <3>3, <3>4, AppendProperties
    <3>6. aired' \in Seq(R)
      BY <3>2, <3>3, <3>5
    <3> USE DEF R
    <3> QED BY <1>15, <3>6 DEF Send, TypeOK, HistoryType
  <2>4. /\ LockType' /\ TaskType' /\ pc' \in [Callers -> Labels]
        /\ outCount' \in Nat
    <3>1. CASE conn = 0 /\ job[t] = "send" /\ state = "NONE"
      <4>1. lockQ' = Tail(lockQ) /\ OpenClient(t)
        BY <1>15, <3>1 DEF Send, LinkUp
      <4> QED BY <1>t, <2>1, <4>1, OpenClientType DEF LockType
    <3>2. CASE conn = 0 /\ ~(job[t] = "send" /\ state = "NONE")
      BY <1>15, <1>u, <2>1, <3>2, RaiseType DEF Send, LinkUp, TypeOK, ClientType
    <3>3. CASE conn # 0 /\ ~LinkUp
      <4>1. /\ outCount' = outCount + 1 /\ UNCHANGED taskVars
            /\ lockQ' = Tail(lockQ) /\ Goto(t, "returned")
        BY <1>15, <3>3 DEF Send, LinkUp
      <4> QED BY <1>l, <1>t, <1>u, <2>1, <4>1, GotoType
              DEF TypeOK, ClientType, LockType, Idle
    <3>4. CASE LinkUp
      <4>1. Goto(t, "sendWriting") /\ UNCHANGED <<outCount, lockQ, taskVars>>
        BY <1>15, <3>4 DEF Send, LinkUp
      <4> QED BY <1>l, <1>u, <4>1, GotoType DEF TypeOK, ClientType, Writing
    <3> QED BY <3>1, <3>2, <3>3, <3>4
  <2>5. state' \in {state, "NONE"}
    BY <1>15 DEF Send
  <2>6. ClientType' /\ CallerType'
    BY <1>15, <2>2, <2>4, <2>5
       DEF Send, TypeOK, ClientType, CallerType, ConnectionState
  <2>7. LinkType' /\ BoundType'
    BY <1>15, <1>u DEF Send
  <2> QED BY <2>3, <2>4, <2>6, <2>7 DEF TypeOK
<1>16. ASSUME NEW t \in Callers, SendEnds(t) PROVE TypeOK'
  <2>1. Holds(t)
    BY <1>16 DEF SendEnds, WritersHold, Writing
  <2>2. LockType' /\ pc' \in [Callers -> Labels]
    <3>1. CASE Raise(t)
      BY <2>1, <3>1, RaiseType
    <3>2. CASE lockQ' = Tail(lockQ) /\ Goto(t, "returned")
      BY <1>l, <1>t, <2>1, <3>2, GotoType DEF TypeOK, LockType, Idle
    <3> QED BY <1>16, <3>1, <3>2 DEF SendEnds, WriteFails
  <2>3. /\ state' \in {state, "NONE"} /\ outCount' \in {outCount, outCount + 1}
        /\ done' \in {done, done \cup {op[t]}}
    BY <1>16 DEF SendEnds, WriteFails
  <2>4. ClientType' /\ HistoryType'
    BY <1>16, <2>3
       DEF SendEnds, TypeOK, ClientType, CallerType, HistoryType, ConnectionState
  <2> QED BY <1>16, <1>u, <1>c, <2>2, <2>4 DEF SendEnds, TypeOK
<1>17. ASSUME NEW t \in Callers, BeginDisconnect(t) PROVE TypeOK'
  <2>1. LockType' /\ TaskType' /\ pc' \in [Callers -> Labels]
    BY <1>17, StartDisconnectType DEF BeginDisconnect, TypeOK, LockType
  <2>2. job' \in [Callers -> Jobs]
    BY <1>17, JobType DEF BeginDisconnect, TypeOK, Jobs
  <2>3. CallerType'
    BY <1>17, <2>1, <2>2 DEF BeginDisconnect, TypeOK, CallerType
  <2> QED BY <1>17, <1>u, <2>1, <2>3 DEF BeginDisconnect, TypeOK
<1>18. ASSUME NEW t \in Callers, CloseLink(t) PROVE TypeOK'
  <2>1. pc' \in [Callers -> Labels] /\ LinkType'
    BY <1>18, <1>l, GotoType DEF CloseLink, TypeOK, LinkType
  <2> QED BY <1>18, <1>u, <1>c, <2>1 DEF CloseLink, TypeOK
<1>19. ASSUME NEW t \in Callers, Disconnected(t) PROVE TypeOK'
  <2>1. pc' \in [Callers -> Labels]
    BY <1>19, <1>l, GotoType DEF Disconnected, TypeOK, Idle
  <2>2. ClientType' /\ HistoryType'
    BY <1>19 DEF Disconnected, TypeOK, ClientType, HistoryType, ConnectionState
  <2> QED BY <1>19, <1>u, <1>c, <2>1, <2>2 DEF Disconnected, TypeOK
<1>20. ASSUME NEW t \in Callers, Cancel(t) PROVE TypeOK'
  <2>1. LockType'
    BY <1>20, WithoutQueue DEF Cancel, TypeOK, LockType
  <2>2. pc' \in [Callers -> Labels]
    BY <1>20, <1>l, GotoType DEF Cancel, TypeOK, Idle
  <2>3. CallerType' /\ BoundType'
    BY <1>20, <2>2 DEF Cancel, TypeOK, CallerType, BoundType
  <2> QED BY <1>20, <1>u, <2>1, <2>3 DEF Cancel, TypeOK
<1>k. \* A callback task, and a record that takes its place.
      ASSUME NEW k \in 1..Len(cbs)
      PROVE  /\ cbs[k] \in Callback /\ cbs[k].q \in 1..Len(queues)
             /\ \A l \in {"get", "sleep", "lock", "dead"} :
                  /\ [cbs[k] EXCEPT !.pc = l] \in Callback
                  /\ [cbs[k] EXCEPT !.pc = l].q <= Len(queues)
  <2>1. cbs[k] \in Callback /\ Len(queues) \in Nat /\ cbs[k].q <= Len(queues)
    BY ElementOfSeq, LenProperties DEF TypeOK, TaskType
  <2>2. cbs[k].q \in Nat \ {0}
    BY <2>1 DEF Callback
  <2> QED BY <2>1, <2>2, CallbackGoes
<1>21. ASSUME NEW k \in 1..Len(cbs), CbGet(k) PROVE TypeOK'
  <2> DEFINE n == cbs[k].q
             q == [queues[n] EXCEPT !.items = Tail(@)]
             c == [cbs[k] EXCEPT !.pc = "sleep", !.after = woken,
                                 !.item = Head(queues[n].items)]
  <2>1. n \in 1..Len(queues) /\ queues[n] \in Queue /\ queues[n].items # <<>>
    BY <1>21, <1>k, ElementOfSeq DEF CbGet, TypeOK, TaskType
  <2>2. /\ Head(queues[n].items) \in Packet
        /\ Tail(queues[n].items) \in Seq(Packet)
    BY <2>1, HeadTailProperties DEF Queue
  <2>3. q \in Queue
    BY <2>1, <2>2 DEF Queue
  <2>4. c \in Callback /\ c.q <= Len(queues)
    <3>1. /\ cbs[k] \in Callback /\ woken \in SUBSET Callers
          /\ Len(queues) \in Nat
      BY <1>k, LenProperties DEF TypeOK, CallerType, TaskType
    <3>2. c \in Callback /\ c.q = n
      BY <2>2, <3>1, CallbackSleeps
    <3> QED BY <2>1, <3>1, <3>2
  <2>5. queues' = [queues EXCEPT ![n] = q] /\ cbs' = [cbs EXCEPT ![k] = c]
    BY <1>21 DEF CbGet
  <2> HIDE DEF q, c
  <2>6. queues' \in Seq(Queue) /\ Len(queues') = Len(queues)
    BY <2>1, <2>3, <2>5, ExceptSeq DEF TypeOK, TaskType
  <2>7. TaskType'
    BY <1>21, <2>4, <2>5, <2>6, CbsType DEF CbGet, TypeOK, TaskType
  <2> QED BY <1>21, <1>u, <2>7 DEF CbGet, TypeOK, CallerType
<1>22. ASSUME NEW k \in 1..Len(cbs), CbWake(k) PROVE TypeOK'
  <2> DEFINE c == [cbs[k] EXCEPT !.pc = "lock"]
  <2>1. c \in Callback /\ c.q <= Len(queues) /\ cbs' = [cbs EXCEPT ![k] = c]
    BY <1>22, <1>k DEF CbWake
  <2> HIDE DEF c
  <2>2. TaskType'
    BY <1>22, <2>1, CbsType DEF CbWake, TypeOK, TaskType
  <2>3. k \in Callers \cup Nat
    BY LenProperties DEF TypeOK, TaskType
  <2>4. LockType'
    BY <1>22, <2>3, AcquireType DEF CbWake, TypeOK
  <2> QED BY <1>22, <1>u, <2>2, <2>4 DEF CbWake, TypeOK, CallerType
<1>23. ASSUME NEW k \in 1..Len(cbs), CbHandle(k) PROVE TypeOK'
  <2> DEFINE n == Len(queues)
             p == cbs[k].item
             q == [queues[n] EXCEPT !.unfinished = @ - 1]
  <2>1. n \in 1..Len(queues) /\ queues[n] \in Queue
    BY ElementOfSeq, LenProperties DEF TypeOK, TaskType
  <2>2. p.key \in Nat /\ p.n \in Nat
    BY <1>k DEF Callback, Packet
  <2>3. /\ state' \in {state, "ERROR"} /\ signal' \in {signal, TRUE}
        /\ tkey' \in {tkey, p.key}
        /\ woken' \subseteq Callers
        /\ delivered' \in {delivered, Append(delivered, p.n)}
    BY <1>23 DEF CbHandle, CallbackMultiplexer, ExchNotify, AuthNotify,
                 EstablishedNotify, SetSignal, TypeOK, CallerType
  <2>4. ClientType' /\ CallerType'
    BY <1>23, <2>2, <2>3
       DEF CbHandle, TypeOK, ClientType, CallerType, ConnectionState
  <2>5. delivered' \in Seq(Nat)
    <3>1. delivered \in Seq(Nat)
      BY DEF TypeOK, HistoryType
    <3>2. Append(delivered, p.n) \in Seq(Nat)
      BY <2>2, <3>1, AppendProperties
    <3> QED BY <2>3, <3>1, <3>2
  <2>6. HistoryType'
    BY <1>23, <2>5 DEF CbHandle, TypeOK, HistoryType
  <2>7. LockType' /\ TaskType'
    <3>1. CASE queues[n].unfinished = 0
      <4> DEFINE c == [cbs[k] EXCEPT !.pc = "dead"]
      <4>1. c \in Callback /\ c.q <= Len(queues) /\ cbs' = [cbs EXCEPT ![k] = c]
        BY <1>23, <1>k, <3>1 DEF CbHandle
      <4> HIDE DEF c
      <4>2. queues' = queues /\ cbTask' = cbTask /\ lockQ' = lockQ
        BY <1>23, <3>1 DEF CbHandle
      <4> QED BY <1>u, <4>1, <4>2, CbsType DEF TypeOK, TaskType
    <3>2. CASE queues[n].unfinished # 0
      <4> DEFINE l == IF HandlerRaises(p) THEN "dead" ELSE "get"
                 c == [cbs[k] EXCEPT !.q = n, !.pc = l]
      <4>1. q \in Queue
        BY <2>1, <3>2 DEF Queue
      <4>2. l \in {"get", "dead"}
        OBVIOUS
      <4>3. queues' = [queues EXCEPT ![n] = q] /\ cbs' = [cbs EXCEPT ![k] = c]
        BY <1>23, <3>2 DEF CbHandle
      <4>4. lockQ' = Tail(lockQ) /\ cbTask' = cbTask
        BY <1>23, <3>2 DEF CbHandle
      <4> HIDE DEF l, q
      <4>5. c \in Callback /\ c.q <= Len(queues)
        <5>1. cbs[k] \in Callback /\ n \in Nat \ {0} /\ n <= Len(queues)
          BY <1>k, <2>1, LenProperties DEF TypeOK, TaskType
        <5>2. c \in Callback /\ c.q = n
          BY <4>2, <5>1, CallbackLoops
        <5> QED BY <5>1, <5>2
      <4> HIDE DEF c
      <4>6. queues' \in Seq(Queue) /\ Len(queues') = Len(queues)
        BY <2>1, <4>1, <4>3, ExceptSeq DEF TypeOK, TaskType
      <4>7. TaskType'
        BY <4>3, <4>4, <4>5, <4>6, CbsType DEF TypeOK, TaskType
      <4>8. LockType'
        BY <1>23, <4>4, TailQueue DEF CbHandle, Holds, TypeOK, LockType
      <4> QED BY <4>7, <4>8
    <3> QED BY <3>1, <3>2
  <2> QED BY <1>23, <1>u, <2>4, <2>6, <2>7 DEF CbHandle, TypeOK
<1>n. ASSUME NEW p \in Packet, Notify(p), UNCHANGED <<cbs, cbTask>>
      PROVE  TaskType'
  <2> DEFINE n == Len(queues)
             q == [items |-> Append(queues[n].items, p),
                   unfinished |-> queues[n].unfinished + 1]
  <2>1. queues' = [queues EXCEPT ![n] = q] /\ n \in Nat
    BY <1>n, LenProperties DEF Notify, TypeOK, TaskType
  <2>2. CASE n = 0
    <3>1. queues = <<>>
      BY <2>2, EmptySeq DEF TypeOK, TaskType
    <3>2. queues' = queues
      BY <2>1, <2>2, <3>1
    <3> QED BY <1>n, <3>2 DEF TypeOK, TaskType
  <2>3. CASE n # 0
    <3>1. n \in 1..Len(queues) /\ queues[n] \in Queue
      BY <2>1, <2>3, ElementOfSeq DEF TypeOK, TaskType
    <3>2. Append(queues[n].items, p) \in Seq(Packet)
      BY <3>1, AppendProperties DEF Queue
    <3>3. q \in Queue
      BY <3>1, <3>2 DEF Queue
    <3> HIDE DEF q
    <3>4. queues' \in Seq(Queue) /\ Len(queues') = Len(queues)
      BY <2>1, <3>1, <3>3, ExceptSeq DEF TypeOK, TaskType
    <3> QED BY <1>n, <3>4 DEF TypeOK, TaskType
  <2> QED BY <2>1, <2>2, <2>3
<1>24. ASSUME DeviceReply PROVE TypeOK'
  <2>1. dev \in {"subscribed", "keyed", "proved"}
    BY <1>24 DEF DeviceReply, Reply
  <2>2. PICK kind \in {Reply[dev], "bad", "garbled"} :
          Notify([kind |-> kind, n |-> 0,
                  key |-> IF kind = "hello" THEN air
                          ELSE IF kind = "auth" THEN devKey ELSE 0])
    BY <1>24 DEF DeviceReply
  <2>3. Reply[dev] \in {"hello", "ack", "auth"}
    BY <2>1 DEF Reply
  <2>4. [kind |-> kind, n |-> 0,
         key |-> IF kind = "hello" THEN air
                 ELSE IF kind = "auth" THEN devKey ELSE 0] \in Packet
    BY <2>3 DEF Packet, TypeOK, LinkType
  <2>5. TaskType'
    BY <1>24, <1>n, <2>2, <2>4 DEF DeviceReply
  <2>6. Replied[dev] \in {"greeted", "acked", "up"}
    BY <2>1 DEF Replied
  <2>7. LinkType'
    BY <1>24, <2>6 DEF DeviceReply, TypeOK, LinkType
  <2> QED BY <1>24, <1>u, <2>5, <2>7 DEF DeviceReply, TypeOK, CallerType
<1>25. ASSUME DeviceState PROVE TypeOK'
  <2>1. PICK kind \in {"state", "poison"} :
          Notify([kind |-> kind, key |-> devKey, n |-> sent + 1])
    BY <1>25 DEF DeviceState
  <2>2. [kind |-> kind, key |-> devKey, n |-> sent + 1] \in Packet
    BY DEF Packet, TypeOK, LinkType, BoundType
  <2>3. TaskType'
    BY <1>25, <1>n, <2>1, <2>2 DEF DeviceState
  <2>4. BoundType'
    BY <1>25 DEF DeviceState, TypeOK, BoundType
  <2> QED BY <1>25, <1>u, <2>3, <2>4 DEF DeviceState, TypeOK, CallerType
<1>26. ASSUME LinkDrop PROVE TypeOK'
  <2>1. LinkType' /\ HistoryType' /\ BoundType'
    BY <1>26 DEF LinkDrop, TypeOK, LinkType, HistoryType, BoundType
  <2> QED BY <1>26, <1>u, <2>1 DEF LinkDrop, TypeOK, CallerType
<1> QED
  BY <1>1, <1>2, <1>3, <1>4, <1>5, <1>6, <1>6a, <1>7, <1>8, <1>9, <1>10, <1>11,
     <1>12,
     <1>13, <1>14, <1>15, <1>16, <1>17, <1>18, <1>19, <1>20, <1>21, <1>22, <1>23,
     <1>24, <1>25, <1>26
     DEF Next, CallerStep, Handshake, CallbackStep

-----------------------------------------------------------------------------
(* The lock.  Each lemma is about one way in which a step changes the      *)
(* queue q of the lock together with the control points f of the callers.  *)

LEMMA LabelsApart ==
  /\ LockWait \cap Writing = {}
  /\ (Idle \cup SignalWait \cup {"connecting", "stopping", "closing"})
        \cap Claims = {}
  /\ Idle \cap SignalWait = {}
  /\ {"connecting", "stopping", "closing"} \cap SignalWait = {}
BY DEF Claims, LockWait, Writing, Idle, SignalWait

\* acquire() by a caller that is not in the queue.
LEMMA CallerJoins ==
  ASSUME NEW q \in Seq(Callers \cup Nat), NEW f \in [Callers -> Labels],
         QueueOK(q, f), NEW t \in Callers, f[t] \notin Claims, NEW l \in LockWait
  PROVE  QueueOK(Append(q, t), [f EXCEPT ![t] = l])
<1> DEFINE r == Append(q, t)
           g == [f EXCEPT ![t] = l]
<1>1. ~InQ(q, t)
  BY DEF QueueOK
<1>2. /\ Distinct(r) /\ r # <<>> /\ (q # <<>> => Head(r) = Head(q))
      /\ \A y : InQ(r, y) <=> InQ(q, y) \/ y = t
  BY <1>1, AppendQueue DEF QueueOK
<1>3. \A u \in Callers : g[u] = IF u = t THEN l ELSE f[u]
  OBVIOUS
<1>4. l \in Claims /\ l \notin Writing
  BY LabelsApart DEF Claims
<1> HIDE DEF r, g
<1>5. QueueOK(r, g)
  BY <1>2, <1>3, <1>4 DEF QueueOK
<1> QED BY <1>5 DEF r, g

\* acquire() by a callback task that is not in the queue.
LEMMA TaskJoins ==
  ASSUME NEW q \in Seq(Callers \cup Nat), NEW f, QueueOK(q, f),
         NEW k \in Nat, ~InQ(q, k)
  PROVE  QueueOK(Append(q, k), f)
<1> DEFINE r == Append(q, k)
<1>1. /\ Distinct(r) /\ r # <<>> /\ (q # <<>> => Head(r) = Head(q))
      /\ \A y : InQ(r, y) <=> InQ(q, y) \/ y = k
  BY AppendQueue DEF QueueOK
<1>2. \A u \in Callers : u # k
  BY CallersAssumption
<1> HIDE DEF r
<1>3. QueueOK(r, f)
  BY <1>1, <1>2 DEF QueueOK
<1> QED BY <1>3 DEF r

\* release() by a caller, which goes on to something else.
LEMMA CallerLeaves ==
  ASSUME NEW q \in Seq(Callers \cup Nat), NEW f \in [Callers -> Labels],
         QueueOK(q, f), NEW t \in Callers, q # <<>>, Head(q) = t,
         NEW l, l \notin Claims
  PROVE  QueueOK(Tail(q), [f EXCEPT ![t] = l])
<1> DEFINE r == Tail(q)
           g == [f EXCEPT ![t] = l]
<1>1. /\ Distinct(r) /\ ~InQ(r, t)
      /\ \A y : y # t => (InQ(r, y) <=> InQ(q, y))
  BY TailQueue DEF QueueOK
<1>2. \A u \in Callers : g[u] = IF u = t THEN l ELSE f[u]
  OBVIOUS
<1>3. \A u \in Callers : u # t => f[u] \notin Writing
  BY DEF QueueOK
<1> HIDE DEF r, g
<1>4. QueueOK(r, g)
  BY <1>1, <1>2, <1>3 DEF QueueOK, Claims
<1> QED BY <1>4 DEF r, g

\* release() by a callback task.
LEMMA TaskLeaves ==
  ASSUME NEW q \in Seq(Callers \cup Nat), NEW f, QueueOK(q, f),
         NEW k \in Nat, q # <<>>, Head(q) = k
  PROVE  QueueOK(Tail(q), f)
<1> DEFINE r == Tail(q)
<1>1. /\ Distinct(r)
      /\ \A y : y # k => (InQ(r, y) <=> InQ(q, y))
  BY TailQueue DEF QueueOK
<1>2. \A u \in Callers : u # k
  BY CallersAssumption
<1>3. \A u \in Callers : f[u] \notin Writing
  BY <1>2 DEF QueueOK
<1> HIDE DEF r
<1>4. QueueOK(r, f)
  BY <1>1, <1>2, <1>3 DEF QueueOK
<1> QED BY <1>4 DEF r

\* A caller is cancelled, in the queue or not.
LEMMA CallerCancelled ==
  ASSUME NEW q \in Seq(Callers \cup Nat), NEW f \in [Callers -> Labels],
         QueueOK(q, f), NEW t \in Callers, NEW l, l \notin Claims
  PROVE  QueueOK(Without(q, t), [f EXCEPT ![t] = l])
<1> DEFINE r == Without(q, t)
           g == [f EXCEPT ![t] = l]
<1>1. /\ Distinct(r) /\ ~InQ(r, t)
      /\ \A y : y # t => (InQ(r, y) <=> InQ(q, y))
      /\ q # <<>> /\ Head(q) # t => r # <<>> /\ Head(r) = Head(q)
  BY WithoutQueue DEF QueueOK
<1>2. \A u \in Callers : g[u] = IF u = t THEN l ELSE f[u]
  OBVIOUS
<1> HIDE DEF r, g
<1>3. QueueOK(r, g)
  BY <1>1, <1>2 DEF QueueOK, Claims
<1> QED BY <1>3 DEF r, g

\* A callback task is cancelled, in the queue or not.
LEMMA TaskCancelled ==
  ASSUME NEW q \in Seq(Callers \cup Nat), NEW f, QueueOK(q, f), NEW k \in Nat
  PROVE  QueueOK(Without(q, k), f)
<1> DEFINE r == Without(q, k)
<1>1. /\ Distinct(r)
      /\ \A y : y # k => (InQ(r, y) <=> InQ(q, y))
      /\ q # <<>> /\ Head(q) # k => r # <<>> /\ Head(r) = Head(q)
  BY WithoutQueue DEF QueueOK
<1>2. \A u \in Callers : u # k
  BY CallersAssumption
<1> HIDE DEF r
<1>3. QueueOK(r, f)
  BY <1>1, <1>2 DEF QueueOK
<1> QED BY <1>3 DEF r

\* A caller that stays out of the queue.
LEMMA CallerOutside ==
  ASSUME NEW q, NEW f \in [Callers -> Labels], QueueOK(q, f), NEW t \in Callers,
         f[t] \notin Claims, NEW l, l \notin Claims
  PROVE  QueueOK(q, [f EXCEPT ![t] = l])
<1> DEFINE g == [f EXCEPT ![t] = l]
<1>1. \A u \in Callers : g[u] = IF u = t THEN l ELSE f[u]
  OBVIOUS
<1> HIDE DEF g
<1>2. QueueOK(q, g)
  BY <1>1 DEF QueueOK, Claims
<1> QED BY <1>2 DEF g

\* The holder of the lock starts a radio operation.
LEMMA CallerWrites ==
  ASSUME NEW q \in Seq(Callers \cup Nat), NEW f \in [Callers -> Labels],
         QueueOK(q, f), NEW t \in Callers, q # <<>>, Head(q) = t,
         NEW l \in Writing
  PROVE  QueueOK(q, [f EXCEPT ![t] = l])
<1> DEFINE g == [f EXCEPT ![t] = l]
<1>1. \A u \in Callers : g[u] = IF u = t THEN l ELSE f[u]
  OBVIOUS
<1>2. InQ(q, t) /\ l \in Claims
  BY TailQueue DEF Claims
<1> HIDE DEF g
<1>3. QueueOK(q, g)
  BY <1>1, <1>2 DEF QueueOK
<1> QED BY <1>3 DEF g

\* The callback tasks from c to d, in the queues q and r: one that is in r was in
\* q and keeps its claim, or is new there and has one.
LEMMA TasksKept ==
  ASSUME NEW q, NEW r, NEW c, NEW d, TasksOK(q, c),
         \A y : InQ(r, y) => \/ InQ(q, y) \/ y \in Callers
                             \/ y \in 1..Len(d) /\ d[y].pc \in {"lock", "dead"},
         \A k \in 1..Len(c) : c[k].pc \in {"lock", "dead"} /\ InQ(r, k) =>
           k \in 1..Len(d) /\ d[k].pc \in {"lock", "dead"}
  PROVE  TasksOK(r, d)
<1> SUFFICES ASSUME NEW i \in 1..Len(r), r[i] \notin Callers
             PROVE  r[i] \in 1..Len(d) /\ d[r[i]].pc \in {"lock", "dead"}
  BY DEF TasksOK
<1>1. InQ(r, r[i])
  BY DEF InQ
<1>2. CASE InQ(q, r[i])
  <2>1. PICK j \in 1..Len(q) : q[j] = r[i]
    BY <1>2 DEF InQ
  <2>2. r[i] \in 1..Len(c) /\ c[r[i]].pc \in {"lock", "dead"}
    BY <2>1 DEF TasksOK
  <2> QED BY <1>1, <2>2
<1> QED BY <1>1, <1>2

-----------------------------------------------------------------------------
(* The steps, by what they do to the lock.                                 *)

\* No callback task gives up its claim on the lock.
CbsKept ==
  \A k \in 1..Len(cbs) : cbs[k].pc \in {"lock", "dead"} =>
    k \in 1..Len(cbs') /\ cbs'[k].pc \in {"lock", "dead"}

LEMMA CallerLock ==
  ASSUME TypeOK, LockInv, NEW t \in Callers, NEW l, Goto(t, l),
         woken' \subseteq woken \ {t}, CbsKept,
         QueueOK(lockQ', [pc EXCEPT ![t] = l]),
         \A y : InQ(lockQ', y) => InQ(lockQ, y) \/ y \in Callers
  PROVE  LockInv'
<1>1. QueueOK(lockQ', pc')
  BY DEF Goto
<1>2. TasksOK(lockQ', cbs')
  BY TasksKept DEF LockInv, CbsKept
<1>3. WokenWait'
  <2>1. \A u \in woken' : u \in Callers /\ pc'[u] = pc[u] /\ pc[u] \in SignalWait
    BY DEF Goto, LockInv, WokenWait, TypeOK, CallerType
  <2> QED BY <2>1 DEF WokenWait
<1> QED BY <1>1, <1>2, <1>3 DEF LockInv

\* The holder of the lock claims it and is not waiting for the signal.
LEMMA HolderClaims ==
  ASSUME TypeOK, LockInv, NEW t \in Callers, Holds(t)
  PROVE  t \notin woken /\ lockQ \in Seq(Callers \cup Nat) /\ lockQ # <<>>
         /\ Head(lockQ) = t
<1>1. lockQ \in Seq(Callers \cup Nat) /\ lockQ # <<>> /\ Head(lockQ) = t
  BY DEF TypeOK, LockType, Holds
<1>2. InQ(lockQ, t)
  BY <1>1, TailQueue
<1>3. pc[t] \in Claims
  BY <1>2 DEF LockInv, QueueOK
<1> QED BY <1>1, <1>3, LabelsApart DEF LockInv, WokenWait

LEMMA StepJoins ==
  ASSUME TypeOK, LockInv, NEW t \in Callers, pc[t] \notin Claims,
         NEW l \in LockWait, Acquire(t), Goto(t, l), woken' \subseteq woken \ {t},
         CbsKept
  PROVE  LockInv'
<1>1. QueueOK(lockQ', [pc EXCEPT ![t] = l])
  BY CallerJoins DEF TypeOK, LockType, CallerType, LockInv, Acquire
<1>2. \A y : InQ(lockQ', y) => InQ(lockQ, y) \/ y \in Callers
  BY AppendQueue DEF TypeOK, LockType, Acquire
<1> QED BY <1>1, <1>2, CallerLock

LEMMA StepLeaves ==
  ASSUME TypeOK, LockInv, NEW t \in Callers, Holds(t), NEW l, l \notin Claims,
         lockQ' = Tail(lockQ), Goto(t, l), UNCHANGED woken, CbsKept
  PROVE  LockInv'
<1>1. QueueOK(lockQ', [pc EXCEPT ![t] = l])
  BY HolderClaims, CallerLeaves DEF TypeOK, CallerType, LockInv
<1>2. \A y : InQ(lockQ', y) => InQ(lockQ, y)
  BY HolderClaims, TailQueue
<1>3. woken' \subseteq woken \ {t}
  BY HolderClaims
<1> QED BY <1>1, <1>2, <1>3, CallerLock

LEMMA StepRequeues ==
  ASSUME TypeOK, LockInv, NEW t \in Callers, Holds(t), NEW l \in LockWait,
         lockQ' = Append(Tail(lockQ), t), Goto(t, l), UNCHANGED woken, CbsKept
  PROVE  LockInv'
<1> DEFINE f == [pc EXCEPT ![t] = "idle"]
<1>1. "idle" \notin Claims /\ "idle" \in Labels
  BY LabelsApart DEF Labels, Idle
<1>2. Tail(lockQ) \in Seq(Callers \cup Nat) /\ QueueOK(Tail(lockQ), f)
  BY <1>1, HolderClaims, TailQueue, CallerLeaves DEF TypeOK, CallerType, LockInv
<1>3. f \in [Callers -> Labels] /\ f[t] = "idle"
  BY <1>1 DEF TypeOK, CallerType
<1>4. [f EXCEPT ![t] = l] = [pc EXCEPT ![t] = l]
  BY DEF TypeOK, CallerType
<1> HIDE DEF f
<1>5. QueueOK(lockQ', [pc EXCEPT ![t] = l])
  BY <1>1, <1>2, <1>3, <1>4, CallerJoins
<1>6. \A y : InQ(lockQ', y) => InQ(lockQ, y) \/ y \in Callers
  <2>1. \A y : InQ(Tail(lockQ), y) => InQ(lockQ, y)
    BY HolderClaims, TailQueue
  <2>2. \A s \in Seq(Callers \cup Nat) : \A x \in Callers \cup Nat :
          \A y : InQ(Append(s, x), y) <=> InQ(s, y) \/ y = x
    BY AppendQueue
  <2>3. \A y : InQ(Append(Tail(lockQ), t), y) <=> InQ(Tail(lockQ), y) \/ y = t
    BY <1>2, <2>2
  <2> QED BY <2>1, <2>3
<1>7. woken' \subseteq woken \ {t}
  BY HolderClaims
<1> QED BY <1>5, <1>6, <1>7, CallerLock

LEMMA StepWrites ==
  ASSUME TypeOK, LockInv, NEW t \in Callers, Holds(t), NEW l \in Writing,
         Goto(t, l), UNCHANGED <<lockQ, woken>>, CbsKept
  PROVE  LockInv'
<1>1. QueueOK(lockQ', [pc EXCEPT ![t] = l])
  BY HolderClaims, CallerWrites DEF TypeOK, CallerType, LockInv
<1>2. woken' \subseteq woken \ {t}
  BY HolderClaims
<1> QED BY <1>1, <1>2, CallerLock

LEMMA StepOutside ==
  ASSUME TypeOK, LockInv, NEW t \in Callers, pc[t] \notin Claims \cup SignalWait,
         NEW l, l \notin Claims, Goto(t, l), UNCHANGED <<lockQ, woken>>, CbsKept
  PROVE  LockInv'
<1>1. QueueOK(lockQ', [pc EXCEPT ![t] = l])
  BY CallerOutside DEF TypeOK, CallerType, LockInv
<1>2. woken' \subseteq woken \ {t}
  BY DEF LockInv, WokenWait
<1> QED BY <1>1, <1>2, CallerLock

LEMMA StepRaises ==
  ASSUME TypeOK, LockInv, NEW t \in Callers, Holds(t), Raise(t),
         UNCHANGED woken, CbsKept
  PROVE  LockInv'
<1>1. "raised" \notin Claims
  BY LabelsApart DEF Idle
<1> QED BY <1>1, StepLeaves DEF Raise

LEMMA StepWaits ==
  ASSUME TypeOK, LockInv, NEW t \in Callers, Holds(t), NEW w \in SignalWait,
         ReleaseAndWait(t, w), UNCHANGED woken, CbsKept
  PROVE  LockInv'
<1>1. w \notin Claims /\ AfterSignal[w] \in LockWait
  BY LabelsApart, LabelsType
<1>2. CASE signal
  BY <1>1, <1>2, StepRequeues DEF ReleaseAndWait
<1>3. CASE ~signal
  BY <1>1, <1>3, StepLeaves DEF ReleaseAndWait
<1> QED BY <1>2, <1>3

\* A new callback task is none of those there were.
LEMMA OpenClientKeeps ==
  ASSUME TypeOK, NEW t \in Callers, OpenClient(t)
  PROVE  CbsKept
<1> DEFINE c == [pc |-> "get", q |-> Len(queues) + 1, item |-> NoPacket,
                 after |-> {}]
<1>1. c \in Callback
  BY LenProperties DEF TypeOK, TaskType, Callback, Packet, NoPacket
<1>2. cbs' = Append(cbs, c)
  BY DEF OpenClient
<1> HIDE DEF c
<1>3. /\ Len(cbs') = Len(cbs) + 1
      /\ \A k \in 1..Len(cbs) : cbs'[k] = cbs[k]
  BY <1>1, <1>2, AppendProperties DEF TypeOK, TaskType
<1>4. Len(cbs) \in Nat
  BY LenProperties DEF TypeOK, TaskType
<1> QED BY <1>3, <1>4 DEF CbsKept

\* disconnect() cancels the callback task, which leaves the queue q.
LEMMA StartDisconnectKeeps ==
  ASSUME TypeOK, NEW t \in Callers, NEW q, StartDisconnect(t, q)
  PROVE  CbsKept /\ cbTask \in Nat /\ lockQ' \in {q, Without(q, cbTask)}
<1>1. lockQ' \in {q, Without(q, cbTask)}
  BY DEF StartDisconnect
<1>2. Len(cbs) \in Nat /\ cbTask \in Nat
  BY LenProperties DEF TypeOK, TaskType
<1>3. \A k \in 1..Len(cbs) : cbs[k] \in Callback
  BY ElementOfSeq DEF TypeOK, TaskType
<1>4. /\ Len(cbs') = Len(cbs)
      /\ \A k \in 1..Len(cbs) : cbs'[k].pc \in {cbs[k].pc, "dead"}
  <2>1. CASE cbs' = cbs
    BY <2>1
  <2>2. CASE cbTask # 0 /\ cbs' = [cbs EXCEPT ![cbTask].pc = "dead"]
    <3> DEFINE c == [cbs[cbTask] EXCEPT !.pc = "dead"]
    <3>1. cbTask \in 1..Len(cbs)
      BY <2>2, <1>2 DEF TypeOK, TaskType
    <3>2. c \in Callback /\ c.pc = "dead"
      BY <1>3, <3>1 DEF Callback
    <3>3. cbs' = [cbs EXCEPT ![cbTask] = c]
      BY <2>2
    <3> HIDE DEF c
    <3>4. /\ Len(cbs') = Len(cbs)
          /\ \A k \in 1..Len(cbs) : cbs'[k] = IF k = cbTask THEN c ELSE cbs[k]
      BY <3>1, <3>2, <3>3, ExceptSeq DEF TypeOK, TaskType
    <3> QED BY <3>2, <3>4
  <2> QED BY <2>1, <2>2 DEF StartDisconnect
<1>5. CbsKept
  BY <1>4 DEF CbsKept
<1> QED BY <1>1, <1>2, <1>5

LEMMA StepStops ==
  ASSUME TypeOK, LockInv, NEW t \in Callers, NEW q, StartDisconnect(t, q),
         \/ Holds(t) /\ q = Tail(lockQ)
         \/ pc[t] \notin Claims \cup SignalWait /\ q = lockQ,
         UNCHANGED woken
  PROVE  LockInv'
<1> DEFINE f == [pc EXCEPT ![t] = "stopping"]
<1>1. "stopping" \notin Claims
  BY LabelsApart
<1>2. /\ q \in Seq(Callers \cup Nat) /\ QueueOK(q, f) /\ t \notin woken
      /\ \A y : InQ(q, y) => InQ(lockQ, y)
  <2>1. CASE Holds(t) /\ q = Tail(lockQ)
    BY <1>1, <2>1, HolderClaims, TailQueue, CallerLeaves
       DEF TypeOK, CallerType, LockInv
  <2>2. CASE pc[t] \notin Claims \cup SignalWait /\ q = lockQ
    BY <1>1, <2>2, CallerOutside
       DEF TypeOK, CallerType, LockType, LockInv, WokenWait
  <2> QED BY <2>1, <2>2
<1>3. Goto(t, "stopping")
  BY DEF StartDisconnect
<1> HIDE DEF f
<1>4. QueueOK(lockQ', f) /\ \A y : InQ(lockQ', y) => InQ(lockQ, y)
  <2>1. CASE lockQ' = q
    BY <1>2, <2>1
  <2>2. CASE lockQ' = Without(q, cbTask)
    <3>1. cbTask \in Nat
      BY StartDisconnectKeeps
    <3>2. QueueOK(Without(q, cbTask), f)
      BY <1>2, <3>1, TaskCancelled
    <3>3. \A y : InQ(Without(q, cbTask), y) => InQ(q, y)
      BY <1>2, WithoutQueue
    <3> QED BY <1>2, <2>2, <3>2, <3>3
  <2> QED BY <2>1, <2>2, StartDisconnectKeeps
<1>5. QueueOK(lockQ', [pc EXCEPT ![t] = "stopping"])
  BY <1>4 DEF f
<1> QED BY <1>2, <1>3, <1>4, <1>5, StartDisconnectKeeps, CallerLock

LEMMA LockInit == Init => LockInv
<1> SUFFICES ASSUME Init PROVE LockInv
  OBVIOUS
<1>1. lockQ = <<>> /\ woken = {} /\ \A t \in Callers : pc[t] = "idle"
  BY DEF Init
<1>2. Len(lockQ) = 0
  BY <1>1, EmptySeq
<1>3. "idle" \notin Claims
  BY LabelsApart DEF Idle
<1>4. "idle" \notin Writing
  BY <1>3 DEF Claims
<1> QED BY <1>1, <1>2, <1>3, <1>4
        DEF LockInv, QueueOK, TasksOK, WokenWait, Distinct, InQ

LEMMA LockNext ==
  ASSUME TypeOK, LockInv, [Next]_vars
  PROVE  LockInv'
<1> USE DEF clientVars, taskVars, callerVars, linkVars, historyVars, boundVars
<1>k. UNCHANGED cbs => CbsKept
  BY DEF CbsKept
<1>l. /\ {"idle", "returned", "raised"} \cap (Claims \cup SignalWait) = {}
      /\ {"connecting", "stopping", "closing"} \cap (Claims \cup SignalWait) = {}
  BY LabelsApart DEF Idle
<1>s. UNCHANGED <<lockQ, cbs, pc, woken>> => LockInv'
  BY DEF LockInv, QueueOK, TasksOK, WokenWait
<1>b. \* A call begins when its task is in none.
      ASSUME NEW t \in Callers, NEW a, MayBegin(t, a)
      PROVE  pc[t] \notin Claims \cup SignalWait
  BY <1>b, <1>l DEF MayBegin, Idle
<1>h. ASSUME NEW t \in Callers, pc[t] \in Writing PROVE Holds(t)
  BY <1>h DEF LockInv, QueueOK, Holds
<1>1. CASE UNCHANGED vars
  BY <1>1, <1>s DEF vars
<1>2. ASSUME NEW t \in Callers, BeginConnect(t) PROVE LockInv'
  <2>1. /\ pc[t] \notin Claims \cup SignalWait /\ OpenClient(t)
        /\ Goto(t, "connecting") /\ UNCHANGED <<lockQ, woken>>
    BY <1>2, <1>b DEF BeginConnect, OpenClient
  <2> QED BY <1>l, <2>1, OpenClientKeeps, StepOutside
<1>3. ASSUME NEW t \in Callers, Connected(t) PROVE LockInv'
  <2>1. /\ pc[t] \notin Claims \cup SignalWait /\ "readLock" \in LockWait
        /\ Acquire(t) /\ Goto(t, "readLock") /\ UNCHANGED <<cbs, woken>>
    BY <1>3, <1>l DEF Connected, LockWait
  <2>2. woken' \subseteq woken \ {t}
    BY <2>1 DEF LockInv, WokenWait
  <2> QED BY <1>k, <2>1, <2>2, StepJoins
<1>4. ASSUME NEW t \in Callers, ConnectFails(t) PROVE LockInv'
  <2>1. /\ pc[t] \notin Claims \cup SignalWait
        /\ Goto(t, "raised") /\ UNCHANGED <<lockQ, cbs, woken>>
    BY <1>4, <1>l DEF ConnectFails
  <2> QED BY <1>k, <1>l, <2>1, StepOutside
<1>5. ASSUME NEW t \in Callers, Read(t) PROVE LockInv'
  <2>1. /\ Holds(t) /\ UNCHANGED <<cbs, woken>> /\ "reading" \in Writing
        /\ (Goto(t, "reading") /\ UNCHANGED lockQ) \/ Raise(t)
    BY <1>5 DEF Read, Writing
  <2> QED BY <1>k, <2>1, StepWrites, StepRaises
<1>6. ASSUME NEW t \in Callers, ReadEnds(t) PROVE LockInv'
  <2>1. /\ Holds(t) /\ UNCHANGED <<cbs, woken>> /\ "subscribing" \in Writing
        /\ (Goto(t, "subscribing") /\ UNCHANGED lockQ) \/ Raise(t)
    BY <1>6, <1>h DEF ReadEnds, Writing
  <2> QED BY <1>k, <2>1, StepWrites, StepRaises
<1>6a. ASSUME NEW t \in Callers, SubscribeEnds(t) PROVE LockInv'
  <2>1. /\ Holds(t) /\ UNCHANGED <<cbs, woken>> /\ "helloWait" \in SignalWait
        /\ ReleaseAndWait(t, "helloWait") \/ Raise(t)
    BY <1>6a, <1>h DEF SubscribeEnds, Writing, SignalWait
  <2> QED BY <1>k, <2>1, StepWaits, StepRaises
<1>7. ASSUME NEW t \in Callers, Resume(t) PROVE LockInv'
  <2>1. /\ pc[t] \in SignalWait /\ Acquire(t) /\ Goto(t, AfterSignal[pc[t]])
        /\ woken' = woken \ {t} /\ UNCHANGED cbs
    BY <1>7 DEF Resume, LockInv, WokenWait
  <2>2. pc[t] \notin Claims /\ AfterSignal[pc[t]] \in LockWait
    BY <2>1, LabelsApart, LabelsType
  <2> QED BY <1>k, <2>1, <2>2, StepJoins
<1>8. ASSUME NEW t \in Callers, Respond(t) PROVE LockInv'
  <2>1. Holds(t) /\ UNCHANGED woken /\ "responding" \in Writing
    BY <1>8 DEF Respond, Writing
  <2>2. \/ StartDisconnect(t, Tail(lockQ))
        \/ Raise(t) /\ UNCHANGED cbs
        \/ Goto(t, "responding") /\ UNCHANGED <<lockQ, cbs>>
    BY <1>8 DEF Respond
  <2> QED BY <1>k, <2>1, <2>2, StepStops, StepRaises, StepWrites
<1>9. ASSUME NEW t \in Callers, ResponseEnds(t) PROVE LockInv'
  <2>1. /\ Holds(t) /\ UNCHANGED <<cbs, woken>> /\ "ackWait" \in SignalWait
        /\ ReleaseAndWait(t, "ackWait") \/ Raise(t)
    BY <1>9, <1>h DEF ResponseEnds, Writing, SignalWait
  <2> QED BY <1>k, <2>1, StepWaits, StepRaises
<1>10. ASSUME NEW t \in Callers, Derive(t) PROVE LockInv'
  <2>1. Holds(t) /\ UNCHANGED woken /\ "authLock" \in LockWait
    BY <1>10 DEF Derive, LockWait
  <2>2. \/ StartDisconnect(t, Tail(lockQ))
        \/ Raise(t) /\ UNCHANGED cbs
        \/ /\ lockQ' = Append(Tail(lockQ), t) /\ Goto(t, "authLock")
           /\ UNCHANGED cbs
    BY <1>10 DEF Derive
  <2> QED BY <1>k, <2>1, <2>2, StepStops, StepRaises, StepRequeues
<1>11. ASSUME NEW t \in Callers, Authenticate(t) PROVE LockInv'
  <2>1. /\ Holds(t) /\ UNCHANGED <<cbs, woken>>
        /\ "authWriting" \in Writing /\ "authWait" \in SignalWait
    BY <1>11 DEF Authenticate, Writing, SignalWait
  <2>2. \/ Raise(t)
        \/ ReleaseAndWait(t, "authWait")
        \/ Goto(t, "authWriting") /\ UNCHANGED lockQ
    BY <1>11 DEF Authenticate
  <2> QED BY <1>k, <2>1, <2>2, StepRaises, StepWaits, StepWrites
<1>12. ASSUME NEW t \in Callers, AuthEnds(t) PROVE LockInv'
  <2>1. /\ Holds(t) /\ UNCHANGED <<cbs, woken>> /\ "authWait" \in SignalWait
        /\ ReleaseAndWait(t, "authWait") \/ Raise(t)
    BY <1>12, <1>h DEF AuthEnds, WriteFails, Writing, SignalWait
  <2> QED BY <1>k, <2>1, StepWaits, StepRaises
<1>13. ASSUME NEW t \in Callers, Accept(t) PROVE LockInv'
  <2>1. Holds(t) /\ UNCHANGED woken /\ "sendLock" \in LockWait
    BY <1>13 DEF Accept, LockWait
  <2>2. \/ StartDisconnect(t, Tail(lockQ))
        \/ /\ lockQ' = Append(Tail(lockQ), t) /\ Goto(t, "sendLock")
           /\ UNCHANGED cbs
        \/ lockQ' = Tail(lockQ) /\ Goto(t, "returned") /\ UNCHANGED cbs
    BY <1>13 DEF Accept
  <2> QED BY <1>k, <1>l, <2>1, <2>2, StepStops, StepRequeues, StepLeaves
<1>14. ASSUME NEW t \in Callers, BeginSend(t) PROVE LockInv'
  <2>1. /\ pc[t] \notin Claims \cup SignalWait /\ UNCHANGED woken
        /\ "sendLock" \in LockWait
    BY <1>14, <1>b DEF BeginSend, LockWait
  <2>2. woken' \subseteq woken \ {t}
    BY <2>1 DEF LockInv, WokenWait
  <2>3. \/ Acquire(t) /\ Goto(t, "sendLock") /\ UNCHANGED cbs
        \/ OpenClient(t) /\ Goto(t, "connecting") /\ UNCHANGED lockQ
        \/ Goto(t, "raised") /\ UNCHANGED <<lockQ, cbs>>
    BY <1>14 DEF BeginSend, OpenClient
  <2> QED BY <1>k, <1>l, <2>1, <2>2, <2>3, StepJoins, OpenClientKeeps, StepOutside
<1>15. ASSUME NEW t \in Callers, Send(t) PROVE LockInv'
  <2>1. Holds(t) /\ UNCHANGED woken /\ "sendWriting" \in Writing
    BY <1>15 DEF Send, Writing
  <2>2. \/ lockQ' = Tail(lockQ) /\ OpenClient(t) /\ Goto(t, "connecting")
        \/ Raise(t) /\ UNCHANGED cbs
        \/ lockQ' = Tail(lockQ) /\ Goto(t, "returned") /\ UNCHANGED cbs
        \/ Goto(t, "sendWriting") /\ UNCHANGED <<lockQ, cbs>>
    BY <1>15 DEF Send, OpenClient
  <2> QED BY <1>k, <1>l, <2>1, <2>2, OpenClientKeeps, StepLeaves, StepRaises,
             StepWrites
<1>16. ASSUME NEW t \in Callers, SendEnds(t) PROVE LockInv'
  <2>1. Holds(t) /\ UNCHANGED <<cbs, woken>>
    BY <1>16, <1>h DEF SendEnds, Writing
  <2>2. Raise(t) \/ (lockQ' = Tail(lockQ) /\ Goto(t, "returned"))
    BY <1>16 DEF SendEnds, WriteFails
  <2> QED BY <1>k, <1>l, <2>1, <2>2, StepRaises, StepLeaves
<1>17. ASSUME NEW t \in Callers, BeginDisconnect(t) PROVE LockInv'
  <2>1. /\ pc[t] \notin Claims \cup SignalWait /\ UNCHANGED woken
        /\ StartDisconnect(t, lockQ)
    BY <1>17, <1>b DEF BeginDisconnect
  <2> QED BY <2>1, StepStops
<1>18. ASSUME NEW t \in Callers, CloseLink(t) PROVE LockInv'
  <2>1. /\ pc[t] \notin Claims \cup SignalWait
        /\ Goto(t, "closing") /\ UNCHANGED <<lockQ, cbs, woken>>
    BY <1>18, <1>l DEF CloseLink
  <2> QED BY <1>k, <1>l, <2>1, StepOutside
<1>19. ASSUME NEW t \in Callers, Disconnected(t) PROVE LockInv'
  <2>1. /\ pc[t] \notin Claims \cup SignalWait
        /\ Goto(t, "returned") \/ Goto(t, "raised")
        /\ UNCHANGED <<lockQ, cbs, woken>>
    BY <1>19, <1>l DEF Disconnected
  <2> QED BY <1>k, <1>l, <2>1, StepOutside
<1>20. ASSUME NEW t \in Callers, Cancel(t) PROVE LockInv'
  <2>1. /\ lockQ' = Without(lockQ, t) /\ Goto(t, "raised")
        /\ woken' \subseteq woken \ {t} /\ UNCHANGED cbs
    BY <1>20 DEF Cancel
  <2>2. QueueOK(lockQ', [pc EXCEPT ![t] = "raised"])
    BY <1>l, <2>1, CallerCancelled DEF TypeOK, LockType, CallerType, LockInv
  <2>3. \A y : InQ(lockQ', y) => InQ(lockQ, y)
    BY <2>1, WithoutQueue DEF TypeOK, LockType
  <2> QED BY <1>k, <2>1, <2>2, <2>3, CallerLock
<1>c. \* Setting the record of a callback task.
      ASSUME NEW k \in 1..Len(cbs), NEW c \in Callback, cbs' = [cbs EXCEPT ![k] = c]
      PROVE  /\ Len(cbs') = Len(cbs) /\ k \in 1..Len(cbs')
             /\ \A j \in 1..Len(cbs) : cbs'[j] = IF j = k THEN c ELSE cbs[j]
  BY <1>c, ExceptSeq DEF TypeOK, TaskType
<1>t. ASSUME NEW k \in 1..Len(cbs)
      PROVE  cbs[k] \in Callback /\ k \in Nat
  BY ElementOfSeq, LenProperties DEF TypeOK, TaskType
<1>q. \* TasksKept for this step.
      ASSUME \A y : InQ(lockQ', y) => \/ InQ(lockQ, y)
                                     \/ /\ y \in 1..Len(cbs')
                                        /\ cbs'[y].pc \in {"lock", "dead"},
             \A j \in 1..Len(cbs) :
               cbs[j].pc \in {"lock", "dead"} /\ InQ(lockQ', j) =>
                 j \in 1..Len(cbs') /\ cbs'[j].pc \in {"lock", "dead"}
      PROVE  TasksOK(lockQ', cbs')
  BY <1>q, TasksKept DEF LockInv
<1>21. ASSUME NEW k \in 1..Len(cbs), CbGet(k) PROVE LockInv'
  <2> DEFINE c == [cbs[k] EXCEPT !.pc = "sleep", !.after = woken,
                                 !.item = Head(queues[cbs[k].q].items)]
  <2>1. /\ cbs[k].pc = "get" /\ cbs' = [cbs EXCEPT ![k] = c]
        /\ UNCHANGED <<lockQ, pc, woken>>
    BY <1>21 DEF CbGet
  <2> HIDE DEF c
  <2>2. \A j \in 1..Len(cbs) : cbs[j].pc \in {"lock", "dead"} =>
          j \in 1..Len(cbs') /\ cbs'[j] = cbs[j]
    BY <2>1 DEF TypeOK, TaskType
  <2>3. CbsKept /\ \A y : InQ(lockQ', y) => InQ(lockQ, y)
    BY <2>1, <2>2 DEF CbsKept
  <2>4. TasksOK(lockQ', cbs')
    BY <1>q, <2>3 DEF CbsKept
  <2> QED BY <2>1, <2>4 DEF LockInv, QueueOK, WokenWait
<1>22. ASSUME NEW k \in 1..Len(cbs), CbWake(k) PROVE LockInv'
  <2> DEFINE c == [cbs[k] EXCEPT !.pc = "lock"]
  <2>1. /\ cbs[k].pc = "sleep" /\ cbs' = [cbs EXCEPT ![k] = c]
        /\ lockQ' = Append(lockQ, k) /\ UNCHANGED <<pc, woken>>
    BY <1>22 DEF CbWake, Acquire
  <2>2. c \in Callback /\ c.pc = "lock"
    BY <1>t DEF Callback
  <2> HIDE DEF c
  <2>3. lockQ \in Seq(Callers \cup Nat) /\ k \in Nat /\ k \notin Callers
    BY <1>t, CallersAssumption DEF TypeOK, LockType
  <2>4. ~InQ(lockQ, k)
    BY <2>1, <2>3 DEF LockInv, TasksOK, InQ
  <2>5. QueueOK(lockQ', pc')
    BY <2>1, <2>3, <2>4, TaskJoins DEF LockInv
  <2>6. \A y : InQ(lockQ', y) => InQ(lockQ, y) \/ y = k
    BY <2>1, <2>3, AppendQueue
  <2>7. /\ k \in 1..Len(cbs') /\ cbs'[k] = c
        /\ \A j \in 1..Len(cbs) : j # k => j \in 1..Len(cbs') /\ cbs'[j] = cbs[j]
    BY <1>c, <2>1, <2>2
  <2>8. CbsKept
    BY <2>2, <2>7 DEF CbsKept
  <2>9. TasksOK(lockQ', cbs')
    BY <1>q, <2>2, <2>6, <2>7, <2>8 DEF CbsKept
  <2> QED BY <2>1, <2>5, <2>9 DEF LockInv, WokenWait
<1>23. ASSUME NEW k \in 1..Len(cbs), CbHandle(k) PROVE LockInv'
  <2>1. Holds(k) /\ cbs[k].pc = "lock" /\ UNCHANGED pc
    BY <1>23 DEF CbHandle
  <2>2. WokenWait'
    <3>1. \A u \in woken' : u \in woken \/ (u \in Callers /\ pc[u] \in SignalWait)
      BY <1>23 DEF CbHandle, CallbackMultiplexer, ExchNotify, AuthNotify,
                   EstablishedNotify, SetSignal
    <3> QED BY <2>1, <3>1 DEF LockInv, WokenWait
  <2>3. /\ lockQ \in Seq(Callers \cup Nat) /\ lockQ # <<>> /\ Head(lockQ) = k
        /\ k \in Nat
    BY <1>t, <2>1 DEF TypeOK, LockType, Holds
  <2>4. CASE queues[Len(queues)].unfinished = 0
    <3> DEFINE c == [cbs[k] EXCEPT !.pc = "dead"]
    <3>1. cbs' = [cbs EXCEPT ![k] = c] /\ lockQ' = lockQ
      BY <1>23, <2>4 DEF CbHandle
    <3>2. c \in Callback /\ c.pc = "dead"
      BY <1>t DEF Callback
    <3> HIDE DEF c
    <3>3. /\ cbs'[k] = c
          /\ \A j \in 1..Len(cbs) : j \in 1..Len(cbs') /\ (j # k => cbs'[j] = cbs[j])
      BY <1>c, <3>1, <3>2
    <3>4. CbsKept
      BY <3>2, <3>3 DEF CbsKept
    <3>5. TasksOK(lockQ', cbs')
      BY <1>q, <3>1, <3>4 DEF CbsKept
    <3>6. QueueOK(lockQ', pc')
      BY <2>1, <3>1 DEF LockInv
    <3> QED BY <2>2, <3>5, <3>6 DEF LockInv
  <2>5. CASE queues[Len(queues)].unfinished # 0
    <3> DEFINE l == IF HandlerRaises(cbs[k].item) THEN "dead" ELSE "get"
               c == [cbs[k] EXCEPT !.q = Len(queues), !.pc = l]
    <3>1. cbs' = [cbs EXCEPT ![k] = c] /\ lockQ' = Tail(lockQ)
      BY <1>23, <2>5 DEF CbHandle
    <3> HIDE DEF c, l
    <3>2. /\ ~InQ(Tail(lockQ), k)
          /\ \A y : InQ(Tail(lockQ), y) => InQ(lockQ, y)
      BY <2>3, TailQueue DEF LockInv, QueueOK
    <3>3. \A j \in 1..Len(cbs) : j # k => j \in 1..Len(cbs') /\ cbs'[j] = cbs[j]
      BY <3>1 DEF TypeOK, TaskType
    <3>4. TasksOK(lockQ', cbs')
      BY <1>q, <3>1, <3>2, <3>3
    <3>5. QueueOK(lockQ', pc')
      BY <2>1, <2>3, <3>1, TaskLeaves DEF LockInv
    <3> QED BY <2>2, <3>4, <3>5 DEF LockInv
  <2> QED BY <2>4, <2>5
<1>24. ASSUME DeviceReply \/ DeviceState \/ LinkDrop PROVE LockInv'
  BY <1>24, <1>s DEF DeviceReply, DeviceState, LinkDrop
<1> QED
  BY <1>1, <1>2, <1>3, <1>4, <1>5, <1>6, <1>6a, <1>7, <1>8, <1>9, <1>10, <1>11,
     <1>12,
     <1>13, <1>14, <1>15, <1>16, <1>17, <1>18, <1>19, <1>20, <1>21, <1>22, <1>23,
     <1>24
     DEF Next, CallerStep, Handshake, CallbackStep

-----------------------------------------------------------------------------
(* The theorems.                                                           *)

\* TypeOK alone is not inductive: a step that ends a critical section takes the
\* tail of the queue, which is a sequence because the caller holds the lock.
LEMMA Invariance == Spec => [](TypeOK /\ LockInv)
<1>1. Init => TypeOK /\ LockInv
  BY TypeInit, LockInit
<1>2. TypeOK /\ LockInv /\ [Next]_vars => (TypeOK /\ LockInv)'
  <2> SUFFICES ASSUME TypeOK, LockInv, [Next]_vars PROVE TypeOK' /\ LockInv'
    OBVIOUS
  <2>1. WritersHold /\ WokenWait
    BY DEF LockInv, QueueOK, WritersHold, Holds
  <2> QED BY <2>1, TypeNext, LockNext
<1> QED BY <1>1, <1>2, PTL DEF Spec

\* Whatever the callers, the faults and the bounds, every variable of the client
\* keeps its type and there is one callback task per queue.
THEOREM TypeCorrect == Spec => []TypeOK
BY Invariance, PTL

\* Whatever the callers, the faults, the cancellations and the calls that overlap,
\* two tasks are never inside critical sections of _activityLock at once, and a
\* caller that ended holds no claim on it.
THEOREM LockMutualExclusion == Spec => []MutualExclusion
<1>1. LockInv => MutualExclusion
  BY DEF LockInv, QueueOK, MutualExclusion, Holds, Claims
<1> QED BY <1>1, Invariance, PTL

-----------------------------------------------------------------------------
(* What is transmitted.                                                    *)

SendJobs == {"send", "retry"}

\* Operations are numbered as they are asked for; two callers never have the same.
OpsNumbered ==
  /\ \A t \in Callers : op[t] <= sends
  /\ \A t, u \in Callers : op[t] = op[u] /\ t # u => op[t] = 0

\* Only a send call waits to transmit or does.
SendersSend ==
  \A t \in Callers : pc[t] \in {"sendLock", "sendWriting"} => job[t] \in SendJobs

\* A send call that is not writing has an operation nobody has transmitted.
Pending(t) == job[t] \in SendJobs /\ pc[t] \notin Idle \cup {"sendWriting"}
NotAired ==
  \A t \in Callers : Pending(t) =>
    op[t] # 0 /\ \A i \in 1..Len(aired) : aired[i].op # op[t]

\* What is written is the last operation transmitted.
WritesLast ==
  \A t \in Callers : pc[t] = "sendWriting" =>
    aired # <<>> /\ aired[Len(aired)].op = op[t] /\ op[t] # 0

AiredNumbered == \A i \in 1..Len(aired) : aired[i].op \in 1..sends

\* Since the last connect() began no counter above the next one was used, and the
\* next one in no write that ended.
CountersBelow ==
  \A i \in 1..Len(aired) :
    /\ aired[i].attempt <= Len(queues)
    /\ aired[i].attempt = Len(queues) =>
         /\ aired[i].counter <= outCount
         /\ aired[i].op \in done => aired[i].counter # outCount

OpInv ==
  /\ OpsNumbered /\ SendersSend /\ NotAired /\ WritesLast /\ AiredNumbered
  /\ AtMostOnce

\* An operation whose write ended was transmitted.
DoneAired == \A n \in done : \E i \in 1..Len(aired) : aired[i].op = n

CounterInv == CountersBelow /\ NonceFresh /\ DoneAired

-----------------------------------------------------------------------------
(* What a step is to the operations.                                       *)

\* The control points that have nothing to do with transmitting.
Elsewhere == Labels \ {"sendLock", "sendWriting"}
GoesOn(t) == \E l \in Elsewhere : Goto(t, l)

Quiet == UNCHANGED <<pc, job, op, sends, aired>>

\* A call goes on, or ends, without transmitting; one that was writing ends.
Continues(t) ==
  /\ pc[t] \notin Idle
  /\ \/ GoesOn(t) /\ pc[t] # "sendWriting"
     \/ \E l \in Idle : Goto(t, l)
     \/ Goto(t, "sendLock") /\ job[t] \in SendJobs /\ pc[t] # "sendWriting"
  /\ \/ UNCHANGED job
     \/ job[t] = "send" /\ job' = [job EXCEPT ![t] = "retry"]
  /\ UNCHANGED <<op, sends, aired>>

\* A call begins that sends nothing.
Starts(t) ==
  /\ pc[t] \in Idle /\ GoesOn(t)
  /\ \E j \in Jobs \ SendJobs : job' = [job EXCEPT ![t] = j]
  /\ UNCHANGED <<op, sends, aired>>

Asks(t) ==
  /\ pc[t] \in Idle /\ (GoesOn(t) \/ Goto(t, "sendLock"))
  /\ \E j \in SendJobs : job' = [job EXCEPT ![t] = j]
  /\ sends' = sends + 1 /\ op' = [op EXCEPT ![t] = sends + 1]
  /\ UNCHANGED aired

Transmits(t) ==
  /\ pc[t] = "sendLock" /\ Holds(t) /\ Goto(t, "sendWriting")
  /\ aired' = Append(aired, [op |-> op[t], counter |-> outCount,
                             attempt |-> Len(queues)])
  /\ UNCHANGED <<job, op, sends>>

LEMMA GoingOn ==
  ASSUME NEW t \in Callers
  PROVE  /\ Raise(t) => GoesOn(t)
         /\ \A w \in SignalWait : ReleaseAndWait(t, w) => GoesOn(t)
         /\ \A q : StartDisconnect(t, q) => GoesOn(t)
         /\ OpenClient(t) => GoesOn(t)
         /\ \A l \in Labels : Goto(t, l) /\ l \notin {"sendLock", "sendWriting"}
              => GoesOn(t)
<1>1. \A l \in Labels : Goto(t, l) /\ l \notin {"sendLock", "sendWriting"}
        => GoesOn(t)
  BY DEF GoesOn, Elsewhere
<1>2. /\ {"raised", "stopping", "connecting"} \subseteq Labels
      /\ "raised" \notin {"sendLock", "sendWriting"}
      /\ "stopping" \notin {"sendLock", "sendWriting"}
      /\ "connecting" \notin {"sendLock", "sendWriting"}
  BY DEF Labels, Idle
<1>3. \A w \in SignalWait :
        /\ w \in Labels /\ w \notin {"sendLock", "sendWriting"}
        /\ AfterSignal[w] \in Labels
        /\ AfterSignal[w] \notin {"sendLock", "sendWriting"}
  BY DEF SignalWait, AfterSignal, Labels, LockWait
<1> QED BY <1>1, <1>2, <1>3 DEF Raise, ReleaseAndWait, StartDisconnect, OpenClient

LEMMA StepKinds ==
  ASSUME TypeOK, LockInv, [Next]_vars
  PROVE  \/ Quiet
         \/ \E t \in Callers : Continues(t) \/ Starts(t) \/ Asks(t) \/ Transmits(t)
<1> USE DEF clientVars, taskVars, callerVars, linkVars, historyVars, boundVars
<1>g. ASSUME NEW t \in Callers, GoesOn(t), pc[t] \notin Idle \cup {"sendWriting"},
             UNCHANGED <<job, op, sends, aired>>
      PROVE  Continues(t)
  BY <1>g DEF Continues
<1>l. /\ {"returned", "raised", "readLock", "reading", "subscribing", "responding",
          "authLock", "authWriting", "closing"} \subseteq Labels
      /\ SignalWait \cap (Idle \cup {"sendWriting"}) = {}
      /\ {"helloWait", "ackWait", "authWait"} = SignalWait
  BY DEF Labels, Idle, LockWait, Writing, SignalWait
<1>1. CASE UNCHANGED vars
  BY <1>1 DEF vars, Quiet
<1>2. ASSUME NEW t \in Callers, BeginConnect(t) PROVE Starts(t)
  <2>1. "connect" \in Jobs \ SendJobs
    BY DEF Jobs, SendJobs
  <2> QED BY <1>2, <2>1, GoingOn DEF BeginConnect, MayBegin, Starts
<1>3. ASSUME NEW t \in Callers, Connected(t) PROVE Continues(t)
  BY <1>3, <1>g, <1>l, GoingOn DEF Connected, Idle
<1>4. ASSUME NEW t \in Callers, ConnectFails(t) PROVE Continues(t)
  BY <1>4, <1>g, <1>l, GoingOn DEF ConnectFails, Idle
<1>5. ASSUME NEW t \in Callers, Read(t) PROVE Continues(t)
  <2>1. GoesOn(t)
    BY <1>5, <1>l, GoingOn DEF Read
  <2> QED BY <1>5, <1>g, <2>1 DEF Read, Idle
<1>6. ASSUME NEW t \in Callers, ReadEnds(t) PROVE Continues(t)
  <2>1. GoesOn(t)
    BY <1>6, <1>l, GoingOn DEF ReadEnds
  <2> QED BY <1>6, <1>g, <2>1 DEF ReadEnds, Idle
<1>6a. ASSUME NEW t \in Callers, SubscribeEnds(t) PROVE Continues(t)
  <2>1. GoesOn(t)
    BY <1>6a, <1>l, GoingOn DEF SubscribeEnds
  <2> QED BY <1>6a, <1>g, <2>1 DEF SubscribeEnds, Idle
<1>7. ASSUME NEW t \in Callers, Resume(t) PROVE Continues(t)
  <2>1. pc[t] \in SignalWait
    BY <1>7 DEF Resume, LockInv, WokenWait
  <2>2. GoesOn(t)
    <3>1. /\ AfterSignal[pc[t]] \in Labels
          /\ AfterSignal[pc[t]] \notin {"sendLock", "sendWriting"}
      BY <2>1 DEF SignalWait, AfterSignal, Labels, LockWait
    <3> QED BY <1>7, <3>1, GoingOn DEF Resume
  <2> QED BY <1>7, <1>g, <1>l, <2>1, <2>2 DEF Resume
<1>8. ASSUME NEW t \in Callers, Respond(t) PROVE Continues(t)
  <2>1. GoesOn(t)
    BY <1>8, <1>l, GoingOn DEF Respond
  <2> QED BY <1>8, <1>g, <2>1 DEF Respond, Idle
<1>9. ASSUME NEW t \in Callers, ResponseEnds(t) PROVE Continues(t)
  <2>1. GoesOn(t)
    BY <1>9, <1>l, GoingOn DEF ResponseEnds
  <2> QED BY <1>9, <1>g, <2>1 DEF ResponseEnds, Idle
<1>10. ASSUME NEW t \in Callers, Derive(t) PROVE Continues(t)
  <2>1. GoesOn(t)
    BY <1>10, <1>l, GoingOn DEF Derive
  <2> QED BY <1>10, <1>g, <2>1 DEF Derive, Idle
<1>11. ASSUME NEW t \in Callers, Authenticate(t) PROVE Continues(t)
  <2>1. GoesOn(t)
    BY <1>11, <1>l, GoingOn DEF Authenticate
  <2> QED BY <1>11, <1>g, <2>1 DEF Authenticate, Idle
<1>12. ASSUME NEW t \in Callers, AuthEnds(t) PROVE Continues(t)
  <2>1. GoesOn(t)
    BY <1>12, <1>l, GoingOn DEF AuthEnds, WriteFails
  <2> QED BY <1>12, <1>g, <2>1 DEF AuthEnds, Idle
<1>13. ASSUME NEW t \in Callers, Accept(t) PROVE Continues(t)
  <2>1. GoesOn(t) \/ (Goto(t, "sendLock") /\ job[t] \in SendJobs)
    BY <1>13, <1>l, GoingOn DEF Accept, SendJobs
  <2>2. pc[t] \notin Idle \cup {"sendWriting"} /\ UNCHANGED <<job, op, sends, aired>>
    BY <1>13 DEF Accept, Idle
  <2> QED BY <2>1, <2>2 DEF Continues
<1>14. ASSUME NEW t \in Callers, BeginSend(t) PROVE Asks(t)
  <2>1. GoesOn(t) \/ Goto(t, "sendLock")
    BY <1>14, <1>l, GoingOn DEF BeginSend
  <2>2. \E j \in SendJobs : job' = [job EXCEPT ![t] = j]
    BY <1>14 DEF BeginSend, SendJobs
  <2> QED BY <1>14, <2>1, <2>2 DEF BeginSend, MayBegin, Asks
<1>15. ASSUME NEW t \in Callers, Send(t) PROVE Continues(t) \/ Transmits(t)
  <2>1. CASE LinkUp /\ Goto(t, "sendWriting")
    BY <1>15, <2>1 DEF Send, Transmits, LinkUp, Raise, Goto, OpenClient
  <2>2. CASE ~(LinkUp /\ Goto(t, "sendWriting"))
    <3>1. /\ GoesOn(t) /\ UNCHANGED <<op, sends, aired>>
          /\ \/ UNCHANGED job
             \/ job[t] = "send" /\ job' = [job EXCEPT ![t] = "retry"]
      BY <1>15, <1>l, <2>2, GoingOn DEF Send
    <3>2. pc[t] \notin Idle \cup {"sendWriting"}
      BY <1>15 DEF Send, Idle
    <3> QED BY <3>1, <3>2 DEF Continues
  <2> QED BY <2>1, <2>2
<1>16. ASSUME NEW t \in Callers, SendEnds(t) PROVE Continues(t)
  <2>1. \E l \in Idle : Goto(t, l)
    BY <1>16 DEF SendEnds, WriteFails, Raise, Idle
  <2>2. pc[t] \notin Idle /\ UNCHANGED <<job, op, sends, aired>>
    BY <1>16 DEF SendEnds, Idle
  <2> QED BY <2>1, <2>2 DEF Continues
<1>17. ASSUME NEW t \in Callers, BeginDisconnect(t) PROVE Starts(t)
  <2>1. "disconnect" \in Jobs \ SendJobs
    BY DEF Jobs, SendJobs
  <2> QED BY <1>17, <2>1, GoingOn DEF BeginDisconnect, MayBegin, Starts
<1>18. ASSUME NEW t \in Callers, CloseLink(t) PROVE Continues(t)
  BY <1>18, <1>g, <1>l, GoingOn DEF CloseLink, Idle
<1>19. ASSUME NEW t \in Callers, Disconnected(t) PROVE Continues(t)
  <2>1. GoesOn(t)
    BY <1>19, <1>l, GoingOn DEF Disconnected
  <2> QED BY <1>19, <1>g, <2>1 DEF Disconnected, Idle
<1>20. ASSUME NEW t \in Callers, Cancel(t) PROVE Continues(t)
  <2>1. \E l \in Idle : Goto(t, l)
    BY <1>20 DEF Cancel, Idle
  <2> QED BY <1>20, <2>1 DEF Cancel, Continues
<1>21. ASSUME NEW k \in 1..Len(cbs), CallbackStep(k) PROVE Quiet
  BY <1>21 DEF CallbackStep, CbGet, CbWake, CbHandle, Quiet
<1>22. ASSUME DeviceReply \/ DeviceState \/ LinkDrop PROVE Quiet
  BY <1>22 DEF DeviceReply, DeviceState, LinkDrop, Quiet
<1> QED
  BY <1>1, <1>2, <1>3, <1>4, <1>5, <1>6, <1>6a, <1>7, <1>8, <1>9, <1>10, <1>11,
     <1>12,
     <1>13, <1>14, <1>15, <1>16, <1>17, <1>18, <1>19, <1>20, <1>21, <1>22
     DEF Next, CallerStep, Handshake

-----------------------------------------------------------------------------
(* The operations.                                                         *)

LEMMA OpInit == Init => OpInv
<1> SUFFICES ASSUME Init PROVE OpInv
  OBVIOUS
<1>1. /\ Len(aired) = 0 /\ sends = 0
      /\ \A t \in Callers : op[t] = 0 /\ pc[t] = "idle" /\ job[t] = "none"
  BY EmptySeq DEF Init
<1> QED BY <1>1 DEF OpInv, OpsNumbered, SendersSend, NotAired, Pending, Idle,
                    WritesLast, AiredNumbered, AtMostOnce

\* The parts of OpInv that speak of the callers, when t alone changes and what was
\* transmitted stays.
LEMMA CallerChanges ==
  ASSUME TypeOK, OpInv, NEW t \in Callers,
         \A u \in Callers \ {t} : pc'[u] = pc[u] /\ job'[u] = job[u] /\ op'[u] = op[u],
         pc'[t] # "sendWriting",
         pc'[t] = "sendLock" => job'[t] \in SendJobs,
         Pending(t)' => op'[t] # 0 /\ \A i \in 1..Len(aired) : aired[i].op # op'[t],
         UNCHANGED aired
  PROVE  SendersSend' /\ NotAired' /\ WritesLast'
<1>1. SendersSend'
  BY DEF OpInv, SendersSend
<1>2. NotAired'
  BY DEF OpInv, NotAired, Pending
<1>3. WritesLast'
  BY DEF OpInv, WritesLast
<1> QED BY <1>1, <1>2, <1>3

LEMMA OpNext ==
  ASSUME TypeOK, LockInv, OpInv, [Next]_vars
  PROVE  OpInv'
<1>t. /\ pc \in [Callers -> Labels] /\ job \in [Callers -> Jobs]
      /\ op \in [Callers -> Nat] /\ sends \in Nat /\ Len(aired) \in Nat
  BY LenProperties DEF TypeOK, CallerType, BoundType, HistoryType
<1>e. ASSUME NEW t \in Callers, NEW l, Goto(t, l)
      PROVE  pc'[t] = l /\ \A u \in Callers \ {t} : pc'[u] = pc[u]
  BY <1>t, <1>e DEF Goto
<1>k. UNCHANGED <<op, sends, aired>> => OpsNumbered' /\ AiredNumbered' /\ AtMostOnce'
  BY DEF OpInv, OpsNumbered, AiredNumbered, AtMostOnce
<1>1. CASE Quiet
  BY <1>1 DEF Quiet, OpInv, OpsNumbered, SendersSend, NotAired, Pending, WritesLast,
              AiredNumbered, AtMostOnce
<1>2. ASSUME NEW t \in Callers, Continues(t) PROVE OpInv'
  <2>1. PICK l : /\ Goto(t, l) /\ l # "sendWriting"
                 /\ l = "sendLock" => job[t] \in SendJobs
                 /\ l \in Idle \/ pc[t] # "sendWriting"
    BY <1>2 DEF Continues, GoesOn, Elsewhere, Idle
  <2>2. /\ job'[t] \in SendJobs <=> job[t] \in SendJobs
        /\ \A u \in Callers \ {t} : job'[u] = job[u]
    BY <1>2, <1>t DEF Continues, SendJobs
  <2>3. Pending(t)' => Pending(t)
    BY <1>2, <1>e, <2>1, <2>2 DEF Pending, Continues
  <2>4. SendersSend' /\ NotAired' /\ WritesLast'
    BY <1>2, <1>e, <2>1, <2>2, <2>3, CallerChanges DEF Continues, OpInv, NotAired
  <2> QED BY <1>2, <1>k, <2>4 DEF Continues, OpInv
<1>3. ASSUME NEW t \in Callers, Starts(t) PROVE OpInv'
  <2>1. pc'[t] \notin {"sendLock", "sendWriting"} /\ job'[t] \notin SendJobs
    BY <1>3, <1>t, <1>e DEF Starts, GoesOn, Elsewhere
  <2>2. \A u \in Callers \ {t} : pc'[u] = pc[u] /\ job'[u] = job[u]
    BY <1>3, <1>t, <1>e DEF Starts, GoesOn
  <2>3. SendersSend' /\ NotAired' /\ WritesLast'
    BY <1>3, <2>1, <2>2, CallerChanges DEF Starts, Pending
  <2> QED BY <1>3, <1>k, <2>3 DEF Starts, OpInv
<1>4. ASSUME NEW t \in Callers, Asks(t) PROVE OpInv'
  <2>1. pc'[t] # "sendWriting" /\ job'[t] \in SendJobs /\ op'[t] = sends + 1
    BY <1>4, <1>t, <1>e DEF Asks, GoesOn, Elsewhere
  <2>2. \A u \in Callers \ {t} : pc'[u] = pc[u] /\ job'[u] = job[u] /\ op'[u] = op[u]
    BY <1>4, <1>t, <1>e DEF Asks, GoesOn
  <2>3. \A i \in 1..Len(aired) : aired[i].op # op'[t]
    BY <1>t, <2>1 DEF OpInv, AiredNumbered
  <2>4. SendersSend' /\ NotAired' /\ WritesLast'
    BY <1>4, <1>t, <2>1, <2>2, <2>3, CallerChanges DEF Asks
  <2>5. OpsNumbered'
    BY <1>4, <1>t, <2>1, <2>2 DEF Asks, OpInv, OpsNumbered
  <2>6. AiredNumbered' /\ AtMostOnce'
    BY <1>4, <1>t DEF Asks, OpInv, AiredNumbered, AtMostOnce
  <2> QED BY <2>4, <2>5, <2>6 DEF OpInv
<1>5. ASSUME NEW t \in Callers, Transmits(t) PROVE OpInv'
  <2> DEFINE r == [op |-> op[t], counter |-> outCount, attempt |-> Len(queues)]
             R == [op : Nat, counter : Nat, attempt : Nat]
  <2>1. /\ r \in R /\ r.op = op[t] /\ aired' = Append(aired, r) /\ aired \in Seq(R)
    BY <1>5, <1>t, LenProperties
       DEF Transmits, TypeOK, ClientType, TaskType, HistoryType
  <2> HIDE DEF r, R
  <2>2. /\ Len(aired') = Len(aired) + 1 /\ aired' # <<>>
        /\ \A i \in 1..Len(aired) : aired'[i] = aired[i]
        /\ aired'[Len(aired) + 1] = r
    BY <2>1, AppendProperties
  <2>3. Pending(t)
    BY <1>5 DEF Transmits, Pending, Idle, OpInv, SendersSend
  <2>4. op[t] \in 1..sends /\ \A i \in 1..Len(aired) : aired[i].op # op[t]
    BY <1>t, <2>3 DEF OpInv, NotAired, OpsNumbered
  <2>5. AiredNumbered' /\ AtMostOnce' /\ OpsNumbered'
    BY <1>5, <1>t, <2>1, <2>2, <2>4
       DEF Transmits, OpInv, AiredNumbered, AtMostOnce, OpsNumbered
  <2>6. \A u \in Callers : pc[u] = "sendWriting" => u = t
    BY <1>5 DEF Transmits, LockInv, QueueOK, Writing, Holds
  <2>7. /\ pc'[t] = "sendWriting" /\ UNCHANGED <<job, op>>
        /\ \A u \in Callers \ {t} : pc'[u] = pc[u]
    BY <1>5, <1>e DEF Transmits
  <2>8. SendersSend' /\ WritesLast'
    <3>1. SendersSend'
      BY <2>3, <2>7 DEF Pending, OpInv, SendersSend
    <3>2. \A u \in Callers : pc'[u] = "sendWriting" => u = t
      BY <2>6, <2>7
    <3>3. aired' # <<>> /\ aired'[Len(aired')].op = op'[t] /\ op'[t] # 0
      BY <1>t, <2>1, <2>2, <2>4, <2>7
    <3> QED BY <3>1, <3>2, <3>3 DEF WritesLast
  <2>9. NotAired'
    <3> SUFFICES ASSUME NEW u \in Callers, Pending(u)'
                 PROVE  op[u] # 0 /\ \A i \in 1..Len(aired') : aired'[i].op # op[u]
      BY <2>7 DEF NotAired
    <3>1. u # t /\ Pending(u)
      BY <2>7 DEF Pending
    <3>2. op[u] # 0 /\ op[u] # op[t] /\ \A i \in 1..Len(aired) : aired[i].op # op[u]
      BY <3>1 DEF OpInv, NotAired, OpsNumbered
    <3> QED BY <1>t, <2>1, <2>2, <3>2
  <2> QED BY <2>5, <2>8, <2>9 DEF OpInv
<1> QED BY <1>1, <1>2, <1>3, <1>4, <1>5, StepKinds

-----------------------------------------------------------------------------
(* The client implements Delivery.                                         *)

OpenCalls == [t \in Callers |-> Open(t)]
OnRadio == {t \in Callers : pc[t] = "sendWriting"}
OnAir == {aired[i].op : i \in 1..Len(aired)}

LEMMA RefinesInit == Init => D!Init
<1> SUFFICES ASSUME Init PROVE D!Init
  OBVIOUS
<1>1. Len(aired) = 0 /\ sends = 0 /\ \A t \in Callers : pc[t] = "idle" /\ Open(t) = 0
  BY EmptySeq DEF Init, Open
<1> QED BY <1>1 DEF D!Init

\* A call that ends, or goes on, without transmitting.
LEMMA RefinesMoves ==
  ASSUME TypeOK, OpInv, NEW t \in Callers, Continues(t)
  PROVE  D!End(t) \/ UNCHANGED D!vars
<1>t. pc \in [Callers -> Labels] /\ job \in [Callers -> Jobs]
  BY DEF TypeOK, CallerType
<1>1. PICK l : /\ Goto(t, l) /\ l # "sendWriting"
               /\ l \in Idle \/ pc[t] # "sendWriting"
  BY DEF Continues, GoesOn, Elsewhere, Idle
<1>2. pc'[t] = l /\ \A u \in Callers \ {t} : pc'[u] = pc[u]
  BY <1>t, <1>1 DEF Goto
<1>3. /\ job'[t] \in SendJobs <=> job[t] \in SendJobs
      /\ \A u \in Callers \ {t} : job'[u] = job[u]
  BY <1>t DEF Continues, SendJobs
<1>4. UNCHANGED <<op, sends, aired>> /\ UNCHANGED OnAir
  BY DEF Continues, OnAir
<1>5. \A u \in Callers \ {t} : Open(u)' = Open(u)
  BY <1>2, <1>3, <1>4 DEF Open
<1>6. OnRadio' = OnRadio \ {t}
  BY <1>1, <1>2 DEF OnRadio
<1>7. CASE l \in Idle /\ job[t] \in SendJobs
  <2>1. Open(t)' = 0 /\ Open(t) = op[t]
    BY <1>2, <1>7 DEF Open, Continues, SendJobs
  <2>2. op[t] # 0
    BY <1>7 DEF Continues, OpInv, NotAired, Pending, WritesLast
  <2>3. OpenCalls[t] # 0
    BY <2>1, <2>2 DEF OpenCalls
  <2>4. OpenCalls' = [OpenCalls EXCEPT ![t] = 0]
    BY <1>5, <2>1 DEF OpenCalls
  <2> QED BY <1>4, <1>6, <2>3, <2>4 DEF D!End, OpenCalls, OnRadio, OnAir
<1>8. CASE l \notin Idle \/ job[t] \notin SendJobs
  <2>1. Open(t)' = Open(t)
    BY <1>2, <1>3, <1>4, <1>8 DEF Open, Continues, SendJobs
  <2>2. pc[t] # "sendWriting"
    BY <1>1, <1>8 DEF OpInv, SendersSend
  <2>3. UNCHANGED OpenCalls /\ UNCHANGED OnRadio
    BY <1>5, <1>6, <2>1, <2>2 DEF OpenCalls, OnRadio
  <2> QED BY <1>4, <2>3 DEF D!vars, OpenCalls, OnRadio, OnAir
<1> QED BY <1>7, <1>8

LEMMA RefinesNext ==
  ASSUME TypeOK, LockInv, OpInv, [Next]_vars
  PROVE  [D!Next]_(D!vars)
<1>t. pc \in [Callers -> Labels] /\ job \in [Callers -> Jobs]
      /\ op \in [Callers -> Nat] /\ sends \in Nat /\ Len(aired) \in Nat
  BY LenProperties DEF TypeOK, CallerType, BoundType, HistoryType
<1>e. ASSUME NEW t \in Callers, NEW l, Goto(t, l)
      PROVE  pc'[t] = l /\ \A u \in Callers \ {t} : pc'[u] = pc[u]
  BY <1>t, <1>e DEF Goto
<1>1. CASE Quiet
  BY <1>1 DEF Quiet, D!vars, Open
<1>2. ASSUME NEW t \in Callers, Continues(t) PROVE D!Next \/ UNCHANGED D!vars
  BY <1>2, RefinesMoves DEF D!Next
<1>3. ASSUME NEW t \in Callers, Starts(t) PROVE UNCHANGED D!vars
  <2>1. /\ pc'[t] # "sendWriting" /\ pc[t] # "sendWriting"
        /\ Open(t) = 0 /\ Open(t)' = 0
    BY <1>3, <1>t, <1>e DEF Starts, GoesOn, Elsewhere, Open, Idle, SendJobs
  <2>2. \A u \in Callers \ {t} : pc'[u] = pc[u] /\ Open(u)' = Open(u)
    BY <1>3, <1>t, <1>e DEF Starts, GoesOn, Open
  <2>3. UNCHANGED OpenCalls /\ UNCHANGED OnRadio /\ UNCHANGED OnAir
    BY <1>3, <2>1, <2>2 DEF OpenCalls, OnRadio, OnAir, Starts
  <2> QED BY <1>3, <2>3 DEF D!vars, OpenCalls, OnRadio, OnAir, Starts
<1>4. ASSUME NEW t \in Callers, Asks(t) PROVE D!Begin(t)
  <2>1. /\ pc'[t] # "sendWriting" /\ pc[t] # "sendWriting" /\ job'[t] \in SendJobs
        /\ op'[t] = sends + 1 /\ sends' = sends + 1
    BY <1>4, <1>t, <1>e DEF Asks, GoesOn, Elsewhere, Idle
  <2>2. Open(t) = 0 /\ Open(t)' \in {0, sends + 1}
    BY <1>4, <2>1 DEF Asks, Open
  <2>3. \A u \in Callers \ {t} : pc'[u] = pc[u] /\ Open(u)' = Open(u)
    BY <1>4, <1>t, <1>e DEF Asks, GoesOn, Open
  <2>4. UNCHANGED OnRadio /\ UNCHANGED OnAir
    BY <1>4, <2>1, <2>3 DEF OnRadio, OnAir, Asks
  <2>5. /\ OpenCalls[t] = 0
        /\ OpenCalls' \in {OpenCalls, [OpenCalls EXCEPT ![t] = sends + 1]}
    BY <2>2, <2>3 DEF OpenCalls
  <2> QED BY <2>1, <2>4, <2>5 DEF D!Begin, OpenCalls, OnRadio, OnAir
<1>5. ASSUME NEW t \in Callers, Transmits(t) PROVE D!Deliver(t)
  <2> DEFINE r == [op |-> op[t], counter |-> outCount, attempt |-> Len(queues)]
             R == [op : Nat, counter : Nat, attempt : Nat]
  <2>1. /\ r \in R /\ r.op = op[t] /\ aired' = Append(aired, r) /\ aired \in Seq(R)
    BY <1>5, <1>t, LenProperties
       DEF Transmits, TypeOK, ClientType, TaskType, HistoryType
  <2> HIDE DEF r, R
  <2>2. /\ Len(aired') = Len(aired) + 1
        /\ \A i \in 1..Len(aired) : aired'[i] = aired[i]
        /\ aired'[Len(aired) + 1] = r
    BY <2>1, AppendProperties
  <2>3. OnAir' = OnAir \cup {op[t]}
    <3>1. \A i \in 1..Len(aired') : i \in 1..Len(aired) \/ i = Len(aired) + 1
      BY <1>t, <2>2
    <3>2. \A i \in 1..Len(aired) : i \in 1..Len(aired')
      BY <1>t, <2>2
    <3>3. Len(aired) + 1 \in 1..Len(aired')
      BY <1>t, <2>2
    <3> QED BY <2>1, <2>2, <3>1, <3>2, <3>3 DEF OnAir
  <2>4. Pending(t) /\ Open(t) = op[t]
    BY <1>5 DEF Transmits, Pending, Idle, OpInv, SendersSend, SendJobs, Open
  <2>5. op[t] # 0 /\ op[t] \notin OnAir
    BY <2>4 DEF OpInv, NotAired, OnAir
  <2>6. \A u \in Callers : pc[u] # "sendWriting"
    BY <1>5 DEF Transmits, LockInv, QueueOK, Writing, Holds
  <2>7. pc'[t] = "sendWriting" /\ \A u \in Callers \ {t} : pc'[u] = pc[u]
    BY <1>5, <1>e DEF Transmits
  <2>8. OnRadio = {} /\ OnRadio' = {t}
    BY <2>6, <2>7 DEF OnRadio
  <2>9. \A u \in Callers : Open(u)' = Open(u)
    BY <1>5, <2>4, <2>7 DEF Transmits, Open, Idle
  <2>10. UNCHANGED OpenCalls /\ OpenCalls[t] = op[t]
    BY <2>4, <2>9 DEF OpenCalls
  <2> QED BY <1>5, <2>3, <2>5, <2>8, <2>10
          DEF D!Deliver, OpenCalls, OnRadio, OnAir, Transmits
<1> QED BY <1>1, <1>2, <1>3, <1>4, <1>5, StepKinds DEF D!Next

-----------------------------------------------------------------------------
(* The counters.                                                           *)

LEMMA SameDomain ==
  ASSUME NEW S, NEW s \in Seq(S), NEW r \in Seq(S), DOMAIN s = DOMAIN r
  PROVE  Len(s) = Len(r)
<1>1. /\ Len(s) \in Nat /\ DOMAIN s = 1..Len(s)
      /\ Len(r) \in Nat /\ DOMAIN r = 1..Len(r)
  BY LenProperties
<1>2. \A m, n \in Nat : 1..m = 1..n => m = n
  <2> SUFFICES ASSUME NEW m \in Nat, NEW n \in Nat, 1..m = 1..n PROVE m = n
    OBVIOUS
  <2>1. (m \in 1..m <=> m \in 1..n) /\ (n \in 1..m <=> n \in 1..n)
    OBVIOUS
  <2> QED BY <2>1
<1> QED BY <1>1, <1>2

\* connect() begins: the counter is set back.
Resets == Len(queues') = Len(queues) + 1 /\ outCount' = 2 /\ UNCHANGED <<aired, done>>

\* The counter stays, or advances without a write.
Counts ==
  /\ Len(queues') = Len(queues) /\ outCount' \in {outCount, outCount + 1}
  /\ UNCHANGED <<aired, done>>

\* The write of t ends.
Completes(t) ==
  /\ pc[t] = "sendWriting" /\ Len(queues') = Len(queues)
  /\ outCount' = outCount + 1 /\ done' = done \cup {op[t]} /\ UNCHANGED aired

\* The write of t begins.
Counted(t) ==
  Transmits(t) /\ Len(queues') = Len(queues) /\ UNCHANGED <<outCount, done>>

LEMMA ConnectOpens ==
  ASSUME TypeOK, NEW t \in Callers, OpenClient(t)
  PROVE  Len(queues') = Len(queues) + 1 /\ outCount' = 2
<1> DEFINE q == [items |-> <<>>, unfinished |-> 0]
<1>1. q \in Queue
  BY EmptySeq DEF Queue
<1>2. queues' = Append(queues, q) /\ outCount' = 2
  BY DEF OpenClient
<1> HIDE DEF q
<1> QED BY <1>1, <1>2, AppendProperties DEF TypeOK, TaskType

LEMMA CounterKinds ==
  ASSUME TypeOK, TypeOK', LockInv, [Next]_vars
  PROVE  Resets \/ Counts \/ \E t \in Callers : Completes(t) \/ Counted(t)
<1> USE DEF clientVars, taskVars, callerVars, linkVars, historyVars, boundVars
<1>q. DOMAIN queues' = DOMAIN queues => Len(queues') = Len(queues)
  <2>1. queues \in Seq(Queue) /\ queues' \in Seq(Queue)
    BY DEF TypeOK, TaskType
  <2> QED BY <2>1, SameDomain
<1>1. CASE UNCHANGED vars
  BY <1>1 DEF vars, Counts
<1>2. ASSUME NEW t \in Callers, BeginConnect(t) PROVE Resets
  BY <1>2, ConnectOpens DEF BeginConnect, Resets
<1>3. ASSUME NEW t \in Callers, Handshake(t) PROVE Counts
  <2>1. UNCHANGED <<queues, outCount, aired, done>>
    BY <1>3 DEF Handshake, Connected, ConnectFails, Read, ReadEnds, SubscribeEnds, Resume,
                Respond, ResponseEnds, Derive, Authenticate, AuthEnds, Accept, StartDisconnect
  <2> QED BY <2>1 DEF Counts
<1>4. ASSUME NEW t \in Callers, BeginSend(t) PROVE Resets \/ Counts
  <2>1. OpenClient(t) \/ UNCHANGED <<queues, outCount>>
    BY <1>4 DEF BeginSend
  <2>2. UNCHANGED <<aired, done>>
    BY <1>4 DEF BeginSend
  <2> QED BY <2>1, <2>2, ConnectOpens DEF Resets, Counts
<1>5. ASSUME NEW t \in Callers, Send(t) PROVE Resets \/ Counts \/ Counted(t)
  <2>1. CASE LinkUp /\ Goto(t, "sendWriting") /\ aired' # aired
    <3>1. Transmits(t)
      BY <1>5, <2>1 DEF Send, Transmits
    <3>2. UNCHANGED <<queues, outCount, done>>
      BY <1>5, <2>1 DEF Send
    <3> QED BY <3>1, <3>2 DEF Counted
  <2>2. CASE OpenClient(t) /\ UNCHANGED aired
    BY <1>5, <2>2, ConnectOpens DEF Send, Resets
  <2>3. CASE ~OpenClient(t) /\ UNCHANGED aired
    BY <1>5, <2>3 DEF Send, Counts
  <2>4. CASE aired' # aired
    BY <1>5, <2>1, <2>4 DEF Send
  <2> QED BY <2>2, <2>3, <2>4
<1>6. ASSUME NEW t \in Callers, SendEnds(t) PROVE Counts \/ Completes(t)
  BY <1>6 DEF SendEnds, WriteFails, Counts, Completes
<1>7. ASSUME NEW t \in Callers,
             BeginDisconnect(t) \/ CloseLink(t) \/ Disconnected(t) \/ Cancel(t)
      PROVE  Counts
  BY <1>7 DEF BeginDisconnect, CloseLink, Disconnected, Cancel, StartDisconnect,
              Counts
<1>8. ASSUME NEW k \in 1..Len(cbs), CallbackStep(k) PROVE Counts
  <2>1. DOMAIN queues' = DOMAIN queues /\ UNCHANGED <<outCount, aired, done>>
    BY <1>8 DEF CallbackStep, CbGet, CbWake, CbHandle
  <2> QED BY <1>q, <2>1 DEF Counts
<1>9. ASSUME DeviceReply \/ DeviceState \/ LinkDrop PROVE Counts
  <2>1. DOMAIN queues' = DOMAIN queues /\ UNCHANGED <<outCount, aired, done>>
    BY <1>9 DEF DeviceReply, DeviceState, LinkDrop, Notify
  <2> QED BY <1>q, <2>1 DEF Counts
<1> QED
  BY <1>1, <1>2, <1>3, <1>4, <1>5, <1>6, <1>7, <1>8, <1>9 DEF Next, CallerStep

LEMMA CounterInit == Init => CounterInv
<1> SUFFICES ASSUME Init PROVE CounterInv
  OBVIOUS
<1>1. Len(aired) = 0
  BY EmptySeq DEF Init
<1>2. done = {}
  BY DEF Init
<1> QED BY <1>1, <1>2 DEF CounterInv, CountersBelow, NonceFresh, DoneAired

LEMMA CounterNext ==
  ASSUME TypeOK, TypeOK', LockInv, OpInv, CounterInv, [Next]_vars
  PROVE  CounterInv'
<1> DEFINE R == [op : Nat, counter : Nat, attempt : Nat]
<1>t. /\ aired \in Seq(R) /\ Len(aired) \in Nat /\ outCount \in Nat
      /\ Len(queues) \in Nat /\ \A i \in 1..Len(aired) : aired[i] \in R
  BY LenProperties, ElementOfSeq DEF TypeOK, ClientType, TaskType, HistoryType
<1>1. CASE Resets
  <2>1. CountersBelow'
    BY <1>1, <1>t DEF Resets, CounterInv, CountersBelow
  <2>2. NonceFresh'
    BY <1>1 DEF Resets, CounterInv, NonceFresh
  <2>3. DoneAired'
    BY <1>1 DEF Resets, CounterInv, DoneAired
  <2> QED BY <2>1, <2>2, <2>3 DEF CounterInv
<1>2. CASE Counts
  <2>1. CountersBelow'
    BY <1>2, <1>t DEF Counts, CounterInv, CountersBelow
  <2>2. NonceFresh'
    BY <1>2 DEF Counts, CounterInv, NonceFresh
  <2>3. DoneAired'
    BY <1>2 DEF Counts, CounterInv, DoneAired
  <2> QED BY <2>1, <2>2, <2>3 DEF CounterInv
<1>3. ASSUME NEW t \in Callers, Completes(t) PROVE CounterInv'
  <2>done. pc[t] = "sendWriting" /\ done' = done \cup {op[t]} /\ UNCHANGED aired
    BY <1>3 DEF Completes
  <2>last. aired # <<>> /\ aired[Len(aired)].op = op[t]
    BY <2>done DEF OpInv, WritesLast
  <2>end. Len(aired) \in 1..Len(aired)
    <3>1. Len(aired) # 0
      BY <1>t, <2>last, EmptySeq
    <3> QED BY <1>t, <3>1
  <2>1. CountersBelow'
    BY <1>3, <1>t DEF Completes, CounterInv, CountersBelow
  <2>2. NonceFresh'
    <3> SUFFICES ASSUME NEW i \in 1..Len(aired), NEW j \in 1..Len(aired), i < j,
                        aired[i].attempt = aired[j].attempt,
                        aired[i].counter = aired[j].counter
                 PROVE  aired[i].op \notin done'
      BY <1>3 DEF Completes, NonceFresh
    <3>1. aired[i].op \notin done
      BY DEF CounterInv, NonceFresh
    <3>2. aired[i].op # op[t]
      BY <1>t, <2>last, <2>end DEF OpInv, AtMostOnce
    <3> QED BY <2>done, <3>1, <3>2
  <2>3. DoneAired'
    <3> SUFFICES ASSUME NEW n \in done' PROVE \E i \in 1..Len(aired) : aired[i].op = n
      BY <2>done DEF DoneAired
    <3>1. CASE n \in done
      BY <3>1 DEF CounterInv, DoneAired
    <3>2. CASE n = op[t]
      BY <2>last, <2>end, <3>2
    <3> QED BY <2>done, <3>1, <3>2
  <2> QED BY <2>1, <2>2, <2>3 DEF CounterInv
<1>4. ASSUME NEW t \in Callers, Counted(t) PROVE CounterInv'
  <2> DEFINE r == [op |-> op[t], counter |-> outCount, attempt |-> Len(queues)]
  <2>1. /\ aired' = Append(aired, r) /\ r \in R
        /\ r.op = op[t] /\ r.counter = outCount /\ r.attempt = Len(queues)
    BY <1>4, <1>t DEF Counted, Transmits, TypeOK, CallerType
  <2> HIDE DEF r, R
  <2>2. /\ Len(aired') = Len(aired) + 1
        /\ \A i \in 1..Len(aired) : aired'[i] = aired[i]
        /\ aired'[Len(aired) + 1] = r
    BY <1>t, <2>1, AppendProperties
  <2>3. /\ Len(queues') = Len(queues) /\ UNCHANGED <<outCount, done>>
        /\ pc[t] = "sendLock"
    BY <1>4 DEF Counted, Transmits
  <2>4. \A i \in 1..Len(aired') :
          i \in 1..Len(aired) \/ (i = Len(aired) + 1 /\ aired'[i] = r)
    BY <1>t, <2>2
  <2>5. op[t] \notin done
    <3>1. \A i \in 1..Len(aired) : aired[i].op # op[t]
      BY <2>3 DEF OpInv, NotAired, Pending, SendersSend, Idle
    <3> QED BY <3>1 DEF CounterInv, DoneAired
  <2>6. CountersBelow'
    BY <1>t, <2>1, <2>2, <2>3, <2>4, <2>5 DEF CounterInv, CountersBelow
  <2>7. NonceFresh'
    <3> SUFFICES ASSUME NEW i \in 1..Len(aired'), NEW j \in 1..Len(aired'), i < j,
                        aired'[i].attempt = aired'[j].attempt,
                        aired'[i].counter = aired'[j].counter
                 PROVE  aired'[i].op \notin done
      BY <2>3 DEF NonceFresh
    <3>1. i \in 1..Len(aired) /\ aired'[i] = aired[i]
      BY <1>t, <2>2
    <3>2. CASE j \in 1..Len(aired)
      BY <2>2, <3>1, <3>2 DEF CounterInv, NonceFresh
    <3>3. CASE aired'[j] = r
      BY <2>1, <3>1, <3>3 DEF CounterInv, CountersBelow
    <3> QED BY <2>4, <3>2, <3>3
  <2>8. DoneAired'
    <3> SUFFICES ASSUME NEW n \in done
                 PROVE  \E i \in 1..Len(aired') : aired'[i].op = n
      BY <2>3 DEF DoneAired
    <3>1. PICK i \in 1..Len(aired) : aired[i].op = n
      BY DEF CounterInv, DoneAired
    <3>2. i \in 1..Len(aired') /\ aired'[i] = aired[i]
      BY <1>t, <2>2
    <3> QED BY <3>1, <3>2
  <2> QED BY <2>6, <2>7, <2>8 DEF CounterInv
<1> QED BY <1>1, <1>2, <1>3, <1>4, CounterKinds

-----------------------------------------------------------------------------
(* The theorems.                                                           *)

\* AtMostOnce and NonceFresh are not inductive: the first needs that a pending
\* operation was not transmitted, the second that counters only grow between two
\* connect() calls; both that the lock lets one caller write at a time.
LEMMA OpInvariance == Spec => [](TypeOK /\ LockInv /\ OpInv /\ CounterInv)
<1>1. Init => TypeOK /\ LockInv /\ OpInv /\ CounterInv
  BY TypeInit, LockInit, OpInit, CounterInit
<1>2. ASSUME TypeOK, LockInv, OpInv, CounterInv, [Next]_vars
      PROVE  TypeOK' /\ LockInv' /\ OpInv' /\ CounterInv'
  <2>1. WritersHold /\ WokenWait
    BY <1>2 DEF LockInv, QueueOK, WritersHold, Holds
  <2>2. TypeOK'
    BY <1>2, <2>1, TypeNext
  <2> QED BY <1>2, <2>2, LockNext, OpNext, CounterNext
<1> QED BY <1>1, <1>2, PTL DEF Spec

\* Whatever the link does, with any callers, reconnections and cancellations, _send
\* never puts an operation on the air twice.
THEOREM NeverTwice == Spec => []AtMostOnce
<1>1. OpInv => AtMostOnce
  BY DEF OpInv
<1> QED BY <1>1, OpInvariance, PTL

\* From one connect() to the next no counter is used again whose write ended.
THEOREM CountersFresh == Spec => []NonceFresh
<1>1. CounterInv => NonceFresh
  BY DEF CounterInv
<1> QED BY <1>1, OpInvariance, PTL

\* Seen by its operations alone, the client is Delivery.
THEOREM ClientDelivers == Spec => Delivers
<1>1. TypeOK /\ LockInv /\ OpInv /\ [Next]_vars => [D!Next]_(D!vars)
  BY RefinesNext
<1> QED BY <1>1, RefinesInit, OpInvariance, PTL DEF Spec, Delivers, D!Spec
=============================================================================

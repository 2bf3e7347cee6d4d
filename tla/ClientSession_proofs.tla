------------------------ MODULE ClientSession_proofs ------------------------
(***************************************************************************)
(* Proofs about the handshake and the session of CasambiClient, for calls  *)
(* made one after the other over a link that holds, with any number of     *)
(* callers, operations and packets, with and without a key, whatever the   *)
(* device answers: every packet meets the handler it is meant for, both    *)
(* ends agree on the session, unit states arrive in order, and a call that *)
(* is over leaves the channel up or torn down.                             *)
(***************************************************************************)
EXTENDS CasambiClient_proofs

\* Calls one after the other, none cancelled, over links that hold.  Outside this
\* most of the properties below fail, as the code has it: a cancelled call, a lost
\* link or a radio operation that fails leaves the callback task, the lock or the
\* signal of an old connect() to the next one.
Reliable == Overlap = {} /\ ~Flaky /\ MaxDrops = 0 /\ MaxCancels = 0

-----------------------------------------------------------------------------
(* The callback task.                                                      *)

States == {"state", "poison"}
task == cbs[Len(cbs)]
items == queues[Len(queues)].items
Taken == task.pc \in {"sleep", "lock"}

\* A task that is not dead is the one of the last connect(), and reads its queue.
OneTask ==
  \A k \in 1..Len(cbs) : cbs[k].pc # "dead" =>
    k = Len(cbs) /\ cbTask = k /\ cbs[k].q = Len(queues)

\* task_done() is called once for each packet.
Tally ==
  cbs # <<>> /\ task.pc # "dead" =>
    queues[Len(queues)].unfinished = Len(items) + (IF Taken THEN 1 ELSE 0)

\* A task that claims the lock is there to run its handler.
Released == \A k \in 1..Len(cbs) : InQ(lockQ, k) => cbs[k].pc = "lock"

\* A link that is down has no device.
OnLink == air = 0 => dev = "closed"

Base == OneTask /\ Tally /\ Released /\ OnLink

-----------------------------------------------------------------------------
(* Where the session is.                                                   *)

AllIdle == \A t \in Callers : pc[t] \in Idle
AllDead == \A k \in 1..Len(cbs) : cbs[k].pc = "dead"
Alone(t) == \A u \in Callers \ {t} : pc[u] \in Idle
Alive == cbs # <<>> /\ task.pc # "dead"
Silent == ~signal /\ woken = {}

\* The packets on their way: none; unit states, and only from a device that is up;
\* the answer w, and then nothing but unit states.
Clear == task.pc = "get" /\ items = <<>>

Rest ==
  /\ Taken => task.item.kind \in States
  /\ \A i \in 1..Len(items) : items[i].kind \in States
  /\ dev # "up" => Clear

Answer(p, w) ==
  \/ p.kind \in {"bad", "garbled"}
  \/ p.kind = "hello" /\ w = "helloWait" /\ p.key = conn
  \/ p.kind = "ack" /\ w = "ackWait"
  \/ p.kind = "auth" /\ w = "authWait"

Ahead(w) ==
  \/ /\ Taken /\ Answer(task.item, w)
     /\ \A i \in 1..Len(items) : items[i].kind \in States
     /\ dev # "up" => items = <<>>
  \/ /\ task.pc = "get" /\ items # <<>> /\ Answer(Head(items), w)
     /\ \A i \in 1..Len(Tail(items)) : Tail(items)[i].kind \in States
     /\ dev # "up" => Tail(items) = <<>>

\* The device when it owes the answer w, and when it has sent it.
Owes(w) == IF w = "helloWait" THEN "subscribed" ELSE IF w = "ackWait" THEN "keyed" ELSE "proved"
Sent(w) == IF w = "helloWait" THEN "greeted" ELSE IF w = "ackWait" /\ HasKey THEN "acked" ELSE "up"

\* What is settled of the session when the answer w is awaited, and the state
\* of the client then.
Settles(w) ==
  /\ LinkUp /\ nonce = conn
  /\ w # "helloWait" => tkey = conn /\ devKey = conn
  /\ w = "authWait" => enc = conn /\ HasKey
Stage(w) == IF w = "authWait" THEN "KEY_EXCHANGED" ELSE "CONNECTED"
Agreed == devKey = conn /\ enc = conn /\ nonce = conn

Opening(t) ==
  /\ pc[t] = "connecting" /\ state = "NONE" /\ conn = 0 /\ air = 0
  /\ Alive /\ Clear /\ Silent
Starting(t) ==
  /\ pc[t] \in {"readLock", "reading", "subscribing"} /\ Holds(t)
  /\ state = "CONNECTED" /\ LinkUp /\ (pc[t] = "subscribing" => nonce = conn)
  /\ dev = "open" /\ Alive /\ Clear /\ Silent
Waiting(t) ==
  \E w \in SignalWait :
    /\ \/ pc[t] = w
       \/ pc[t] = "responding" /\ w = "ackWait" /\ Holds(t)
       \/ pc[t] = "authWriting" /\ w = "authWait" /\ Holds(t)
    /\ Settles(w) /\ state = Stage(w) /\ Alive /\ Silent
    /\ \/ Clear /\ dev = Owes(w)
       \/ Ahead(w) /\ dev = Sent(w)
\* The handler has run: a hello left its key, a wrong packet an error.
Heard(w) ==
  /\ Settles(w) /\ (w = "helloWait" => state = "ERROR" \/ tkey = conn)
  /\ state = Stage(w) \/ (state = "ERROR" /\ w # "authWait")
  /\ dev = Sent(w) /\ Alive /\ Rest /\ signal
Told(t) ==
  \E w \in SignalWait :
    /\ pc[t] = w /\ woken = {t} /\ Heard(w)
    /\ task.pc = "get" \/ (task.pc = "sleep" /\ t \in task.after)
Going(t) ==
  \E w \in SignalWait : pc[t] = AfterSignal[w] /\ Holds(t) /\ woken = {} /\ Heard(w)
Proving(t) ==
  /\ pc[t] = "authLock" /\ Holds(t) /\ Settles("authWait") /\ state = "KEY_EXCHANGED"
  /\ dev = "acked" /\ Alive /\ Clear /\ Silent
\* A wrong answer to authenticate() is not signalled: it waits on.
Stuck(t) ==
  /\ pc[t] = "authWait" /\ state = "ERROR" /\ dev = "up" /\ LinkUp
  /\ Alive /\ Rest /\ Silent
\* A garbled answer to exchangeKey() ends the callback task: it waits on, too.
Deaf(t) ==
  /\ pc[t] \in SignalWait /\ state = "CONNECTED" /\ LinkUp /\ Silent
  /\ dev \in {"greeted", "acked", "up"} /\ cbs # <<>> /\ task.pc = "dead"
Leaving(t) ==
  /\ pc[t] \in {"stopping", "closing"} /\ cbs # <<>> /\ AllDead /\ Silent
  /\ IF pc[t] = "closing" THEN air = 0 ELSE LinkUp \/ air = 0
  /\ SessionAgreed

Stages(t) ==
  \/ Opening(t) \/ Starting(t) \/ Waiting(t) \/ Told(t) \/ Going(t) \/ Proving(t)
  \/ Stuck(t) \/ Deaf(t) \/ Leaving(t)

\* One caller is somewhere in the handshake or in disconnect().
InCall(t) == Alone(t) /\ job[t] # "send" /\ Stages(t)

Untouched == cbs = <<>> /\ AllIdle /\ state = "NONE" /\ conn = 0 /\ air = 0 /\ Silent
Gone == cbs # <<>> /\ AllIdle /\ state = "NONE" /\ conn = 0 /\ air = 0 /\ AllDead /\ Silent
Sending(u) ==
  /\ pc[u] \in {"sendLock", "sendWriting"} /\ job[u] \in {"send", "retry"}
  /\ job[u] = "retry" => Alone(u)
Ready ==
  /\ state = "AUTHENTICATED" /\ LinkUp /\ Agreed /\ Silent /\ dev = "up"
  /\ cbs # <<>> /\ (task.pc # "dead" => Rest)
  /\ \A u \in Callers : pc[u] \in Idle \/ Sending(u)

Session == Untouched \/ Gone \/ Ready \/ \E t \in Callers : InCall(t)

-----------------------------------------------------------------------------
(* What the steps do to the callback task.                                 *)

LEMMA TaskFacts ==
  ASSUME TypeOK
  PROVE  /\ Len(cbs) \in Nat /\ Len(queues) = Len(cbs) /\ (cbs = <<>> <=> Len(cbs) = 0)
         /\ (queues = <<>> <=> cbs = <<>>)
         /\ \A k \in 1..Len(cbs) : k \notin Callers /\ cbs[k] \in Callback
         /\ cbs # <<>> =>
              /\ Len(cbs) \in 1..Len(cbs) /\ task \in Callback
              /\ queues[Len(queues)] \in Queue /\ items \in Seq(Packet)
<1>1. cbs \in Seq(Callback) /\ queues \in Seq(Queue) /\ Len(cbs) = Len(queues)
  BY DEF TypeOK, TaskType
<1>2. /\ Len(cbs) \in Nat /\ (cbs = <<>> <=> Len(cbs) = 0)
      /\ (queues = <<>> <=> Len(queues) = 0)
  BY <1>1, EmptySeq, LenProperties
<1>3. \A k \in 1..Len(cbs) : k \notin Callers /\ cbs[k] \in Callback
  BY <1>1, <1>2, CallersAssumption, ElementOfSeq
<1>4. ASSUME cbs # <<>>
      PROVE  /\ Len(cbs) \in 1..Len(cbs) /\ task \in Callback
             /\ queues[Len(queues)] \in Queue /\ items \in Seq(Packet)
  <2>1. Len(cbs) \in 1..Len(cbs)
    BY <1>2, <1>4
  <2>2. queues[Len(queues)] \in Queue
    BY <1>1, <2>1, ElementOfSeq
  <2> QED BY <1>3, <2>1, <2>2 DEF Queue, items, task
<1> QED BY <1>1, <1>2, <1>3, <1>4

\* The queue of the lock, but for callers, only loses claims.
LockLess == \A y : InQ(lockQ', y) => InQ(lockQ, y) \/ y \in Callers

LEMMA LockLessIs ==
  ASSUME TypeOK, NEW t \in Callers,
         \/ Acquire(t) \/ UNCHANGED lockQ
         \/ lockQ # <<>> /\ (lockQ' = Tail(lockQ) \/ lockQ' = Append(Tail(lockQ), t))
  PROVE  LockLess
<1>1. lockQ \in Seq(Callers \cup Nat)
  BY DEF TypeOK, LockType
<1>2. CASE Acquire(t)
  BY <1>1, <1>2, AppendQueue DEF Acquire, LockLess
<1>3. CASE UNCHANGED lockQ
  BY <1>3 DEF LockLess
<1>4. ASSUME lockQ # <<>>
      PROVE  Tail(lockQ) \in Seq(Callers \cup Nat) /\ \A y : InQ(Tail(lockQ), y) => InQ(lockQ, y)
  BY <1>1, <1>4, TailQueue
<1>5. CASE lockQ # <<>> /\ lockQ' = Tail(lockQ)
  BY <1>4, <1>5 DEF LockLess
<1>6. CASE lockQ # <<>> /\ lockQ' = Append(Tail(lockQ), t)
  <2>1. \A s \in Seq(Callers \cup Nat) : \A x \in Callers \cup Nat :
          \A y : InQ(Append(s, x), y) <=> InQ(s, y) \/ y = x
    BY AppendQueue
  <2>2. \A y : InQ(Append(Tail(lockQ), t), y) <=> InQ(Tail(lockQ), y) \/ y = t
    BY <1>4, <1>6, <2>1
  <2> QED BY <1>4, <1>6, <2>2 DEF LockLess
<1> QED BY <1>2, <1>3, <1>5, <1>6

\* A step that leaves the tasks alone.
LEMMA TasksStay ==
  ASSUME TypeOK, Base, UNCHANGED taskVars, LockLess, OnLink'
  PROVE  Base' /\ UNCHANGED <<task, items, Taken, AllDead, Alive, Clear>>
<1>1. UNCHANGED <<cbs, queues, cbTask>>
  BY DEF taskVars
<1>2. \A k \in 1..Len(cbs) : k \notin Callers
  BY TaskFacts
<1>3. Released'
  BY <1>1, <1>2 DEF Base, Released, LockLess
<1>4. UNCHANGED <<task, items, Taken, AllDead, Alive, Clear>>
  BY <1>1 DEF task, items, Taken, AllDead, Alive, Clear
<1>5. OneTask' /\ Tally'
  BY <1>1 DEF Base, OneTask, Tally, task, items, Taken
<1> QED BY <1>3, <1>4, <1>5 DEF Base

\* connect() makes a queue and a task for it.
LEMMA Opened ==
  ASSUME TypeOK, NEW t \in Callers, OpenClient(t)
  PROVE  /\ Len(cbs) \in Nat /\ Len(cbs') = Len(cbs) + 1 /\ Len(queues') = Len(cbs) + 1
         /\ cbTask' = Len(cbs) + 1 /\ \A k \in 1..Len(cbs) : cbs'[k] = cbs[k]
         /\ task'.pc = "get" /\ task'.q = Len(cbs) + 1
         /\ items' = <<>> /\ queues'[Len(queues')].unfinished = 0
         /\ Alive' /\ Clear' /\ Goto(t, "connecting")
<1> DEFINE c == [pc |-> "get", q |-> Len(queues) + 1, item |-> NoPacket, after |-> {}]
           q == [items |-> <<>>, unfinished |-> 0]
<1>1. /\ queues' = Append(queues, q) /\ cbs' = Append(cbs, c) /\ cbTask' = Len(cbs) + 1
      /\ Goto(t, "connecting")
  BY DEF OpenClient
<1>2. c.pc = "get" /\ c.q = Len(queues) + 1 /\ q.items = <<>> /\ q.unfinished = 0
  OBVIOUS
<1>3. c \in Callback /\ q \in Queue
  BY EmptySeq, LenProperties DEF TypeOK, TaskType, Callback, Packet, NoPacket, Queue
<1> HIDE DEF c, q
<1>4. /\ cbs \in Seq(Callback) /\ queues \in Seq(Queue) /\ Len(queues) = Len(cbs)
      /\ Len(cbs) \in Nat
  BY TaskFacts DEF TypeOK, TaskType
<1>5. /\ Len(Append(cbs, c)) = Len(cbs) + 1 /\ Append(cbs, c)[Len(cbs) + 1] = c
      /\ \A k \in 1..Len(cbs) : Append(cbs, c)[k] = cbs[k]
  BY <1>3, <1>4, AppendProperties
<1>6. /\ Len(Append(queues, q)) = Len(queues) + 1
      /\ Append(queues, q)[Len(queues) + 1] = q
  BY <1>3, <1>4, AppendProperties
<1>7. task' = c /\ items' = <<>> /\ queues'[Len(queues')].unfinished = 0
  BY <1>1, <1>2, <1>4, <1>5, <1>6 DEF task, items
<1>8. cbs' # <<>>
  BY <1>1, <1>4, <1>5, EmptySeq
<1>9. Alive' /\ Clear'
  BY <1>2, <1>7, <1>8 DEF Alive, Clear
<1> QED BY <1>1, <1>2, <1>4, <1>5, <1>6, <1>7, <1>9

\* Made when all others are dead, the task is the only one.
LEMMA TaskMade ==
  ASSUME TypeOK, LockInv, Base, AllDead, NEW t \in Callers, OpenClient(t), LockLess,
         OnLink'
  PROVE  Base' /\ Alive' /\ Clear' /\ Goto(t, "connecting")
<1>1. /\ Len(cbs) \in Nat /\ Len(cbs') = Len(cbs) + 1 /\ Len(queues') = Len(cbs) + 1
      /\ cbTask' = Len(cbs) + 1 /\ \A k \in 1..Len(cbs) : cbs'[k] = cbs[k]
      /\ task'.pc = "get" /\ task'.q = Len(cbs) + 1
      /\ items' = <<>> /\ queues'[Len(queues')].unfinished = 0
      /\ Alive' /\ Clear' /\ Goto(t, "connecting")
  BY Opened
<1>2. \A k \in 1..Len(cbs) : cbs'[k].pc = "dead"
  BY <1>1 DEF AllDead
<1>3. OneTask'
  <2> SUFFICES ASSUME NEW k \in 1..Len(cbs'), cbs'[k].pc # "dead"
               PROVE  k = Len(cbs') /\ cbTask' = k /\ cbs'[k].q = Len(queues')
    BY DEF OneTask
  <2>1. k = Len(cbs')
    BY <1>1, <1>2
  <2> QED BY <1>1, <2>1 DEF task
<1>4. Tally'
  BY <1>1, EmptySeq DEF Tally, Taken
<1>5. ASSUME NEW k \in 1..Len(cbs'), InQ(lockQ', k)
      PROVE  FALSE
  <2>1. CASE k \in 1..Len(cbs)
    <3>1. InQ(lockQ, k)
      BY <1>5, <2>1, TaskFacts DEF LockLess
    <3> QED BY <2>1, <3>1 DEF Base, Released, AllDead
  <2>2. CASE k = Len(cbs) + 1
    <3>1. k \in Nat /\ k \notin Callers /\ k \notin 1..Len(cbs)
      BY <1>1, <2>2, CallersAssumption
    <3>2. InQ(lockQ, k)
      BY <1>5, <3>1 DEF LockLess
    <3>3. PICK i \in 1..Len(lockQ) : lockQ[i] = k
      BY <3>2 DEF InQ
    <3> QED BY <3>1, <3>3 DEF LockInv, TasksOK
  <2> QED BY <1>1, <2>1, <2>2
<1>6. Released'
  BY <1>5 DEF Released
<1> QED BY <1>1, <1>3, <1>4, <1>6 DEF Base

\* disconnect() cancels the task that lives; q is the lock without the caller.
LEMMA StopIs ==
  ASSUME TypeOK, Base, NEW t \in Callers, NEW q \in Seq(Callers \cup Nat), Distinct(q),
         \A y : InQ(q, y) => InQ(lockQ, y), StartDisconnect(t, q), OnLink'
  PROVE  Base' /\ AllDead' /\ Goto(t, "stopping") /\ (cbs' = <<>> <=> cbs = <<>>)
<1> DEFINE live == cbTask # 0 /\ cbs[cbTask].pc # "dead"
<1>1. /\ cbTask' = 0 /\ queues' = queues /\ Goto(t, "stopping")
      /\ live => cbs' = [cbs EXCEPT ![cbTask].pc = "dead"] /\ lockQ' = Without(q, cbTask)
      /\ ~live => cbs' = cbs /\ lockQ' = q
  BY DEF StartDisconnect
<1>2. cbTask \in 0..Len(cbs) /\ Len(cbs) \in Nat /\ cbs \in Seq(Callback)
  BY LenProperties DEF TypeOK, TaskType
<1>3. \A k \in 1..Len(cbs) : k \notin Callers /\ cbs[k] \in Callback
  BY TaskFacts
<1>4. \A k \in 1..Len(cbs) : cbs[k].pc # "dead" => live /\ k = cbTask
  BY <1>2 DEF Base, OneTask
<1>5. Len(cbs') = Len(cbs) /\ \A k \in 1..Len(cbs) : cbs'[k].pc = "dead"
  <2>1. CASE ~live
    BY <1>1, <1>4, <2>1
  <2>2. CASE live
    <3> DEFINE c == [cbs[cbTask] EXCEPT !.pc = "dead"]
    <3>1. cbTask \in 1..Len(cbs)
      BY <1>2, <2>2
    <3>2. c \in Callback /\ c.pc = "dead"
      BY <1>3, <3>1 DEF Callback
    <3>3. cbs' = [cbs EXCEPT ![cbTask] = c]
      BY <1>1, <2>2
    <3> HIDE DEF c
    <3>4. /\ Len(cbs') = Len(cbs)
          /\ \A k \in 1..Len(cbs) : cbs'[k] = IF k = cbTask THEN c ELSE cbs[k]
      BY <1>2, <3>1, <3>2, <3>3, ExceptSeq
    <3> QED BY <1>4, <3>2, <3>4
  <2> QED BY <2>1, <2>2
<1>6. ASSUME NEW k \in 1..Len(cbs), InQ(lockQ', k)
      PROVE  FALSE
  <2>1. InQ(q, k)
    BY <1>1, <1>6, WithoutQueue
  <2>2. live /\ k = cbTask
    BY <1>4, <2>1 DEF Base, Released
  <2>3. ~InQ(Without(q, cbTask), cbTask)
    BY WithoutQueue
  <2> QED BY <1>1, <1>6, <2>2, <2>3
<1> HIDE DEF live
<1>7. OneTask' /\ Released' /\ AllDead'
  BY <1>5, <1>6 DEF OneTask, Released, AllDead
<1>8. cbs' = <<>> <=> cbs = <<>>
  <2>1. live => cbTask \in 1..Len(cbs)
    BY <1>2 DEF live
  <2>2. live => cbs' # <<>>
    BY <1>2, <1>5, <2>1, EmptySeq
  <2>3. live => cbs # <<>>
    BY <1>2, <2>1, EmptySeq
  <2> QED BY <1>1, <2>2, <2>3
<1>9. Tally'
  <2>1. cbs' # <<>> => Len(cbs') \in 1..Len(cbs)
    BY <1>2, <1>5, <1>8, EmptySeq
  <2> QED BY <1>5, <2>1 DEF Tally, task
<1> QED BY <1>1, <1>7, <1>8, <1>9 DEF Base

\* The task takes the next packet of its queue and sleeps.
LEMMA GetIs ==
  ASSUME TypeOK, Base, NEW k \in 1..Len(cbs), CbGet(k)
  PROVE  /\ Base' /\ cbs # <<>> /\ cbs' # <<>>
         /\ task.pc = "get" /\ items # <<>> /\ items' = Tail(items)
         /\ task'.pc = "sleep" /\ task'.after = woken /\ task'.item = Head(items)
<1>1. /\ cbs[k].pc = "get" /\ queues[cbs[k].q].items # <<>>
      /\ cbs' = [cbs EXCEPT ![k] = [@ EXCEPT !.pc = "sleep", !.after = woken,
                                   !.item = Head(queues[cbs[k].q].items)]]
      /\ queues' = [queues EXCEPT ![cbs[k].q].items = Tail(@)]
      /\ UNCHANGED <<lockQ, cbTask, linkVars>>
  BY DEF CbGet
<1>2. k = Len(cbs) /\ cbTask = k /\ cbs[k].q = Len(queues)
  BY <1>1 DEF Base, OneTask
<1>3. /\ Len(cbs) \in Nat /\ Len(queues) = Len(cbs) /\ cbs # <<>>
      /\ task \in Callback /\ queues[Len(queues)] \in Queue /\ items \in Seq(Packet)
      /\ cbs \in Seq(Callback) /\ queues \in Seq(Queue)
  <2>1. Len(cbs) \in Nat /\ cbs # <<>>
    BY TaskFacts
  <2> QED BY <2>1, TaskFacts DEF TypeOK, TaskType
<1>4. items # <<>> /\ task.pc = "get"
  BY <1>1, <1>2 DEF items, task
<1>5. Head(items) \in Packet /\ Tail(items) \in Seq(Packet) /\ Len(Tail(items)) = Len(items) - 1
  BY <1>3, <1>4, HeadTailProperties
<1> DEFINE c == [task EXCEPT !.pc = "sleep", !.after = woken, !.item = Head(items)]
           u == queues[Len(queues)].unfinished
           n == cbs[k].q
           q == [queues[n] EXCEPT !.items = Tail(@)]
<1>6. c \in Callback /\ c.q = task.q
  BY <1>3, <1>5, CallbackSleeps DEF TypeOK, CallerType
<1>7. c.pc = "sleep" /\ c.after = woken /\ c.item = Head(items)
  BY <1>3 DEF Callback
<1>8. q \in Queue /\ q.items = Tail(items) /\ q.unfinished = u
  <2>1. queues[n] \in Queue /\ Tail(queues[n].items) \in Seq(Packet) /\ n = Len(queues)
    BY <1>2, <1>3, <1>5 DEF items
  <2> QED BY <2>1 DEF Queue, items
<1>9. cbs' = [cbs EXCEPT ![k] = c]
  BY <1>1, <1>2 DEF task, items
<1>10. queues' = [queues EXCEPT ![n] = q]
  BY <1>1
<1>m. n = Len(queues)
  BY <1>2
<1> HIDE DEF c, q, n
<1>11. /\ Len(cbs') = Len(cbs) /\ cbs'[Len(cbs)] = c
       /\ \A j \in 1..Len(cbs) : j # Len(cbs) => cbs'[j] = cbs[j]
  BY <1>2, <1>3, <1>6, <1>9, ExceptSeq
<1>12. Len(queues') = Len(queues) /\ queues'[Len(queues)] = q
  BY <1>2, <1>3, <1>8, <1>10, <1>m, ExceptSeq
<1>13. task' = c /\ items' = Tail(items) /\ queues'[Len(queues')].unfinished = u
  BY <1>8, <1>11, <1>12 DEF task, items
<1>14. cbs' # <<>>
  BY <1>3, <1>11, EmptySeq
<1>15. OneTask'
  BY <1>1, <1>2, <1>3, <1>6, <1>11, <1>12 DEF Base, OneTask, task
<1>16. Tally'
  <2>1. u = Len(items)
    BY <1>3, <1>4 DEF Base, Tally, Taken
  <2>2. Len(items) \in Nat
    BY <1>3
  <2>3. Taken' /\ Len(items') + 1 = Len(items)
    BY <1>5, <1>7, <1>13, <2>2 DEF Taken
  <2> QED BY <1>13, <2>1, <2>3 DEF Tally
<1>17. Released'
  BY <1>1, <1>2, <1>11 DEF Base, Released
<1>18. OnLink'
  BY <1>1 DEF Base, OnLink, linkVars
<1> QED BY <1>3, <1>4, <1>7, <1>13, <1>14, <1>15, <1>16, <1>17, <1>18 DEF Base

\* The task has slept, and waits for the lock.
LEMMA WakeIs ==
  ASSUME TypeOK, Base, NEW k \in 1..Len(cbs), CbWake(k)
  PROVE  /\ Base' /\ cbs # <<>> /\ cbs' # <<>>
         /\ task.pc = "sleep" /\ task.after \cap woken = {}
         /\ task'.pc = "lock" /\ task'.item = task.item /\ items' = items
<1>1. /\ cbs[k].pc = "sleep" /\ cbs[k].after \cap woken = {} /\ lockQ' = Append(lockQ, k)
      /\ cbs' = [cbs EXCEPT ![k].pc = "lock"]
      /\ UNCHANGED <<queues, cbTask, linkVars>>
  BY DEF CbWake, Acquire
<1>2. k = Len(cbs) /\ cbTask = k /\ cbs[k].q = Len(queues)
  BY <1>1 DEF Base, OneTask
<1>3. /\ Len(cbs) \in Nat /\ cbs # <<>> /\ task \in Callback /\ cbs \in Seq(Callback)
  <2>1. Len(cbs) \in Nat /\ cbs # <<>>
    BY TaskFacts
  <2> QED BY <2>1, TaskFacts DEF TypeOK, TaskType
<1> DEFINE c == [task EXCEPT !.pc = "lock"]
<1>4. c \in Callback /\ c.q = task.q
  BY <1>3, CallbackGoes
<1>5. c.pc = "lock" /\ c.item = task.item
  BY <1>3 DEF Callback
<1>6. cbs' = [cbs EXCEPT ![k] = c]
  BY <1>1, <1>2 DEF task
<1> HIDE DEF c
<1>7. /\ Len(cbs') = Len(cbs) /\ cbs'[Len(cbs)] = c
      /\ \A j \in 1..Len(cbs) : j # Len(cbs) => cbs'[j] = cbs[j]
  BY <1>2, <1>3, <1>4, <1>6, ExceptSeq
<1>8. task' = c /\ items' = items /\ cbs' # <<>>
  BY <1>1, <1>3, <1>7, EmptySeq DEF task, items
<1>9. task.pc = "sleep"
  BY <1>1, <1>2 DEF task
<1>10. OneTask'
  BY <1>1, <1>2, <1>3, <1>4, <1>7 DEF Base, OneTask, task
<1>11. Tally'
  BY <1>1, <1>3, <1>5, <1>8, <1>9 DEF Base, Tally, Taken
<1>12. Released'
  <2>1. \A y : InQ(lockQ', y) => InQ(lockQ, y) \/ y = k
    BY <1>1, <1>2, <1>3, AppendQueue DEF TypeOK, LockType
  <2> QED BY <1>2, <1>5, <1>7, <2>1 DEF Base, Released
<1>13. OnLink'
  BY <1>1 DEF Base, OnLink, linkVars
<1> QED BY <1>1, <1>2, <1>3, <1>5, <1>8, <1>9, <1>10, <1>11, <1>12, <1>13 DEF Base, task

\* The handler has run: task_done() counts its packet, and the lock is released.
LEMMA HandleIs ==
  ASSUME TypeOK, LockInv, Base, NEW k \in 1..Len(cbs), CbHandle(k)
  PROVE  /\ Base' /\ cbs # <<>> /\ cbs' # <<>> /\ k = Len(cbs)
         /\ task.pc = "lock" /\ Holds(k) /\ CallbackMultiplexer(task.item)
         /\ lockQ' = Tail(lockQ) /\ items' = items /\ task'.pc \in {"get", "dead"}
         /\ task'.pc = "dead" <=> HandlerRaises(task.item)
<1> DEFINE n == Len(queues)
           l == IF HandlerRaises(cbs[k].item) THEN "dead" ELSE "get"
           c == [cbs[k] EXCEPT !.q = n, !.pc = l]
           q == [queues[n] EXCEPT !.unfinished = @ - 1]
<1>1. /\ cbs[k].pc = "lock" /\ Holds(k) /\ CallbackMultiplexer(cbs[k].item)
      /\ UNCHANGED <<cbTask, linkVars>>
  BY DEF CbHandle
<1>2. k = Len(cbs) /\ cbTask = k /\ k = n
  BY <1>1, TaskFacts DEF Base, OneTask
<1>3. /\ Len(cbs) \in Nat /\ cbs # <<>> /\ task \in Callback /\ cbs \in Seq(Callback)
      /\ queues \in Seq(Queue) /\ queues[n] \in Queue /\ items \in Seq(Packet)
  <2>1. Len(cbs) \in Nat /\ cbs # <<>>
    BY TaskFacts
  <2> QED BY <2>1, TaskFacts DEF TypeOK, TaskType
<1>4. task.pc = "lock"
  BY <1>1, <1>2 DEF task
<1>5. Len(items) \in Nat /\ queues[n].unfinished = Len(items) + 1
  BY <1>3, <1>4 DEF Base, Tally, Taken
<1>6. queues[n].unfinished # 0
  BY <1>5
<1>7. /\ cbs' = [cbs EXCEPT ![k] = c] /\ queues' = [queues EXCEPT ![n] = q]
      /\ lockQ' = Tail(lockQ)
  BY <1>6 DEF CbHandle
<1>8. l \in {"get", "dead"} /\ (l = "dead" <=> HandlerRaises(task.item))
  BY <1>2 DEF task
<1>9. q \in Queue /\ q.items = items /\ q.unfinished = Len(items)
  BY <1>3, <1>5 DEF Queue, items
<1> HIDE DEF l
<1>10. c \in Callback /\ c.q = n /\ c.pc = l
  <2>1. cbs[k] \in Callback /\ n \in Nat \ {0}
    BY <1>2, <1>3 DEF task
  <2>2. c \in Callback /\ c.q = n
    BY <1>8, <2>1, CallbackLoops
  <2>3. c.pc = l
    BY <2>1 DEF Callback
  <2> QED BY <2>2, <2>3
<1> HIDE DEF c, q
<1>11. /\ Len(cbs') = Len(cbs) /\ cbs'[Len(cbs)] = c
       /\ \A j \in 1..Len(cbs) : j # Len(cbs) => cbs'[j] = cbs[j]
  <2>1. /\ Len(cbs') = Len(cbs)
        /\ \A j \in 1..Len(cbs) : cbs'[j] = IF j = k THEN c ELSE cbs[j]
    BY <1>3, <1>7, <1>10, ExceptSeq
  <2> QED BY <1>2, <1>3, <2>1
<1>12. Len(queues') = n /\ queues'[n] = q
  <2>1. n \in 1..Len(queues)
    BY <1>2, <1>3
  <2> QED BY <1>3, <1>7, <1>9, <2>1, ExceptSeq
<1>13. task' = c /\ items' = items /\ queues'[Len(queues')].unfinished = Len(items)
  BY <1>9, <1>11, <1>12 DEF task, items
<1>14. cbs' # <<>>
  BY <1>3, <1>11, EmptySeq
<1>15. OneTask'
  BY <1>1, <1>2, <1>3, <1>10, <1>11, <1>12 DEF Base, OneTask
<1>16. Tally'
  BY <1>5, <1>8, <1>10, <1>13 DEF Tally, Taken
<1>17. Released'
  <2> SUFFICES ASSUME NEW j \in 1..Len(cbs), InQ(Tail(lockQ), j) PROVE FALSE
    BY <1>7, <1>11 DEF Released
  <2>1. lockQ \in Seq(Callers \cup Nat) /\ lockQ # <<>> /\ Head(lockQ) = k
    BY <1>1 DEF TypeOK, LockType, Holds
  <2>2. ~InQ(Tail(lockQ), k) /\ InQ(lockQ, j)
    BY <2>1, TailQueue DEF LockInv, QueueOK
  <2> QED BY <1>2, <2>2 DEF Base, Released, OneTask
<1>18. OnLink'
  BY <1>1 DEF Base, OnLink, linkVars
<1>19. CallbackMultiplexer(task.item)
  BY <1>1, <1>2 DEF task
<1> QED BY <1>1, <1>2, <1>3, <1>4, <1>7, <1>8, <1>10, <1>13, <1>14, <1>15, <1>16,
           <1>17, <1>18, <1>19 DEF Base

\* A notification of the device is put at the end of the queue.
LEMMA NotifyIs ==
  ASSUME TypeOK, Base, cbs # <<>>, NEW p \in Packet, Notify(p),
         UNCHANGED <<cbs, cbTask, lockQ>>, OnLink'
  PROVE  Base' /\ task' = task /\ items' = Append(items, p)
<1> DEFINE n == Len(queues)
           q == [items |-> Append(queues[n].items, p),
                 unfinished |-> queues[n].unfinished + 1]
<1>1. queues' = [queues EXCEPT ![n] = q]
  BY DEF Notify
<1>2. /\ n \in 1..Len(queues) /\ queues \in Seq(Queue) /\ queues[n] \in Queue
      /\ items \in Seq(Packet)
  <2>1. n \in 1..Len(queues) /\ queues[n] \in Queue /\ items \in Seq(Packet)
    BY TaskFacts
  <2> QED BY <2>1 DEF TypeOK, TaskType
<1>3. /\ Append(items, p) \in Seq(Packet) /\ Len(Append(items, p)) = Len(items) + 1
      /\ Len(items) \in Nat
  BY <1>2, AppendProperties, LenProperties
<1>4. q \in Queue /\ q.items = Append(items, p) /\ q.unfinished = queues[n].unfinished + 1
  BY <1>2, <1>3 DEF Queue, items
<1> HIDE DEF q
<1>5. Len(queues') = n /\ queues'[n] = q
  BY <1>1, <1>2, <1>4, ExceptSeq
<1>6. task' = task /\ items' = Append(items, p)
  BY <1>4, <1>5 DEF task, items
<1>7. OneTask' /\ Released'
  BY <1>5 DEF Base, OneTask, Released
<1>8. Tally'
  <2>1. Len(items') = Len(items) + 1 /\ (Taken' <=> Taken)
    BY <1>3, <1>6 DEF Taken
  <2> QED BY <1>3, <1>4, <1>5, <1>6, <2>1 DEF Base, Tally
<1> QED BY <1>6, <1>7, <1>8 DEF Base

-----------------------------------------------------------------------------
(* Who is where.                                                           *)

\* A caller inside the handshake or disconnect() is alone there; one that sends has
\* a session.
LEMMA StageIs ==
  ASSUME Session, NEW t \in Callers, pc[t] \notin Idle \cup {"sendLock", "sendWriting"}
  PROVE  InCall(t)
<1>1. ~AllIdle /\ ~Ready
  BY DEF AllIdle, Ready, Sending
<1>2. PICK u \in Callers : InCall(u)
  BY <1>1 DEF Session, Untouched, Gone
<1>3. u = t
  BY <1>2 DEF InCall, Alone
<1> QED BY <1>2, <1>3

LEMMA SenderReady ==
  ASSUME Session, NEW t \in Callers, pc[t] \in {"sendLock", "sendWriting"}
  PROVE  Ready /\ Sending(t)
<1>1. pc[t] \notin Idle
  BY DEF Idle
<1>2. ASSUME NEW u \in Callers, InCall(u) PROVE FALSE
  <2>1. u = t
    BY <1>1, <1>2 DEF InCall, Alone
  <2>2. Stages(t)
    BY <1>2, <2>1 DEF InCall
  <2> QED BY <2>2, LabelsType
          DEF Stages, Opening, Starting, Waiting, Told, Going, Proving, Stuck, Deaf,
              Leaving, SignalWait, AfterSignal
<1>3. Ready
  BY <1>1, <1>2 DEF Session, Untouched, Gone, AllIdle
<1> QED BY <1>1, <1>3 DEF Ready

\* A caller moves, and is still alone.
LEMMA Moves ==
  ASSUME TypeOK, NEW t \in Callers, NEW l, Goto(t, l)
  PROVE  /\ pc'[t] = l /\ \A u \in Callers : u # t => pc'[u] = pc[u]
         /\ Alone(t) => Alone(t)'
BY DEF TypeOK, CallerType, Goto, Alone

\* When its task does not want the lock, nobody but a caller that is alone does.
LEMMA Claimants ==
  ASSUME TypeOK, LockInv, Base, NEW t \in Callers, Alone(t),
         cbs # <<>> => task.pc # "lock"
  PROVE  \A y : InQ(lockQ, y) => y = t /\ pc[t] \in Claims
<1> SUFFICES ASSUME NEW y, InQ(lockQ, y) PROVE y = t /\ pc[t] \in Claims
  OBVIOUS
<1>1. CASE y \in Callers
  BY <1>1, LabelsApart DEF LockInv, QueueOK, Alone
<1>2. CASE y \notin Callers
  <2>1. y \in 1..Len(cbs)
    BY <1>2 DEF LockInv, TasksOK, InQ
  <2>2. cbs[y].pc = "lock"
    BY <2>1 DEF Base, Released
  <2>3. y = Len(cbs) /\ cbs # <<>>
    BY <2>1, <2>2, TaskFacts DEF Base, OneTask
  <2> QED BY <2>2, <2>3 DEF task
<1> QED BY <1>1, <1>2

LEMMA Unclaimed ==
  ASSUME TypeOK, LockInv, Base, NEW t \in Callers, Alone(t), pc[t] \notin Claims,
         cbs # <<>> => task.pc # "lock", Acquire(t)
  PROVE  Holds(t)'
<1>1. lockQ \in Seq(Callers \cup Nat)
  BY DEF TypeOK, LockType
<1>2. lockQ = <<>>
  BY <1>1, Claimants, TailQueue
<1>3. lockQ' = <<t>>
  BY <1>2 DEF Acquire
<1> QED BY <1>3 DEF Holds

LEMMA Reclaimed ==
  ASSUME TypeOK, LockInv, Base, NEW t \in Callers, Alone(t), Holds(t),
         task.pc # "lock", lockQ' = Append(Tail(lockQ), t)
  PROVE  Holds(t)'
<1>1. lockQ \in Seq(Callers \cup Nat) /\ lockQ # <<>> /\ Head(lockQ) = t /\ Distinct(lockQ)
  BY DEF TypeOK, LockType, Holds, LockInv, QueueOK
<1>2. /\ Tail(lockQ) \in Seq(Callers \cup Nat) /\ ~InQ(Tail(lockQ), t)
      /\ \A y : InQ(Tail(lockQ), y) => InQ(lockQ, y)
  BY <1>1, TailQueue
<1>3. \A y : ~InQ(Tail(lockQ), y)
  BY <1>2, Claimants
<1> DEFINE r == Tail(lockQ)
<1>4. r \in Seq(Callers \cup Nat) /\ ~InQ(r, Head(r)) /\ lockQ' = Append(r, t)
  BY <1>2, <1>3
<1> HIDE DEF r
<1>5. r = <<>>
  BY <1>4, TailQueue
<1>6. lockQ' = <<t>>
  <2>1. lockQ' = Append(r, t)
    BY <1>4
  <2>2. Append(<<>>, t) = <<t>>
    OBVIOUS
  <2> QED BY <1>5, <2>1, <2>2, Zenon
<1> QED BY <1>6 DEF Holds

\* The head of the lock stays when a task joins.
LEMMA HeadStays ==
  ASSUME TypeOK, NEW x \in Callers \cup Nat, Acquire(x)
  PROVE  \A t \in Callers : Holds(t) => Holds(t)'
BY AppendQueue DEF TypeOK, LockType, Acquire, Holds

-----------------------------------------------------------------------------
(* The steps of the callback task and of the device.                       *)

\* Packets move on, and the callers and the link stay.
LEMMA Onward ==
  ASSUME Base, Session, UNCHANGED <<clientVars, callerVars, linkVars>>,
         cbs = <<>> <=> cbs' = <<>>, Clear => dev = "up" \/ Clear',
         AllDead => AllDead', Alive <=> Alive',
         Alive /\ Rest => Rest', \A w : Alive /\ Ahead(w) => Ahead(w)',
         \A t \in Callers : Holds(t) => Holds(t)',
         \A t \in Callers :
           /\ woken = {t}
           /\ task.pc = "get" \/ (task.pc = "sleep" /\ t \in task.after)
           => task'.pc = "get" \/ (task'.pc = "sleep" /\ t \in task'.after)
  PROVE  Session'
<1>1. UNCHANGED <<state, signal, conn, nonce, tkey, enc, pc, job, woken, air, dev, devKey>>
  BY DEF clientVars, callerVars, linkVars
<1>2. UNCHANGED <<LinkUp, Silent, AllIdle, Agreed>>
  BY <1>1 DEF LinkUp, Silent, AllIdle, Agreed
<1>3. \A w : UNCHANGED <<Settles(w), Stage(w), Owes(w), Sent(w)>>
  BY <1>1, <1>2 DEF Settles, Stage, Owes, Sent
<1>4. \A w : Heard(w) => Heard(w)'
  BY <1>1, <1>3 DEF Heard
<1>5. CASE Untouched \/ Gone
  BY <1>1, <1>2, <1>5 DEF Untouched, Gone, Session
<1>6. CASE Ready
  <2>1. \A u \in Callers : Sending(u) => Sending(u)'
    BY <1>1 DEF Sending, Alone
  <2>2. task'.pc # "dead" => Rest'
    BY <1>6 DEF Ready, Alive
  <2> QED BY <1>1, <1>2, <1>6, <2>1, <2>2 DEF Ready, Session
<1>7. ASSUME NEW t \in Callers, InCall(t) PROVE InCall(t)'
  <2>1. Alone(t)' /\ job'[t] # "send"
    BY <1>1, <1>7 DEF InCall, Alone
  <2>2. CASE Opening(t)
    <3>1. Clear'
      BY <2>2 DEF Opening, Base, OnLink
    <3>2. Opening(t)'
      BY <1>1, <1>2, <2>2, <3>1 DEF Opening
    <3> QED BY <2>1, <3>2 DEF InCall, Stages
  <2>3. CASE Starting(t) \/ Proving(t)
    <3>1. Clear'
      BY <2>3 DEF Starting, Proving
    <3>2. (Starting(t) \/ Proving(t))'
      BY <1>1, <1>2, <1>3, <2>3, <3>1 DEF Starting, Proving
    <3> QED BY <2>1, <3>2 DEF InCall, Stages
  <2>4. CASE Waiting(t)
    <3>1. PICK w \in SignalWait :
            /\ \/ pc[t] = w
               \/ pc[t] = "responding" /\ w = "ackWait" /\ Holds(t)
               \/ pc[t] = "authWriting" /\ w = "authWait" /\ Holds(t)
            /\ Settles(w) /\ state = Stage(w) /\ Alive /\ Silent
            /\ \/ Clear /\ dev = Owes(w)
               \/ Ahead(w) /\ dev = Sent(w)
      BY <2>4 DEF Waiting
    <3>2. Owes(w) # "up"
      BY DEF Owes
    <3>3. (Clear' /\ dev = Owes(w)) \/ (Ahead(w) /\ dev = Sent(w))
      BY <3>1, <3>2
    <3>4. /\ Settles(w)' /\ state' = Stage(w)' /\ Alive' /\ Silent'
          /\ (Clear' /\ dev' = Owes(w)') \/ (Ahead(w)' /\ dev' = Sent(w)')
      BY <1>1, <1>2, <1>3, <3>1, <3>3
    <3>5. \/ pc'[t] = w
          \/ pc'[t] = "responding" /\ w = "ackWait" /\ Holds(t)'
          \/ pc'[t] = "authWriting" /\ w = "authWait" /\ Holds(t)'
      BY <1>1, <3>1
    <3>6. Waiting(t)'
      BY <3>4, <3>5 DEF Waiting
    <3> QED BY <2>1, <3>6 DEF InCall, Stages
  <2>5. CASE Told(t)
    <3>1. PICK w \in SignalWait :
            /\ pc[t] = w /\ woken = {t} /\ Heard(w)
            /\ task.pc = "get" \/ (task.pc = "sleep" /\ t \in task.after)
      BY <2>5 DEF Told
    <3>2. /\ pc'[t] = w /\ woken' = {t} /\ Heard(w)'
          /\ task'.pc = "get" \/ (task'.pc = "sleep" /\ t \in task'.after)
      BY <1>1, <1>4, <3>1
    <3>3. Told(t)'
      BY <3>2 DEF Told
    <3> QED BY <2>1, <3>3 DEF InCall, Stages
  <2>6. CASE Going(t)
    <3>1. PICK w \in SignalWait :
            pc[t] = AfterSignal[w] /\ Holds(t) /\ woken = {} /\ Heard(w)
      BY <2>6 DEF Going
    <3>2. pc'[t] = AfterSignal[w] /\ Holds(t)' /\ woken' = {} /\ Heard(w)'
      BY <1>1, <1>4, <3>1
    <3>3. Going(t)'
      BY <3>2 DEF Going
    <3> QED BY <2>1, <3>3 DEF InCall, Stages
  <2>7. CASE Stuck(t)
    <3>1. Stuck(t)'
      BY <1>1, <1>2, <2>7 DEF Stuck
    <3> QED BY <2>1, <3>1 DEF InCall, Stages
  <2>8. CASE Leaving(t)
    <3>1. Leaving(t)'
      BY <1>1, <1>2, <2>8 DEF Leaving, SessionAgreed
    <3> QED BY <2>1, <3>1 DEF InCall, Stages
  <2>9. CASE Deaf(t)
    <3>1. Deaf(t)'
      BY <1>1, <1>2, <2>9 DEF Deaf, Alive
    <3> QED BY <2>1, <3>1 DEF InCall, Stages
  <2> QED BY <1>7, <2>2, <2>3, <2>4, <2>5, <2>6, <2>7, <2>8, <2>9 DEF InCall, Stages
<1> QED BY <1>5, <1>6, <1>7 DEF Session

LEMMA GetKeeps ==
  ASSUME TypeOK, Base, Session, NEW k \in 1..Len(cbs), CbGet(k)
  PROVE  Base' /\ Session'
<1>1. /\ Base' /\ cbs # <<>> /\ cbs' # <<>>
      /\ task.pc = "get" /\ items # <<>> /\ items' = Tail(items)
      /\ task'.pc = "sleep" /\ task'.after = woken /\ task'.item = Head(items)
  BY GetIs
<1>2. UNCHANGED <<clientVars, callerVars, linkVars, lockQ>>
  BY DEF CbGet
<1>3. ~Clear /\ Alive /\ Alive' /\ ~AllDead
  <2>1. Len(cbs) \in 1..Len(cbs)
    BY <1>1, TaskFacts
  <2> QED BY <1>1, <2>1 DEF Clear, Alive, AllDead, task
<1>4. /\ items \in Seq(Packet) /\ Len(items) \in Nat /\ Len(items) # 0
      /\ Head(items) = items[1] /\ Len(items') = Len(items) - 1
      /\ \A i \in 1..Len(items') : items'[i] = items[i+1]
  <2>1. items \in Seq(Packet)
    BY <1>1, TaskFacts
  <2> QED BY <1>1, <2>1, EmptySeq, HeadTailProperties
<1>5. UNCHANGED <<state, conn, dev, woken>>
  BY <1>2 DEF clientVars, callerVars, linkVars
<1>6. Rest => Rest'
  <2> SUFFICES ASSUME Rest PROVE Rest'
    OBVIOUS
  <2>1. dev = "up" /\ \A i \in 1..Len(items) : items[i].kind \in States
    BY <1>3 DEF Rest
  <2>2. \A i \in 1..Len(items') : items'[i].kind \in States
    BY <1>4, <2>1
  <2>3. task'.item.kind \in States
    BY <1>1, <1>4, <2>1
  <2> QED BY <1>5, <2>1, <2>2, <2>3 DEF Rest
<1>7. ASSUME NEW w, Ahead(w) PROVE Ahead(w)'
  <2>1. /\ Answer(Head(items), w)
        /\ \A i \in 1..Len(items') : items'[i].kind \in States
        /\ dev # "up" => items' = <<>>
    BY <1>1, <1>7 DEF Ahead, Taken
  <2>2. Answer(task.item, w)'
    BY <1>1, <1>5, <2>1 DEF Answer
  <2> QED BY <1>1, <1>5, <2>1, <2>2 DEF Ahead, Taken
<1>8. \A t \in Callers : Holds(t) => Holds(t)'
  BY <1>2 DEF Holds
<1> QED BY <1>1, <1>2, <1>3, <1>6, <1>7, <1>8, Onward

LEMMA WakeKeeps ==
  ASSUME TypeOK, Base, Session, NEW k \in 1..Len(cbs), CbWake(k)
  PROVE  Base' /\ Session'
<1>1. /\ Base' /\ cbs # <<>> /\ cbs' # <<>>
      /\ task.pc = "sleep" /\ task.after \cap woken = {}
      /\ task'.pc = "lock" /\ task'.item = task.item /\ items' = items
  BY WakeIs
<1>2. UNCHANGED <<clientVars, callerVars, linkVars>> /\ Acquire(k)
  BY DEF CbWake
<1>3. ~Clear /\ Alive /\ Alive' /\ ~AllDead
  <2>1. Len(cbs) \in 1..Len(cbs)
    BY <1>1, TaskFacts
  <2> QED BY <1>1, <2>1 DEF Clear, Alive, AllDead, task
<1>4. UNCHANGED <<state, conn, dev, woken>>
  BY <1>2 DEF clientVars, callerVars, linkVars
<1>5. Rest => Rest'
  BY <1>1, <1>3, <1>4 DEF Rest, Taken
<1>6. ASSUME NEW w, Ahead(w) PROVE Ahead(w)'
  <2>1. /\ Answer(task.item, w)
        /\ \A i \in 1..Len(items) : items[i].kind \in States
        /\ dev # "up" => items = <<>>
    BY <1>1, <1>6 DEF Ahead
  <2>2. Answer(task.item, w)'
    BY <1>1, <1>4, <2>1 DEF Answer
  <2> QED BY <1>1, <1>4, <2>1, <2>2 DEF Ahead, Taken
<1>7. \A t \in Callers : Holds(t) => Holds(t)'
  BY <1>2, HeadStays, TaskFacts DEF TypeOK
<1>8. \A t \in Callers : woken = {t} => t \notin task.after
  BY <1>1
<1> QED BY <1>1, <1>2, <1>3, <1>5, <1>6, <1>7, <1>8, Onward

\* Unit states follow whatever is on its way already.
LEMMA StateKeeps ==
  ASSUME TypeOK, Base, Session, DeviceState
  PROVE  Base' /\ Session'
<1>1. /\ dev = "up" /\ UNCHANGED <<clientVars, callerVars, linkVars, lockQ, cbs, cbTask>>
      /\ \E p : p \in Packet /\ p.kind \in States /\ Notify(p)
  <2>1. PICK kind \in {"state", "poison"} :
          Notify([kind |-> kind, key |-> devKey, n |-> sent + 1])
    BY DEF DeviceState
  <2>2. [kind |-> kind, key |-> devKey, n |-> sent + 1] \in Packet
    BY DEF Packet, TypeOK, LinkType, BoundType
  <2>3. kind \in States
    BY DEF States
  <2> QED BY <2>1, <2>2, <2>3 DEF DeviceState
<1>2. PICK p : p \in Packet /\ p.kind \in States /\ Notify(p)
  BY <1>1
<1>3. UNCHANGED <<air, dev, conn, woken>>
  BY <1>1 DEF clientVars, callerVars, linkVars
<1>4. cbs # <<>> /\ OnLink'
  <2>1. ~Untouched
    BY <1>1 DEF Untouched, Base, OnLink
  <2>2. \A t \in Callers : Stages(t) => cbs # <<>>
    BY <1>1 DEF Stages, Opening, Starting, Waiting, Told, Going, Proving, Stuck, Deaf,
                Leaving, Heard, Alive
  <2> QED BY <1>1, <1>3, <2>1, <2>2 DEF Session, Gone, Ready, InCall, Base, OnLink
<1>5. Base' /\ task' = task /\ items' = Append(items, p)
  BY <1>1, <1>2, <1>4, NotifyIs
<1>6. /\ items \in Seq(Packet) /\ Len(items') = Len(items) + 1 /\ Len(items) \in Nat
      /\ items' # <<>> /\ items'[Len(items) + 1] = p
      /\ \A i \in 1..Len(items) : items'[i] = items[i]
  <2>1. items \in Seq(Packet)
    BY <1>4, TaskFacts
  <2> QED BY <1>2, <1>5, <2>1, AppendProperties, LenProperties
<1>7. UNCHANGED <<Alive, AllDead>> /\ \A t \in Callers : Holds(t) => Holds(t)'
  BY <1>1, <1>5 DEF Alive, AllDead, Holds
<1>8. Rest => Rest'
  BY <1>1, <1>2, <1>3, <1>5, <1>6 DEF Rest, Taken
<1>9. ASSUME NEW w, Ahead(w) PROVE Ahead(w)'
  <2>1. CASE /\ Taken /\ Answer(task.item, w)
             /\ \A i \in 1..Len(items) : items[i].kind \in States
    <3>1. Answer(task.item, w)' /\ Taken'
      BY <1>3, <1>5, <2>1 DEF Answer, Taken
    <3>2. \A i \in 1..Len(items') : items'[i].kind \in States
      BY <1>2, <1>6, <2>1
    <3> QED BY <1>1, <1>3, <3>1, <3>2 DEF Ahead
  <2>2. CASE /\ task.pc = "get" /\ items # <<>> /\ Answer(Head(items), w)
             /\ \A i \in 1..Len(Tail(items)) : Tail(items)[i].kind \in States
    <3>1. /\ Head(items) = items[1] /\ Len(items) # 0 /\ Len(Tail(items)) = Len(items) - 1
          /\ \A i \in 1..Len(Tail(items)) : Tail(items)[i] = items[i+1]
      BY <1>6, <2>2, EmptySeq, HeadTailProperties
    <3>2. items' \in Seq(Packet)
      BY <1>2, <1>5, <1>6, AppendProperties
    <3>3. /\ Head(items') = items'[1] /\ Len(Tail(items')) = Len(items') - 1
          /\ \A i \in 1..Len(Tail(items')) : Tail(items')[i] = items'[i+1]
      BY <1>6, <3>2, HeadTailProperties
    <3>4. Answer(Head(items), w)' /\ task'.pc = "get"
      BY <1>3, <1>5, <1>6, <2>2, <3>1, <3>3 DEF Answer
    <3>5. \A i \in 1..Len(Tail(items')) : Tail(items')[i].kind \in States
      <4> SUFFICES ASSUME NEW i \in 1..Len(Tail(items')) PROVE items'[i+1].kind \in States
        BY <3>3
      <4>1. CASE i = Len(items)
        BY <1>2, <1>6, <4>1
      <4>2. CASE i # Len(items)
        <5>1. Len(Tail(items')) = Len(items)
          BY <1>6, <3>3
        <5>2. i \in 1..Len(items)
          BY <5>1
        <5>3. Len(Tail(items)) = Len(items) - 1 /\ Len(items) \in Nat /\ i \in Nat
          BY <1>6, <3>1, <5>2
        <5>4. i \in 1..Len(Tail(items)) /\ i + 1 \in 1..Len(items)
          BY <4>2, <5>2, <5>3
        <5> QED BY <1>6, <2>2, <3>1, <5>4
      <4> QED BY <4>1, <4>2
    <3> QED BY <1>1, <1>3, <1>6, <3>4, <3>5 DEF Ahead
  <2> QED BY <1>9, <2>1, <2>2 DEF Ahead
<1> QED BY <1>1, <1>3, <1>4, <1>5, <1>7, <1>8, <1>9, Onward

\* The answer that a caller waits for is on its way.
LEMMA ReplyKeeps ==
  ASSUME TypeOK, Base, Session, DeviceReply
  PROVE  Base' /\ Session'
<1>1. /\ dev \in {"subscribed", "keyed", "proved"} /\ dev' = Replied[dev]
      /\ UNCHANGED <<clientVars, callerVars, lockQ, cbs, cbTask, air, links, devKey>>
  BY DEF DeviceReply, Reply
<1>2. PICK kind \in {Reply[dev], "bad", "garbled"} :
        Notify([kind |-> kind, n |-> 0,
                key |-> IF kind = "hello" THEN air
                        ELSE IF kind = "auth" THEN devKey ELSE 0])
  BY DEF DeviceReply
<1> DEFINE p == [kind |-> kind, n |-> 0,
                 key |-> IF kind = "hello" THEN air
                         ELSE IF kind = "auth" THEN devKey ELSE 0]
<1>3. Reply[dev] \in {"hello", "ack", "auth"} /\ (Reply[dev] = "hello" <=> dev = "subscribed")
      /\ (Reply[dev] = "ack" <=> dev = "keyed") /\ (Reply[dev] = "auth" <=> dev = "proved")
  BY <1>1 DEF Reply
<1>4. p \in Packet /\ Notify(p)
  BY <1>2, <1>3 DEF Packet, TypeOK, LinkType
<1>5. p.kind = kind /\ (kind = "hello" => p.key = air)
  OBVIOUS
<1> HIDE DEF p
<1>6. UNCHANGED <<state, signal, conn, nonce, tkey, enc, pc, job, woken, air, devKey>>
  BY <1>1 DEF clientVars, callerVars
<1>7. air # 0 /\ OnLink'
  BY <1>1, <1>6 DEF Base, OnLink
<1>8. PICK t \in Callers : InCall(t)
  BY <1>1, <1>7 DEF Session, Untouched, Gone, Ready
<1>9. Waiting(t) \/ Leaving(t)
  <2>1. \A w : dev # Sent(w)
    BY <1>1 DEF Sent
  <2>2. ~Opening(t) /\ ~Starting(t) /\ ~Proving(t) /\ ~Stuck(t) /\ ~Deaf(t)
    BY <1>1, <1>7 DEF Opening, Starting, Proving, Stuck, Deaf
  <2>3. ~Told(t) /\ ~Going(t)
    BY <2>1 DEF Told, Going, Heard
  <2> QED BY <1>8, <2>2, <2>3 DEF InCall, Stages
<1>10. cbs # <<>>
  BY <1>9 DEF Waiting, Leaving, Alive
<1>11. Base' /\ task' = task /\ items' = Append(items, p)
  BY <1>1, <1>4, <1>7, <1>10, NotifyIs
<1>12. Alone(t)' /\ job'[t] # "send" /\ UNCHANGED <<LinkUp, Silent, Alive, AllDead>>
  BY <1>1, <1>6, <1>8, <1>11 DEF InCall, Alone, LinkUp, Silent, Alive, AllDead
<1>13. CASE Waiting(t)
  <2>1. PICK w \in SignalWait :
          /\ \/ pc[t] = w
             \/ pc[t] = "responding" /\ w = "ackWait" /\ Holds(t)
             \/ pc[t] = "authWriting" /\ w = "authWait" /\ Holds(t)
          /\ Settles(w) /\ state = Stage(w) /\ Alive /\ Silent
          /\ \/ Clear /\ dev = Owes(w)
             \/ Ahead(w) /\ dev = Sent(w)
    BY <1>13 DEF Waiting
  <2>2. Clear /\ dev = Owes(w)
    BY <1>1, <2>1 DEF Sent
  <2>3. Settles(w)' /\ state' = Stage(w)' /\ Alive' /\ Silent'
    BY <1>6, <1>12, <2>1 DEF Settles, Stage
  <2>4. dev' = Sent(w)'
    <3>1. CASE w = "helloWait"
      BY <1>1, <2>2, <3>1 DEF Owes, Sent, Replied
    <3>2. CASE w = "ackWait"
      BY <1>1, <2>2, <3>2 DEF Owes, Sent, Replied
    <3>3. CASE w = "authWait"
      BY <1>1, <2>2, <3>3 DEF Owes, Sent, Replied
    <3> QED BY <3>1, <3>2, <3>3 DEF SignalWait
  <2>5. /\ items' \in Seq(Packet) /\ items' # <<>> /\ Head(items') = p
        /\ Tail(items') = <<>> /\ Len(Tail(items')) = 0
    <3>1. items = <<>>
      BY <2>2 DEF Clear
    <3>2. Append(<<>>, p) = <<p>> /\ <<p>> # <<>> /\ Head(<<p>>) = p /\ Tail(<<p>>) = <<>>
          /\ <<p>> \in Seq(Packet) /\ Len(<<>>) = 0
      BY <1>4
    <3>3. items' = <<p>>
      BY <1>11, <3>1, <3>2, Zenon
    <3> QED BY <3>2, <3>3, Zenon
  <2>6. Answer(Head(items), w)'
    <3>1. LinkUp
      BY <2>1 DEF Settles
    <3>2. \/ kind \in {"bad", "garbled"}
          \/ kind = "hello" /\ w = "helloWait"
          \/ kind = "ack" /\ w = "ackWait"
          \/ kind = "auth" /\ w = "authWait"
      BY <1>3, <2>2 DEF Owes, SignalWait
    <3> QED BY <1>5, <1>6, <2>5, <3>1, <3>2 DEF Answer, LinkUp
  <2>7. Ahead(w)'
    <3>1. task'.pc = "get"
      BY <1>11, <2>2 DEF Clear
    <3>2. ASSUME NEW i \in 1..Len(Tail(items')) PROVE FALSE
      <4> DEFINE n == Len(Tail(items'))
      <4>1. i \in 1..n /\ n = 0
        BY <2>5
      <4> HIDE DEF n
      <4> QED BY <4>1
    <3> QED BY <2>5, <2>6, <3>1, <3>2 DEF Ahead
  <2>8. \/ pc'[t] = w
        \/ pc'[t] = "responding" /\ w = "ackWait" /\ Holds(t)'
        \/ pc'[t] = "authWriting" /\ w = "authWait" /\ Holds(t)'
    BY <1>1, <1>6, <2>1 DEF Holds
  <2>9. Waiting(t)'
    BY <2>3, <2>4, <2>7, <2>8 DEF Waiting
  <2> QED BY <1>11, <1>12, <2>9 DEF Session, InCall, Stages
<1>14. CASE Leaving(t)
  <2>1. Leaving(t)'
    BY <1>1, <1>6, <1>12, <1>14 DEF Leaving, SessionAgreed
  <2> QED BY <1>11, <1>12, <2>1 DEF Session, InCall, Stages
<1> QED BY <1>9, <1>13, <1>14

\* The handler of the packet runs: the answer that a caller waits for wakes it.
LEMMA HandleKeeps ==
  ASSUME TypeOK, LockInv, Base, Session, NEW k \in 1..Len(cbs), CbHandle(k)
  PROVE  Base' /\ Session'
<1>1. /\ Base' /\ cbs # <<>> /\ cbs' # <<>> /\ k = Len(cbs)
      /\ task.pc = "lock" /\ Holds(k) /\ CallbackMultiplexer(task.item)
      /\ lockQ' = Tail(lockQ) /\ items' = items /\ task'.pc \in {"get", "dead"}
      /\ task'.pc = "dead" <=> HandlerRaises(task.item)
  BY HandleIs
<1>2. UNCHANGED <<conn, nonce, enc, pc, job, air, dev, devKey>>
  BY DEF CbHandle, linkVars
<1>3. ~Clear /\ ~AllDead /\ \A t \in Callers : ~Holds(t)
  <2>1. k \in 1..Len(cbs) /\ k \notin Callers
    BY TaskFacts
  <2> QED BY <1>1, <2>1 DEF Clear, AllDead, task, Holds
<1>4. UNCHANGED <<LinkUp, Agreed, AllIdle>>
  BY <1>2 DEF LinkUp, Agreed, AllIdle
<1>5. CASE Ready
  <2>1. UNCHANGED <<state, signal, tkey, woken>>
    BY <1>1, <1>5 DEF Ready, CallbackMultiplexer, EstablishedNotify
  <2>2. \A u \in Callers : Sending(u) => Sending(u)'
    BY <1>2 DEF Sending, Alone
  <2>3. task'.pc # "dead" => Rest'
    BY <1>1, <1>2, <1>5 DEF Ready, Rest, Taken
  <2>4. Silent'
    BY <1>5, <2>1 DEF Ready, Silent
  <2> QED BY <1>1, <1>2, <1>4, <1>5, <2>1, <2>2, <2>3, <2>4 DEF Ready, Session
<1>6. ASSUME NEW t \in Callers, InCall(t) PROVE InCall(t)'
  <2>1. Alone(t)' /\ job'[t] # "send"
    BY <1>2, <1>6 DEF InCall, Alone
  <2>2. Waiting(t) \/ Stuck(t)
    <3>1. ~Opening(t) /\ ~Starting(t) /\ ~Proving(t) /\ ~Leaving(t) /\ ~Going(t) /\ ~Deaf(t)
      BY <1>1, <1>3 DEF Opening, Starting, Proving, Leaving, Going, Deaf
    <3>2. ~Told(t)
      BY <1>1 DEF Told
    <3> QED BY <1>6, <3>1, <3>2 DEF InCall, Stages
  <2>3. CASE Stuck(t)
    <3>1. UNCHANGED <<state, signal, tkey, woken>>
      BY <1>1, <2>3 DEF Stuck, CallbackMultiplexer
    <3>2. Rest' /\ Alive'
      BY <1>1, <1>2, <2>3 DEF Stuck, Rest, Taken, Alive, HandlerRaises
    <3>3. Stuck(t)'
      BY <1>2, <1>4, <2>3, <3>1, <3>2 DEF Stuck, Silent
    <3> QED BY <2>1, <3>3 DEF InCall, Stages
  <2>4. CASE Waiting(t)
    <3>1. PICK w \in SignalWait :
            /\ pc[t] = w /\ Settles(w) /\ state = Stage(w) /\ Silent
            /\ Ahead(w) /\ dev = Sent(w)
      BY <1>3, <2>4 DEF Waiting
    <3>2. /\ Answer(task.item, w) /\ \A i \in 1..Len(items) : items[i].kind \in States
          /\ dev # "up" => items = <<>>
      BY <1>1, <3>1 DEF Ahead
    <3>3. state # "AUTHENTICATED"
      BY <3>1 DEF Stage
    <3>h. HandlerRaises(task.item) => w # "authWait" /\ task.item.kind = "garbled"
      BY <3>1, <3>3 DEF HandlerRaises, Stage
    <3>4. task'.pc = "get" => Alive' /\ Rest'
      BY <1>1, <1>2, <3>2 DEF Alive, Rest, Taken, Clear
    <3>5. ASSUME SetSignal PROVE signal' /\ woken' = {t}
      <4>1. \A u \in Callers : pc[u] \in SignalWait <=> u = t
        BY <1>6, <3>1, LabelsApart DEF InCall, Alone
      <4> QED BY <3>1, <3>5, <4>1 DEF SetSignal, Silent
    <3>9. CASE w # "authWait" /\ task.item.kind = "garbled"
      <4>1. UNCHANGED <<state, signal, woken>> /\ task'.pc = "dead"
        BY <1>1, <3>1, <3>9 DEF CallbackMultiplexer, Stage, ExchNotify, HandlerRaises
      <4>2. dev \in {"greeted", "acked", "up"} /\ state = "CONNECTED" /\ LinkUp
        BY <3>1, <3>9 DEF Sent, Stage, Settles, SignalWait
      <4>3. Deaf(t)'
        BY <1>1, <1>2, <1>4, <3>1, <3>9, <4>1, <4>2 DEF Deaf, Silent
      <4> QED BY <2>1, <4>3 DEF InCall, Stages
    <3>6. CASE w # "authWait" /\ task.item.kind # "garbled"
      <4>0. task'.pc = "get"
        BY <1>1, <3>6, <3>h
      <4>1. ExchNotify(task.item)
        BY <1>1, <3>1, <3>6 DEF CallbackMultiplexer, Stage
      <4>2. signal' /\ woken' = {t}
        BY <3>5, <3>6, <4>1 DEF ExchNotify
      <4>3. \/ tkey' = tkey /\ w = "ackWait" /\ state' \in {state, "ERROR"}
            \/ tkey' = conn /\ w = "helloWait" /\ state' = state
            \/ w = "helloWait" /\ state' = "ERROR"
        BY <3>1, <3>2, <3>6, <4>1 DEF Answer, ExchNotify, SignalWait
      <4>4. Settles(w)' /\ (w = "helloWait" => state' = "ERROR" \/ tkey' = conn')
        BY <1>2, <1>4, <3>1, <3>6, <4>3 DEF Settles
      <4>5. state' = Stage(w)' \/ state' = "ERROR"
        BY <3>1, <4>3 DEF Stage
      <4>6. dev' = Sent(w)'
        BY <1>2, <3>1 DEF Sent
      <4>7. Heard(w)'
        BY <3>4, <3>6, <4>0, <4>2, <4>4, <4>5, <4>6 DEF Heard
      <4>8. Told(t)'
        BY <1>2, <3>1, <3>4, <4>0, <4>2, <4>7 DEF Told
      <4> QED BY <2>1, <4>8 DEF InCall, Stages
    <3>7. CASE w = "authWait" /\ Verified(task.item)
      <4>0. task'.pc = "get"
        BY <1>1, <3>7, <3>h
      <4>1. UNCHANGED <<state, tkey>> /\ signal' /\ woken' = {t}
        BY <1>1, <3>1, <3>5, <3>7 DEF CallbackMultiplexer, Stage, AuthNotify
      <4>2. Settles(w)' /\ state' = Stage(w)' /\ dev' = Sent(w)'
        BY <1>2, <1>4, <3>1, <4>1 DEF Settles, Stage, Sent
      <4>3. Heard(w)'
        BY <3>4, <3>7, <4>0, <4>1, <4>2 DEF Heard
      <4>4. Told(t)'
        BY <1>2, <3>1, <3>4, <4>0, <4>1, <4>3 DEF Told
      <4> QED BY <2>1, <4>4 DEF InCall, Stages
    <3>8. CASE w = "authWait" /\ ~Verified(task.item)
      <4>0. task'.pc = "get"
        BY <1>1, <3>8, <3>h
      <4>1. state' = "ERROR" /\ UNCHANGED <<signal, woken>>
        BY <1>1, <3>1, <3>8 DEF CallbackMultiplexer, Stage, AuthNotify
      <4>2. dev' = "up" /\ LinkUp' /\ Silent'
        BY <1>2, <1>4, <3>1, <3>8, <4>1 DEF Sent, Settles, Silent
      <4>3. Stuck(t)'
        BY <1>2, <3>1, <3>4, <3>8, <4>0, <4>1, <4>2 DEF Stuck
      <4> QED BY <2>1, <4>3 DEF InCall, Stages
    <3> QED BY <3>6, <3>7, <3>8, <3>9
  <2> QED BY <2>2, <2>3, <2>4
<1> QED BY <1>1, <1>3, <1>5, <1>6 DEF Session, Untouched, Gone

-----------------------------------------------------------------------------
(* The calls begin.                                                        *)

\* The stage a control point belongs to.
LEMMA Where ==
  ASSUME NEW t \in Callers, Stages(t)
  PROVE  /\ pc[t] \notin Idle /\ cbs # <<>>
         /\ pc[t] = "connecting" => Opening(t)
         /\ pc[t] \in {"readLock", "reading", "subscribing"} => Starting(t)
         /\ pc[t] \in {"responding", "authWriting"} => Waiting(t)
         /\ pc[t] \in {"respondLock", "deriveLock", "acceptLock"} => Going(t)
         /\ pc[t] = "authLock" => Proving(t)
         /\ pc[t] \in {"stopping", "closing"} => Leaving(t)
         /\ t \in woken => Told(t)
<1>1. CASE Opening(t)
  BY <1>1 DEF Opening, Idle, Alive, Silent
<1>2. CASE Starting(t)
  BY <1>2 DEF Starting, Idle, Alive, Silent
<1>3. CASE Waiting(t)
  BY <1>3 DEF Waiting, Idle, Alive, Silent, SignalWait
<1>4. CASE Told(t)
  BY <1>4 DEF Told, Idle, Heard, Alive, SignalWait
<1>5. CASE Going(t)
  <2>1. PICK w \in SignalWait : pc[t] = AfterSignal[w] /\ woken = {} /\ Heard(w)
    BY <1>5 DEF Going
  <2>2. pc[t] \in {"respondLock", "deriveLock", "acceptLock"}
    BY <2>1 DEF SignalWait, AfterSignal
  <2> QED BY <1>5, <2>1, <2>2 DEF Idle, Heard, Alive
<1>6. CASE Proving(t)
  BY <1>6 DEF Proving, Idle, Alive, Silent
<1>7. CASE Stuck(t)
  BY <1>7 DEF Stuck, Idle, Alive, Silent
<1>8. CASE Leaving(t)
  BY <1>8 DEF Leaving, Idle, Silent
<1>9. CASE Deaf(t)
  BY <1>9 DEF Deaf, Idle, Silent, SignalWait
<1> QED BY <1>1, <1>2, <1>3, <1>4, <1>5, <1>6, <1>7, <1>8, <1>9 DEF Stages

\* The device is there only after a connect().
LEMMA DeviceTask ==
  ASSUME Base, Session, dev # "closed"
  PROVE  cbs # <<>>
BY Where DEF Session, Untouched, Gone, Ready, InCall, Base, OnLink

LEMMA ConnectBegins ==
  ASSUME TypeOK, LockInv, Base, Session, NEW t \in Callers, BeginConnect(t)
  PROVE  Base' /\ Session'
<1>1. /\ queues = <<>> /\ OpenClient(t) /\ job' = [job EXCEPT ![t] = "connect"]
      /\ UNCHANGED <<state, signal, conn, lockQ, woken, air, dev>>
  BY DEF BeginConnect, linkVars
<1>2. cbs = <<>> /\ AllDead
  <2>1. cbs = <<>> /\ Len(cbs) = 0
    BY <1>1, TaskFacts
  <2> QED BY <2>1 DEF AllDead
<1>3. Untouched
  BY <1>2, Where DEF Session, Gone, Ready, InCall
<1>4. LockLess /\ OnLink'
  BY <1>1 DEF LockLess, Base, OnLink
<1>5. Base' /\ Alive' /\ Clear' /\ Goto(t, "connecting")
  BY <1>1, <1>2, <1>4, TaskMade
<1>6. pc'[t] = "connecting" /\ Alone(t)'
  BY <1>3, <1>5, Moves DEF Untouched, AllIdle, Alone
<1>7. job'[t] # "send"
  BY <1>1 DEF TypeOK, CallerType
<1>8. Opening(t)'
  BY <1>1, <1>3, <1>5, <1>6 DEF Opening, Untouched, Silent
<1> QED BY <1>5, <1>6, <1>7, <1>8 DEF Session, InCall, Stages

LEMMA SendBegins ==
  ASSUME TypeOK, LockInv, Base, Session, Reliable, NEW t \in Callers, BeginSend(t)
  PROVE  Base' /\ Session'
<1>1. /\ queues # <<>> /\ pc[t] \in Idle
      /\ \A u \in Callers : pc[u] \in Idle \/ job[u] = "send"
      /\ UNCHANGED <<state, signal, conn, nonce, enc, woken, air, dev, devKey>>
  BY DEF BeginSend, MayBegin, Reliable, linkVars
<1>2. Gone \/ Ready
  <2>1. ~Untouched
    BY <1>1, TaskFacts DEF Untouched
  <2>2. \A u \in Callers : ~InCall(u)
    BY <1>1, Where DEF InCall
  <2> QED BY <2>1, <2>2 DEF Session
<1>3. CASE Gone
  <2>1. OpenClient(t) /\ job' = [job EXCEPT ![t] = "retry"] /\ UNCHANGED lockQ
    BY <1>3 DEF BeginSend, Gone
  <2>2. LockLess /\ OnLink' /\ AllDead
    BY <1>1, <1>3, <2>1 DEF LockLess, Base, OnLink, Gone
  <2>3. Base' /\ Alive' /\ Clear' /\ Goto(t, "connecting")
    BY <2>1, <2>2, TaskMade
  <2>4. pc'[t] = "connecting" /\ Alone(t)'
    BY <1>3, <2>3, Moves DEF Gone, AllIdle, Alone
  <2>5. job'[t] # "send"
    BY <2>1 DEF TypeOK, CallerType
  <2>6. Opening(t)'
    BY <1>1, <1>3, <2>3, <2>4 DEF Opening, Gone, Silent
  <2> QED BY <2>3, <2>4, <2>5, <2>6 DEF Session, InCall, Stages
<1>4. CASE Ready
  <2>1. /\ Acquire(t) /\ Goto(t, "sendLock") /\ job' = [job EXCEPT ![t] = "send"]
        /\ UNCHANGED taskVars
    BY <1>4 DEF BeginSend, Ready, taskVars
  <2>2. LockLess /\ OnLink'
    BY <1>1, <2>1, LockLessIs DEF Base, OnLink
  <2>3. Base' /\ UNCHANGED <<task, items, Taken, Clear, cbs>>
    BY <2>1, <2>2, TasksStay DEF taskVars
  <2>4. /\ pc'[t] = "sendLock" /\ job'[t] = "send"
        /\ \A u \in Callers : u # t => pc'[u] = pc[u] /\ job'[u] = job[u]
    BY <2>1, Moves DEF TypeOK, CallerType
  <2>5. \A u \in Callers : pc'[u] \in Idle \/ Sending(u)'
    <3> SUFFICES ASSUME NEW u \in Callers, pc'[u] \notin Idle PROVE Sending(u)'
      OBVIOUS
    <3>1. job'[u] = "send" /\ pc'[u] \in {"sendLock", "sendWriting"}
      BY <1>1, <1>4, <2>4 DEF Ready, Sending
    <3> QED BY <3>1 DEF Sending
  <2>6. task'.pc # "dead" => Rest'
    BY <1>1, <1>4, <2>3 DEF Ready, Rest
  <2>7. Ready'
    BY <1>1, <1>4, <2>3, <2>5, <2>6 DEF Ready, LinkUp, Agreed, Silent
  <2> QED BY <2>3, <2>7 DEF Session
<1> QED BY <1>2, <1>3, <1>4

\* disconnect() that begins when the lock, without the caller, is q.
LEMMA Leaves ==
  ASSUME TypeOK, LockInv, Base, NEW t \in Callers, Alone(t), cbs # <<>>, LinkUp \/ air = 0,
         NEW q, q = lockQ \/ (Holds(t) /\ q = Tail(lockQ)), StartDisconnect(t, q),
         job'[t] # "send", Silent', SessionAgreed, UNCHANGED <<state, conn, nonce, enc, air,
         dev, devKey>>
  PROVE  Base' /\ Session'
<1>1. /\ q \in Seq(Callers \cup Nat) /\ Distinct(q)
      /\ \A y : InQ(q, y) => InQ(lockQ, y)
  <2>1. lockQ \in Seq(Callers \cup Nat) /\ Distinct(lockQ)
    BY DEF TypeOK, LockType, LockInv, QueueOK
  <2>2. CASE q = lockQ
    BY <2>1, <2>2
  <2>3. CASE lockQ # <<>> /\ q = Tail(lockQ)
    <3>1. /\ Tail(lockQ) \in Seq(Callers \cup Nat) /\ Distinct(Tail(lockQ))
          /\ \A y : InQ(Tail(lockQ), y) => InQ(lockQ, y)
      BY <2>1, <2>3, TailQueue
    <3> QED BY <2>3, <3>1
  <2> QED BY <2>2, <2>3 DEF Holds
<1>2. OnLink'
  BY DEF Base, OnLink
<1>3. Base' /\ AllDead' /\ Goto(t, "stopping") /\ cbs' # <<>>
  BY <1>1, <1>2, StopIs
<1>4. pc'[t] = "stopping" /\ Alone(t)'
  BY <1>3, Moves
<1>5. Leaving(t)'
  BY <1>3, <1>4 DEF Leaving, LinkUp, SessionAgreed
<1> QED BY <1>3, <1>4, <1>5 DEF Session, InCall, Stages

LEMMA DisconnectBegins ==
  ASSUME TypeOK, LockInv, Base, Session, Reliable, NEW t \in Callers, BeginDisconnect(t)
  PROVE  Base' /\ Session'
<1>1. /\ queues # <<>> /\ \A u \in Callers : pc[u] \in Idle
      /\ StartDisconnect(t, lockQ) /\ job' = [job EXCEPT ![t] = "disconnect"]
      /\ UNCHANGED <<state, signal, conn, nonce, enc, woken, air, dev, devKey>>
  BY DEF BeginDisconnect, MayBegin, Reliable, linkVars, clientVars
<1>2. Gone \/ Ready
  <2>1. ~Untouched
    BY <1>1, TaskFacts DEF Untouched
  <2>2. \A u \in Callers : ~InCall(u)
    BY <1>1, Where DEF InCall
  <2> QED BY <2>1, <2>2 DEF Session
<1>3. cbs # <<>> /\ (LinkUp \/ air = 0) /\ Silent' /\ SessionAgreed /\ Alone(t)
  BY <1>1, <1>2 DEF Gone, Ready, Silent, SessionAgreed, Agreed, Alone
<1>4. job'[t] # "send"
  BY <1>1 DEF TypeOK, CallerType
<1> QED BY <1>1, <1>3, <1>4, Leaves

-----------------------------------------------------------------------------
(* The handshake.                                                          *)

LEMMA ConnectedKeeps ==
  ASSUME TypeOK, LockInv, Base, Session, NEW t \in Callers, Connected(t)
  PROVE  Base' /\ Session'
<1>1. /\ pc[t] = "connecting" /\ Acquire(t) /\ Goto(t, "readLock") /\ state' = "CONNECTED"
      /\ air' = links + 1 /\ conn' = links + 1 /\ dev' = "open"
      /\ UNCHANGED <<signal, taskVars, job, woken>>
  BY DEF Connected
<1>2. Opening(t) /\ Alone(t) /\ job[t] # "send"
  BY <1>1, StageIs, Where DEF InCall, Idle
<1>3. air' # 0 /\ LinkUp'
  BY <1>1 DEF TypeOK, LinkType, LinkUp
<1>4. LockLess /\ OnLink'
  BY <1>1, <1>3, LockLessIs DEF OnLink
<1>5. Base' /\ UNCHANGED <<task, items, Alive, Clear>>
  BY <1>1, <1>4, TasksStay
<1>6. pc[t] \notin Claims /\ task.pc # "lock"
  BY <1>1, <1>2, LabelsApart DEF Opening, Clear
<1>7. Holds(t)'
  BY <1>1, <1>2, <1>6, Unclaimed
<1>8. pc'[t] = "readLock" /\ Alone(t)'
  BY <1>1, <1>2, Moves
<1>9. Starting(t)'
  BY <1>1, <1>2, <1>3, <1>5, <1>7, <1>8 DEF Starting, Opening, Silent
<1> QED BY <1>1, <1>2, <1>5, <1>8, <1>9 DEF Session, InCall, Stages

LEMMA ReadKeeps ==
  ASSUME TypeOK, LockInv, Base, Session, NEW t \in Callers, Read(t)
  PROVE  Base' /\ Session'
<1>1. /\ pc[t] = "readLock" /\ UNCHANGED <<state, signal, conn, taskVars, job, woken, air, dev>>
      /\ LinkUp => Goto(t, "reading") /\ UNCHANGED lockQ
  BY DEF Read, clientVars, linkVars
<1>2. Starting(t) /\ Alone(t) /\ job[t] # "send"
  BY <1>1, StageIs, Where DEF InCall, Idle
<1>3. Goto(t, "reading") /\ UNCHANGED lockQ
  BY <1>1, <1>2 DEF Starting
<1>4. Base' /\ UNCHANGED <<task, items, Alive, Clear>>
  BY <1>1, <1>3, TasksStay DEF LockLess, Base, OnLink
<1>5. pc'[t] = "reading" /\ Alone(t)'
  BY <1>2, <1>3, Moves
<1>6. Starting(t)'
  BY <1>1, <1>2, <1>3, <1>4, <1>5 DEF Starting, Silent, Holds, LinkUp
<1> QED BY <1>1, <1>2, <1>4, <1>5, <1>6 DEF Session, InCall, Stages

LEMMA ReadEndsKeeps ==
  ASSUME TypeOK, LockInv, Base, Session, Reliable, NEW t \in Callers, ReadEnds(t)
  PROVE  Base' /\ Session'
<1>1. /\ pc[t] = "reading"
      /\ UNCHANGED <<state, signal, conn, taskVars, job, woken, air, dev>>
  BY DEF ReadEnds, linkVars
<1>2. Starting(t) /\ Alone(t) /\ job[t] # "send"
  BY <1>1, StageIs, Where DEF InCall, Idle
<1>3. LinkUp /\ ~RadioFails
  BY <1>2 DEF Starting, RadioFails, Reliable
<1>4. nonce' = conn /\ UNCHANGED lockQ /\ Goto(t, "subscribing")
  BY <1>3 DEF ReadEnds
<1>5. Base' /\ UNCHANGED <<task, items, Alive, Clear>>
  BY <1>1, <1>4, TasksStay DEF LockLess, Base, OnLink
<1>6. pc'[t] = "subscribing" /\ Alone(t)'
  BY <1>2, <1>4, Moves
<1>7. Starting(t)'
  BY <1>1, <1>2, <1>4, <1>5, <1>6 DEF Starting, Silent, Holds, LinkUp
<1> QED BY <1>1, <1>2, <1>5, <1>6, <1>7 DEF Session, InCall, Stages

LEMMA SubscribeEndsKeeps ==
  ASSUME TypeOK, LockInv, Base, Session, Reliable, NEW t \in Callers, SubscribeEnds(t)
  PROVE  Base' /\ Session'
<1>1. /\ pc[t] = "subscribing"
      /\ UNCHANGED <<state, signal, conn, nonce, taskVars, job, woken, air>>
  BY DEF SubscribeEnds, clientVars
<1>2. Starting(t) /\ Alone(t) /\ job[t] # "send"
  BY <1>1, StageIs, Where DEF InCall, Idle
<1>3. LinkUp /\ ~RadioFails /\ ~signal
  BY <1>2 DEF Starting, Silent, RadioFails, Reliable
<1>4. /\ dev' = "subscribed" /\ lockQ' = Tail(lockQ)
      /\ Goto(t, "helloWait")
  BY <1>3 DEF SubscribeEnds, ReleaseAndWait
<1>5. LockLess /\ OnLink'
  BY <1>1, <1>2, <1>3, <1>4, LockLessIs DEF Starting, Holds, OnLink, LinkUp
<1>6. Base' /\ UNCHANGED <<task, items, Alive, Clear>>
  BY <1>1, <1>5, TasksStay
<1>7. pc'[t] = "helloWait" /\ Alone(t)'
  BY <1>2, <1>4, Moves
<1>8. Settles("helloWait")' /\ state' = Stage("helloWait")'
  BY <1>1, <1>2, <1>3, <1>4 DEF Settles, Stage, LinkUp, Starting
<1>9. Waiting(t)'
  <2>1. "helloWait" \in SignalWait /\ dev' = Owes("helloWait")'
    BY <1>4 DEF SignalWait, Owes
  <2> QED BY <1>1, <1>2, <1>6, <1>7, <1>8, <2>1 DEF Waiting, Starting, Silent
<1> QED BY <1>1, <1>2, <1>6, <1>7, <1>9 DEF Session, InCall, Stages

LEMMA ResumeKeeps ==
  ASSUME TypeOK, LockInv, Base, Session, NEW t \in Callers, Resume(t)
  PROVE  Base' /\ Session'
<1>1. /\ t \in woken /\ woken' = woken \ {t} /\ Acquire(t) /\ Goto(t, AfterSignal[pc[t]])
      /\ UNCHANGED <<clientVars, taskVars, job, linkVars>>
  BY DEF Resume
<1>2. pc[t] \in SignalWait
  BY <1>1 DEF LockInv, WokenWait
<1>3. Told(t) /\ Alone(t) /\ job[t] # "send"
  BY <1>1, <1>2, StageIs, Where DEF InCall, Idle, SignalWait
<1>4. PICK w \in SignalWait :
        /\ pc[t] = w /\ woken = {t} /\ Heard(w)
        /\ task.pc = "get" \/ (task.pc = "sleep" /\ t \in task.after)
  BY <1>3 DEF Told
<1>5. UNCHANGED <<state, signal, conn, nonce, tkey, enc, air, dev, devKey>>
  BY <1>1 DEF clientVars, linkVars
<1>6. LockLess /\ OnLink'
  BY <1>1, <1>5, LockLessIs DEF Base, OnLink
<1>7. Base' /\ UNCHANGED <<task, items, Taken, Alive, Clear>>
  BY <1>1, <1>6, TasksStay
<1>8. Holds(t)'
  BY <1>1, <1>2, <1>3, <1>4, LabelsApart, Unclaimed
<1>9. pc'[t] = AfterSignal[w] /\ Alone(t)' /\ woken' = {}
  BY <1>1, <1>3, <1>4, Moves
<1>10. Heard(w)'
  BY <1>4, <1>5, <1>7 DEF Heard, Settles, Stage, Sent, LinkUp, Rest
<1>11. Going(t)'
  BY <1>8, <1>9, <1>10 DEF Going
<1> QED BY <1>1, <1>3, <1>7, <1>9, <1>11 DEF Session, InCall, Stages

\* Where a caller that was told of its answer has got to.
LEMMA GoingIs ==
  ASSUME Session, NEW t \in Callers, NEW w \in SignalWait, pc[t] = AfterSignal[w]
  PROVE  Heard(w) /\ Holds(t) /\ woken = {} /\ Alone(t) /\ job[t] # "send" /\ cbs # <<>>
<1>1. pc[t] \in {"respondLock", "deriveLock", "acceptLock"}
  BY DEF SignalWait, AfterSignal
<1>2. Going(t) /\ Alone(t) /\ job[t] # "send" /\ cbs # <<>>
  BY <1>1, StageIs, Where DEF InCall, Idle
<1>3. PICK v \in SignalWait : pc[t] = AfterSignal[v] /\ Holds(t) /\ woken = {} /\ Heard(v)
  BY <1>2 DEF Going
<1>4. v = w
  BY <1>3 DEF SignalWait, AfterSignal
<1> QED BY <1>2, <1>3, <1>4

LEMMA RespondKeeps ==
  ASSUME TypeOK, LockInv, Base, Session, NEW t \in Callers, Respond(t)
  PROVE  Base' /\ Session'
<1>1. /\ pc[t] = "respondLock" /\ signal' = FALSE
      /\ UNCHANGED <<state, conn, nonce, tkey, enc, job, woken, air>>
  BY DEF Respond
<1>2. /\ Heard("helloWait") /\ Holds(t) /\ woken = {} /\ Alone(t) /\ job[t] # "send"
      /\ cbs # <<>>
  BY <1>1, GoingIs DEF SignalWait, AfterSignal
<1>3. LinkUp /\ nonce = conn /\ dev = "greeted" /\ Alive /\ Rest
  BY <1>2 DEF Heard, Settles, Sent
<1>4. Silent' /\ job'[t] # "send"
  BY <1>1, <1>2 DEF Silent
<1>5. CASE state = "ERROR"
  <2>1. StartDisconnect(t, Tail(lockQ)) /\ SessionAgreed /\ UNCHANGED <<dev, devKey>>
    BY <1>5 DEF Respond, SessionAgreed
  <2> QED BY <1>1, <1>2, <1>3, <1>4, <2>1, Leaves
<1>6. CASE state # "ERROR"
  <2>1. tkey = conn /\ state = "CONNECTED" /\ conn = air /\ conn # 0
    BY <1>2, <1>3, <1>6 DEF Heard, Stage, LinkUp
  <2>2. /\ dev' = "keyed" /\ devKey' = air /\ Goto(t, "responding")
        /\ UNCHANGED <<lockQ, taskVars>>
    BY <1>3, <1>6, <2>1 DEF Respond
  <2>3. OnLink' /\ LockLess
    BY <1>1, <2>1, <2>2 DEF OnLink, LockLess
  <2>4. Base' /\ UNCHANGED <<task, items, Alive, Clear>>
    BY <2>2, <2>3, TasksStay
  <2>5. pc'[t] = "responding" /\ Alone(t)'
    BY <1>2, <2>2, Moves
  <2>6. Settles("ackWait")' /\ state' = Stage("ackWait")'
    BY <1>1, <1>3, <2>1, <2>2 DEF Settles, Stage, LinkUp
  <2>7. "ackWait" \in SignalWait /\ dev' = Owes("ackWait")' /\ Holds(t)' /\ Clear'
    BY <1>2, <1>3, <2>2, <2>4 DEF SignalWait, Owes, Holds, Rest
  <2>8. Waiting(t)'
    BY <1>3, <1>4, <2>4, <2>5, <2>6, <2>7 DEF Waiting
  <2> QED BY <1>4, <2>4, <2>5, <2>8 DEF Session, InCall, Stages
<1> QED BY <1>5, <1>6

\* A write of the handshake ends, and its caller waits for the answer w.
LEMMA WriteEnds ==
  ASSUME TypeOK, LockInv, Base, Session, NEW t \in Callers, NEW w \in SignalWait,
         \/ pc[t] = "responding" /\ w = "ackWait"
         \/ pc[t] = "authWriting" /\ w = "authWait",
         LinkUp => ReleaseAndWait(t, w) /\ UNCHANGED state,
         UNCHANGED <<signal, conn, nonce, tkey, enc, taskVars, job, woken, linkVars>>
  PROVE  Base' /\ Session'
<1>1. Waiting(t) /\ Alone(t) /\ job[t] # "send"
  BY StageIs, Where DEF InCall, Idle
<1>2. /\ Settles(w) /\ state = Stage(w) /\ Alive /\ Silent /\ Holds(t)
      /\ (Clear /\ dev = Owes(w)) \/ (Ahead(w) /\ dev = Sent(w))
  <2>1. PICK v \in SignalWait :
          /\ \/ pc[t] = v
             \/ pc[t] = "responding" /\ v = "ackWait" /\ Holds(t)
             \/ pc[t] = "authWriting" /\ v = "authWait" /\ Holds(t)
          /\ Settles(v) /\ state = Stage(v) /\ Alive /\ Silent
          /\ (Clear /\ dev = Owes(v)) \/ (Ahead(v) /\ dev = Sent(v))
    BY <1>1 DEF Waiting
  <2>2. v = w /\ pc[t] # v
    BY <2>1 DEF SignalWait
  <2> QED BY <2>1, <2>2
<1>3. lockQ' = Tail(lockQ) /\ Goto(t, w) /\ lockQ # <<>> /\ state' = state
  BY <1>2 DEF Settles, Silent, ReleaseAndWait, Holds
<1>4. UNCHANGED <<state, signal, conn, nonce, tkey, enc, air, dev, devKey>>
  BY <1>3 DEF linkVars
<1>5. LockLess /\ OnLink'
  BY <1>3, <1>4, LockLessIs DEF Base, OnLink
<1>6. Base' /\ UNCHANGED <<task, items, Taken, Alive, Clear>>
  BY <1>5, TasksStay
<1>7. pc'[t] = w /\ Alone(t)'
  BY <1>1, <1>3, Moves
<1>8. Settles(w)' /\ state' = Stage(w)' /\ Owes(w)' = Owes(w) /\ Sent(w)' = Sent(w) /\ Silent'
  BY <1>2, <1>4 DEF Settles, Stage, Owes, Sent, LinkUp, Silent
<1>9. Ahead(w) => Ahead(w)'
  BY <1>4, <1>6 DEF Ahead, Answer
<1>10. Waiting(t)'
  BY <1>2, <1>4, <1>6, <1>7, <1>8, <1>9 DEF Waiting
<1> QED BY <1>1, <1>6, <1>7, <1>10 DEF Session, InCall, Stages

\* The session is up and its caller t has gone on to l.
LEMMA Establishes ==
  ASSUME NEW t \in Callers, Alone(t)', pc'[t] \in Idle \/ Sending(t)',
         state' = "AUTHENTICATED", LinkUp', Agreed', Silent', dev' = "up", cbs' # <<>>, Rest'
  PROVE  Session'
BY DEF Session, Ready, Alone, Sending

LEMMA DeriveKeeps ==
  ASSUME TypeOK, LockInv, Base, Session, NEW t \in Callers, Derive(t)
  PROVE  Base' /\ Session'
<1>1. /\ pc[t] = "deriveLock" /\ signal' = FALSE
      /\ UNCHANGED <<conn, nonce, tkey, job, woken, air, dev, devKey>>
  BY DEF Derive, linkVars
<1>2. /\ Heard("ackWait") /\ Holds(t) /\ woken = {} /\ Alone(t) /\ job[t] # "send"
      /\ cbs # <<>>
  BY <1>1, GoingIs DEF SignalWait, AfterSignal
<1>3. /\ LinkUp /\ nonce = conn /\ tkey = conn /\ devKey = conn /\ Alive /\ Rest
      /\ dev = IF HasKey THEN "acked" ELSE "up"
  BY <1>2 DEF Heard, Settles, Sent
<1>4. Silent' /\ job'[t] # "send" /\ LinkUp' /\ OnLink'
  BY <1>1, <1>2, <1>3 DEF Silent, LinkUp, Base, OnLink
<1>5. CASE state = "ERROR"
  <2>1. StartDisconnect(t, Tail(lockQ)) /\ SessionAgreed /\ UNCHANGED <<state, enc>>
    BY <1>5 DEF Derive, SessionAgreed
  <2> QED BY <1>1, <1>2, <1>3, <1>4, <2>1, Leaves
<1>6. CASE state # "ERROR" /\ HasKey
  <2>1. /\ enc' = tkey /\ state' = "KEY_EXCHANGED" /\ lockQ' = Append(Tail(lockQ), t)
        /\ Goto(t, "authLock") /\ UNCHANGED taskVars
    BY <1>6 DEF Derive
  <2>2. LockLess
    BY <1>2, <2>1, LockLessIs DEF Holds
  <2>3. Base' /\ UNCHANGED <<task, items, Alive, Clear>>
    BY <1>4, <2>1, <2>2, TasksStay
  <2>4. pc'[t] = "authLock" /\ Alone(t)'
    BY <1>2, <2>1, Moves
  <2>5. Clear
    BY <1>3, <1>6 DEF Rest
  <2>6. Holds(t)'
    BY <1>2, <2>1, <2>5, Reclaimed DEF Clear
  <2>7. Settles("authWait")'
    BY <1>1, <1>3, <1>4, <1>6, <2>1 DEF Settles
  <2>8. Proving(t)'
    BY <1>1, <1>3, <1>4, <1>6, <2>1, <2>3, <2>4, <2>5, <2>6, <2>7 DEF Proving
  <2> QED BY <1>4, <2>3, <2>4, <2>8 DEF Session, InCall, Stages
<1>7. CASE state # "ERROR" /\ ~HasKey
  <2>1. /\ enc' = tkey /\ state' = "AUTHENTICATED" /\ lockQ' = Tail(lockQ)
        /\ Goto(t, "raised") /\ UNCHANGED taskVars
    BY <1>7 DEF Derive, Raise
  <2>2. LockLess
    BY <1>2, <2>1, LockLessIs DEF Holds
  <2>3. Base' /\ UNCHANGED <<task, items, Taken, Alive, Clear, cbs>>
    BY <1>4, <2>1, <2>2, TasksStay DEF taskVars
  <2>4. pc'[t] \in Idle /\ Alone(t)'
    BY <1>2, <2>1, Moves DEF Idle
  <2>5. Agreed' /\ Rest' /\ dev' = "up"
    BY <1>1, <1>3, <1>7, <2>1, <2>3 DEF Agreed, Rest
  <2> QED BY <1>2, <1>4, <2>1, <2>3, <2>4, <2>5, Establishes
<1> QED BY <1>5, <1>6, <1>7

LEMMA AuthenticateKeeps ==
  ASSUME TypeOK, LockInv, Base, Session, NEW t \in Callers, Authenticate(t)
  PROVE  Base' /\ Session'
<1>1. /\ pc[t] = "authLock"
      /\ UNCHANGED <<signal, conn, nonce, tkey, enc, taskVars, job, woken, air, devKey>>
  BY DEF Authenticate
<1>2. Proving(t) /\ Alone(t) /\ job[t] # "send"
  BY <1>1, StageIs, Where DEF InCall, Idle
<1>3. /\ LinkUp /\ conn # 0 /\ {enc, nonce} = {devKey} /\ dev = "acked"
      /\ Settles("authWait") /\ state = "KEY_EXCHANGED" /\ Holds(t) /\ Alive /\ Clear /\ Silent
  BY <1>2 DEF Proving, Settles, LinkUp
<1>4. dev' = "proved" /\ Goto(t, "authWriting") /\ UNCHANGED <<state, lockQ>>
  BY <1>3 DEF Authenticate
<1>5. Base' /\ UNCHANGED <<task, items, Alive, Clear>>
  BY <1>1, <1>3, <1>4, TasksStay DEF LockLess, OnLink, LinkUp
<1>6. pc'[t] = "authWriting" /\ Alone(t)'
  BY <1>2, <1>4, Moves
<1>7. /\ Settles("authWait")' /\ state' = Stage("authWait")' /\ dev' = Owes("authWait")'
      /\ "authWait" \in SignalWait /\ Holds(t)' /\ Silent'
  BY <1>1, <1>3, <1>4 DEF Settles, Stage, Owes, SignalWait, Holds, LinkUp, Silent
<1>8. Waiting(t)'
  BY <1>3, <1>5, <1>6, <1>7 DEF Waiting
<1> QED BY <1>1, <1>2, <1>5, <1>6, <1>8 DEF Session, InCall, Stages

LEMMA AcceptKeeps ==
  ASSUME TypeOK, LockInv, Base, Session, NEW t \in Callers, Accept(t)
  PROVE  Base' /\ Session'
<1>1. /\ pc[t] = "acceptLock" /\ signal' = FALSE
      /\ UNCHANGED <<conn, nonce, tkey, enc, job, woken, air, dev, devKey>>
  BY DEF Accept, linkVars
<1>2. /\ Heard("authWait") /\ Holds(t) /\ woken = {} /\ Alone(t) /\ job[t] # "send"
      /\ cbs # <<>>
  BY <1>1, GoingIs DEF SignalWait, AfterSignal
<1>3. LinkUp /\ Agreed /\ Alive /\ Rest /\ dev = "up" /\ state = "KEY_EXCHANGED"
  BY <1>2 DEF Heard, Settles, Sent, Stage, Agreed
<1>4. Silent' /\ LinkUp' /\ Agreed' /\ OnLink'
  BY <1>1, <1>2, <1>3 DEF Silent, LinkUp, Agreed, Base, OnLink
<1>5. /\ state' = "AUTHENTICATED" /\ UNCHANGED taskVars
      /\ \/ job[t] = "retry" /\ lockQ' = Append(Tail(lockQ), t) /\ Goto(t, "sendLock")
         \/ lockQ' = Tail(lockQ) /\ Goto(t, "returned")
  BY <1>3 DEF Accept
<1>6. LockLess
  BY <1>2, <1>5, LockLessIs DEF Holds
<1>7. Base' /\ UNCHANGED <<task, items, Taken, Alive, Clear, cbs>>
  BY <1>4, <1>5, <1>6, TasksStay DEF taskVars
<1>8. Alone(t)' /\ (pc'[t] \in Idle \/ Sending(t)')
  <2>1. Alone(t)' /\ (pc'[t] = "returned" \/ (pc'[t] = "sendLock" /\ job'[t] = "retry"))
    BY <1>1, <1>2, <1>5, Moves
  <2> QED BY <2>1 DEF Idle, Sending
<1>9. Rest'
  BY <1>1, <1>3, <1>7 DEF Rest
<1> QED BY <1>1, <1>2, <1>3, <1>4, <1>5, <1>7, <1>8, <1>9, Establishes

-----------------------------------------------------------------------------
(* Sending and disconnecting.                                              *)

\* A caller with a session goes on to l, and nothing else changes.
LEMMA SenderMoves ==
  ASSUME TypeOK, Base, Session, NEW t \in Callers, pc[t] \in {"sendLock", "sendWriting"},
         NEW l, l = "sendWriting" \/ l \in Idle, Goto(t, l),
         UNCHANGED lockQ \/ (lockQ # <<>> /\ lockQ' = Tail(lockQ)),
         UNCHANGED <<state, signal, conn, nonce, enc, taskVars, job, woken, linkVars>>
  PROVE  Base' /\ Session'
<1>1. Ready /\ Sending(t) /\ pc[t] \notin Idle
  BY SenderReady DEF Idle
<1>2. UNCHANGED <<air, dev, devKey, cbs>>
  BY DEF linkVars, taskVars
<1>3. LockLess /\ OnLink'
  BY <1>2, LockLessIs DEF Base, OnLink
<1>4. Base' /\ UNCHANGED <<task, items, Taken, Clear>>
  BY <1>3, TasksStay
<1>5. /\ pc'[t] = l /\ \A u \in Callers : u # t => pc'[u] = pc[u]
      /\ Alone(t) => Alone(t)'
  BY Moves
<1>6. pc'[t] \in Idle \/ Sending(t)'
  BY <1>1, <1>5 DEF Sending
<1>7. ASSUME NEW u \in Callers, u # t PROVE pc'[u] \in Idle \/ Sending(u)'
  <2>1. pc[u] \in Idle \/ (Sending(u) /\ ~Alone(u))
    BY <1>1, <1>7 DEF Ready, Alone
  <2> QED BY <1>5, <1>7, <2>1 DEF Sending
<1>8. task'.pc # "dead" => Rest'
  BY <1>1, <1>2, <1>4 DEF Ready, Rest
<1>9. Ready'
  BY <1>1, <1>2, <1>4, <1>6, <1>7, <1>8 DEF Ready, LinkUp, Agreed, Silent
<1> QED BY <1>4, <1>9 DEF Session

LEMMA SendKeeps ==
  ASSUME TypeOK, LockInv, Base, Session, Reliable, NEW t \in Callers,
         Send(t) \/ SendEnds(t)
  PROVE  Base' /\ Session'
<1>1. pc[t] \in {"sendLock", "sendWriting"}
  BY DEF Send, SendEnds
<1>2. LinkUp /\ conn # 0 /\ ~RadioFails
  BY <1>1, SenderReady DEF Ready, LinkUp, RadioFails, Reliable
<1>3. CASE Send(t)
  <2>1. /\ Goto(t, "sendWriting")
        /\ UNCHANGED <<state, signal, conn, nonce, enc, lockQ, taskVars, job, woken, linkVars>>
    BY <1>2, <1>3 DEF Send
  <2> QED BY <1>1, <2>1, SenderMoves
<1>4. CASE SendEnds(t)
  <2>1. /\ Goto(t, "returned") /\ lockQ' = Tail(lockQ)
        /\ UNCHANGED <<state, signal, conn, nonce, enc, taskVars, job, woken, linkVars>>
    BY <1>2, <1>4 DEF SendEnds, WriteFails
  <2>2. Holds(t)
    BY <1>4 DEF SendEnds, LockInv, QueueOK, Writing, Holds
  <2> QED BY <1>1, <2>1, <2>2, SenderMoves DEF Idle, Holds
<1> QED BY <1>3, <1>4

LEMMA CloseLinkKeeps ==
  ASSUME TypeOK, Base, Session, NEW t \in Callers, CloseLink(t)
  PROVE  Base' /\ Session'
<1>1. /\ pc[t] = "stopping" /\ Goto(t, "closing")
      /\ IF LinkUp THEN air' = 0 /\ dev' = "closed" ELSE UNCHANGED <<air, dev>>
      /\ UNCHANGED <<state, signal, conn, lockQ, taskVars, job, woken>>
  BY DEF CloseLink, clientVars
<1>2. Leaving(t) /\ Alone(t) /\ job[t] # "send"
  BY <1>1, StageIs, Where DEF InCall, Idle
<1>3. air' = 0 /\ OnLink' /\ LockLess
  BY <1>1, <1>2 DEF Leaving, Base, OnLink, LockLess
<1>4. Base' /\ UNCHANGED <<AllDead, cbs>>
  BY <1>1, <1>3, TasksStay DEF taskVars
<1>5. pc'[t] = "closing" /\ Alone(t)'
  BY <1>1, <1>2, Moves
<1>6. Leaving(t)'
  BY <1>1, <1>2, <1>3, <1>4, <1>5 DEF Leaving, Silent, SessionAgreed, LinkUp
<1> QED BY <1>1, <1>2, <1>4, <1>5, <1>6 DEF Session, InCall, Stages

LEMMA DisconnectedKeeps ==
  ASSUME TypeOK, Base, Session, NEW t \in Callers, Disconnected(t)
  PROVE  Base' /\ Session'
<1>1. /\ pc[t] = "closing" /\ conn' = 0 /\ state' = "NONE"
      /\ \E l \in {"returned", "raised"} : Goto(t, l)
      /\ UNCHANGED <<signal, lockQ, taskVars, woken, air, dev>>
  BY DEF Disconnected, linkVars
<1>2. Leaving(t) /\ Alone(t)
  BY <1>1, StageIs, Where DEF InCall, Idle
<1>3. OnLink' /\ LockLess
  BY <1>1 DEF Base, OnLink, LockLess
<1>4. Base' /\ UNCHANGED <<AllDead, cbs>>
  BY <1>1, <1>3, TasksStay DEF taskVars
<1>5. AllIdle'
  BY <1>1, <1>2, Moves DEF AllIdle, Alone, Idle
<1>6. Gone'
  BY <1>1, <1>2, <1>4, <1>5 DEF Leaving, Gone, Silent
<1> QED BY <1>4, <1>6 DEF Session

-----------------------------------------------------------------------------
(* The invariant.                                                          *)

LEMMA SessionInit == Init => Base /\ Session
<1> SUFFICES ASSUME Init PROVE Base /\ Session
  OBVIOUS
<1>1. /\ cbs = <<>> /\ Len(cbs) = 0 /\ \A t \in Callers : pc[t] = "idle"
      /\ state = "NONE" /\ conn = 0 /\ air = 0 /\ ~signal /\ woken = {} /\ dev = "closed"
  BY DEF Init
<1>2. Base
  BY <1>1 DEF Base, OneTask, Tally, Released, OnLink
<1>3. Untouched
  BY <1>1 DEF Untouched, AllIdle, Idle, Silent
<1> QED BY <1>2, <1>3 DEF Session

LEMMA SessionNext ==
  ASSUME TypeOK, LockInv, Base, Session, Reliable, [Next]_vars
  PROVE  Base' /\ Session'
<1>1. CASE UNCHANGED vars
  <2>1. UNCHANGED <<state, signal, conn, nonce, tkey, enc, lockQ, queues, cbs, cbTask, pc, job,
                    woken, air, dev, devKey>>
    BY <1>1 DEF vars, clientVars, taskVars, callerVars, linkVars
  <2>2. LockLess /\ OnLink'
    BY <2>1 DEF LockLess, Base, OnLink
  <2>3. Base' /\ UNCHANGED <<task, items, Taken, AllDead, Alive, Clear>>
    BY <2>1, <2>2, TasksStay DEF taskVars
  <2>4. Rest => Rest'
    BY <2>1, <2>3 DEF Rest
  <2>5. ASSUME NEW w, Ahead(w) PROVE Ahead(w)'
    BY <2>1, <2>3, <2>5 DEF Ahead, Answer
  <2>6. \A t \in Callers : Holds(t) => Holds(t)'
    BY <2>1 DEF Holds
  <2>7. UNCHANGED <<clientVars, callerVars, linkVars>>
    BY <1>1 DEF vars
  <2>8. Session'
    BY <2>1, <2>3, <2>4, <2>5, <2>6, <2>7, Onward
  <2> QED BY <2>3, <2>8
<1>2. ASSUME NEW t \in Callers,
             BeginConnect(t) \/ BeginSend(t) \/ BeginDisconnect(t)
      PROVE  Base' /\ Session'
  BY <1>2, ConnectBegins, SendBegins, DisconnectBegins
<1>3. ASSUME NEW t \in Callers, Handshake(t)
      PROVE  Base' /\ Session'
  <2>1. ~ConnectFails(t)
    BY DEF ConnectFails, Reliable
  <2>2. LinkUp => ~RadioFails
    BY DEF RadioFails, Reliable
  <2>3. ASSUME ResponseEnds(t) PROVE Base' /\ Session'
    <3>1. /\ pc[t] = "responding" /\ "ackWait" \in SignalWait
          /\ LinkUp => ReleaseAndWait(t, "ackWait") /\ UNCHANGED state
          /\ UNCHANGED <<signal, conn, nonce, tkey, enc, taskVars, job, woken, linkVars>>
      BY <2>2, <2>3 DEF ResponseEnds, SignalWait, clientVars
    <3> QED BY <3>1, WriteEnds
  <2>4. ASSUME AuthEnds(t) PROVE Base' /\ Session'
    <3>1. /\ pc[t] = "authWriting" /\ "authWait" \in SignalWait
          /\ LinkUp => ReleaseAndWait(t, "authWait") /\ UNCHANGED state
          /\ UNCHANGED <<signal, conn, nonce, tkey, enc, taskVars, job, woken, linkVars>>
      BY <2>2, <2>4 DEF AuthEnds, WriteFails, SignalWait
    <3> QED BY <3>1, WriteEnds
  <2> QED BY <1>3, <2>1, <2>3, <2>4, ConnectedKeeps, ReadKeeps, ReadEndsKeeps,
             SubscribeEndsKeeps, ResumeKeeps, RespondKeeps, DeriveKeeps, AuthenticateKeeps,
             AcceptKeeps DEF Handshake
<1>4. ASSUME NEW t \in Callers,
             Send(t) \/ SendEnds(t) \/ CloseLink(t) \/ Disconnected(t)
      PROVE  Base' /\ Session'
  BY <1>4, SendKeeps, CloseLinkKeeps, DisconnectedKeeps
<1>5. \A t \in Callers : ~Cancel(t)
  BY DEF Cancel, Reliable, TypeOK, BoundType
<1>6. ~LinkDrop
  BY DEF LinkDrop, Reliable, TypeOK, BoundType
<1>7. ASSUME NEW k \in 1..Len(cbs), CallbackStep(k)
      PROVE  Base' /\ Session'
  BY <1>7, GetKeeps, WakeKeeps, HandleKeeps DEF CallbackStep
<1>8. ASSUME DeviceReply \/ DeviceState
      PROVE  Base' /\ Session'
  BY <1>8, ReplyKeeps, StateKeeps
<1> QED BY <1>1, <1>2, <1>3, <1>4, <1>5, <1>6, <1>7, <1>8 DEF Next, CallerStep

\* No invariant of the session is inductive without the others, nor without the
\* place in the handshake of the caller, the device and the packet between them.
LEMMA SessionInvariance ==
  ASSUME Reliable
  PROVE  Spec => [](TypeOK /\ LockInv /\ Base /\ Session)
<1>1. Init => Base /\ Session
  BY SessionInit
<1>2. TypeOK /\ LockInv /\ Base /\ Session /\ [Next]_vars => (Base /\ Session)'
  BY SessionNext
<1> QED BY <1>1, <1>2, Invariance, PTL DEF Spec

\* Whatever the device answers, a callback task never ends, by itself or cancelled,
\* with the lock.
THEOREM LockGivenBack ==
  ASSUME Reliable
  PROVE  Spec => []LockReleased
<1>1. TypeOK /\ Base => LockReleased
  <2> SUFFICES ASSUME TypeOK, Base, NEW k \in 1..Len(cbs), Holds(k), cbs[k].pc = "dead"
               PROVE  FALSE
    BY DEF LockReleased
  <2>1. InQ(lockQ, k)
    BY TailQueue DEF TypeOK, LockType, Holds
  <2> QED BY <2>1 DEF Base, Released
<1> QED BY <1>1, SessionInvariance, PTL

\* Every packet of the handshake and every unit state is handled by the handler it
\* is for: _exchNotifyCallback, _authNotifyCallback or _establishedNotifyCallback.
THEOREM PacketsMeetTheirHandler ==
  ASSUME Reliable
  PROVE  Spec => []RightHandler
<1>1. TypeOK /\ Base /\ Session => RightHandler
  <2> SUFFICES ASSUME TypeOK, Base, Session, NEW k \in 1..Len(cbs), cbs[k].pc = "lock",
                      Holds(k)
               PROVE  /\ state = "AUTHENTICATED" => cbs[k].item.kind \in {"state", "poison"}
                      /\ state \in {"CONNECTED", "KEY_EXCHANGED"} =>
                           \A t \in Callers : pc[t] \in SignalWait =>
                             cbs[k].item.kind \in {Expected[pc[t]], "bad", "garbled"}
    BY DEF RightHandler
  <2>1. /\ cbs[k] = task /\ task.pc = "lock" /\ ~AllDead /\ cbs # <<>> /\ Len(cbs) \in Nat
        /\ \A t \in Callers : ~Holds(t)
    BY TaskFacts DEF Base, OneTask, task, AllDead, Holds
  <2>2. CASE Ready
    BY <2>1, <2>2, LabelsApart DEF Ready, Rest, Taken, States, Sending, SignalWait
  <2>3. ASSUME NEW u \in Callers, InCall(u)
        PROVE  /\ state # "AUTHENTICATED"
               /\ state \in {"CONNECTED", "KEY_EXCHANGED"} =>
                    \A t \in Callers : pc[t] \in SignalWait =>
                      task.item.kind \in {Expected[pc[t]], "bad", "garbled"}
    <3>1. Waiting(u) \/ Stuck(u)
      <4>1. /\ ~Opening(u) /\ ~Starting(u) /\ ~Proving(u) /\ ~Leaving(u)
            /\ ~Going(u) /\ ~Deaf(u)
        BY <2>1 DEF Opening, Starting, Proving, Leaving, Going, Deaf, Clear
      <4>2. ~Told(u)
        BY <2>1 DEF Told
      <4> QED BY <2>3, <4>1, <4>2 DEF InCall, Stages
    <3>2. CASE Stuck(u)
      BY <3>2 DEF Stuck
    <3>3. CASE Waiting(u)
      <4>1. PICK w \in SignalWait : pc[u] = w /\ state = Stage(w) /\ Ahead(w)
        BY <2>1, <3>3 DEF Waiting, Clear
      <4>2. task.item.kind \in {Expected[w], "bad", "garbled"}
        BY <2>1, <4>1 DEF Ahead, Answer, Expected
      <4>3. \A t \in Callers : pc[t] \in SignalWait => t = u
        BY <2>3, LabelsApart DEF InCall, Alone
      <4> QED BY <4>1, <4>2, <4>3 DEF Stage
    <3> QED BY <3>1, <3>2, <3>3
  <2> QED BY <2>1, <2>2, <2>3 DEF Session, Untouched, Gone
<1> QED BY <1>1, SessionInvariance, PTL

\* exchangeKey() responds to the hello of the link it responds on.
THEOREM RespondsToItsHello ==
  ASSUME Reliable
  PROVE  Spec => []RespondsToThisHello
<1>1. Session => RespondsToThisHello
  <2> SUFFICES ASSUME Session, NEW t \in Callers, pc[t] = "respondLock", state # "ERROR"
               PROVE  tkey = conn
    BY DEF RespondsToThisHello
  <2>1. Heard("helloWait")
    BY GoingIs DEF SignalWait, AfterSignal
  <2> QED BY <2>1 DEF Heard
<1> QED BY <1>1, SessionInvariance, PTL

\* An authenticated client and its device hold the same key and nonce, those of the
\* link that is up.
THEOREM EndsAgree ==
  ASSUME Reliable
  PROVE  Spec => []SessionAgreed
<1>1. Session => SessionAgreed
  <2> SUFFICES ASSUME Session, state = "AUTHENTICATED" PROVE SessionAgreed
    BY DEF SessionAgreed
  <2>1. CASE Ready
    BY <2>1 DEF Ready, Agreed, SessionAgreed
  <2>2. ASSUME NEW t \in Callers, InCall(t) PROVE SessionAgreed
    BY <2>2 DEF InCall, Stages, Opening, Starting, Waiting, Told, Going, Proving, Stuck,
                Deaf, Leaving, Heard, Stage
  <2> QED BY <2>1, <2>2 DEF Session, Untouched, Gone
<1> QED BY <1>1, SessionInvariance, PTL

\* When every call has ended the channel is authenticated or there is none: no call
\* leaves a half-open one.
THEOREM NothingHalfOpen ==
  ASSUME Reliable
  PROVE  Spec => []WholeOrGone
<1>1. TypeOK /\ Session => WholeOrGone
  <2> SUFFICES ASSUME TypeOK, Session, AllIdle PROVE WholeOrGone
    BY DEF WholeOrGone, AllIdle
  <2>1. CASE Untouched
    BY <2>1, TaskFacts DEF Untouched, WholeOrGone
  <2>2. CASE Gone \/ Ready
    BY <2>2 DEF Gone, Ready, WholeOrGone
  <2>3. \A t \in Callers : ~InCall(t)
    BY Where DEF InCall, AllIdle
  <2> QED BY <2>1, <2>2, <2>3 DEF Session
<1> QED BY <1>1, SessionInvariance, PTL

-----------------------------------------------------------------------------
(* The order of the unit states.                                           *)

\* A unit state that is on its way is newer than those delivered and older than
\* those behind it.
Newer(p) ==
  p.kind = "state" =>
    p.n <= sent /\ \A i \in 1..Len(delivered) : delivered[i] < p.n
Older(p, q) == p.kind = "state" /\ q.kind = "state" => p.n < q.n

Numbered ==
  /\ InOrder /\ \A i \in 1..Len(delivered) : delivered[i] <= sent
  /\ Alive =>
       /\ \A j \in 1..Len(items) : Newer(items[j])
       /\ \A i, j \in 1..Len(items) : i < j => Older(items[i], items[j])
       /\ Taken => /\ Newer(task.item)
                   /\ \A j \in 1..Len(items) : Older(task.item, items[j])

\* A step that delivers nothing, and leaves the tasks alone, starts one with nothing
\* on its way or ends the last one.
LEMMA NumberedStays ==
  ASSUME Numbered, UNCHANGED <<delivered, sent>>,
         UNCHANGED taskVars \/ (Clear' /\ Alive') \/ ~Alive'
  PROVE  Numbered'
<1>1. InOrder' /\ \A i \in 1..Len(delivered') : delivered'[i] <= sent'
  BY DEF Numbered, InOrder
<1>2. CASE UNCHANGED taskVars
  <2>1. UNCHANGED <<task, items, Taken, Alive>>
    BY <1>2 DEF taskVars, task, items, Taken, Alive
  <2>2. \A p : Newer(p) => Newer(p)'
    BY DEF Newer
  <2>3. ASSUME Alive
        PROVE  /\ \A j \in 1..Len(items) : Newer(items[j])
               /\ \A i, j \in 1..Len(items) : i < j => Older(items[i], items[j])
               /\ Taken => /\ Newer(task.item)
                           /\ \A j \in 1..Len(items) : Older(task.item, items[j])
    BY <2>3 DEF Numbered
  <2> QED BY <1>1, <2>1, <2>2, <2>3 DEF Numbered, Newer, Older
<1>3. CASE Clear' /\ Alive'
  <2>1. task'.pc = "get" /\ items' = <<>>
    BY <1>3 DEF Clear
  <2> QED BY <1>1, <2>1 DEF Numbered, Taken
<1>4. CASE ~Alive'
  BY <1>1, <1>4 DEF Numbered
<1> QED BY <1>2, <1>3, <1>4

LEMMA NumberedGet ==
  ASSUME TypeOK, Base, Numbered, NEW k \in 1..Len(cbs), CbGet(k)
  PROVE  Numbered'
<1>1. /\ cbs # <<>> /\ items # <<>> /\ items' = Tail(items) /\ task.pc = "get"
      /\ task'.item = Head(items) /\ UNCHANGED <<delivered, sent>>
  BY GetIs DEF CbGet, historyVars, boundVars
<1>2. /\ Len(items) \in Nat /\ Len(items) # 0 /\ Head(items) = items[1]
      /\ Len(items') = Len(items) - 1
      /\ \A i \in 1..Len(items') : items'[i] = items[i+1]
  <2>1. items \in Seq(Packet)
    BY <1>1, TaskFacts
  <2> QED BY <1>1, <2>1, EmptySeq, HeadTailProperties
<1>3. /\ InOrder /\ \A i \in 1..Len(delivered) : delivered[i] <= sent
      /\ \A j \in 1..Len(items) : Newer(items[j])
      /\ \A i, j \in 1..Len(items) : i < j => Older(items[i], items[j])
  BY <1>1 DEF Numbered, Alive
<1>4. InOrder' /\ \A i \in 1..Len(delivered') : delivered'[i] <= sent'
  BY <1>1, <1>3 DEF InOrder
<1>5. \A j \in 1..Len(items') : j + 1 \in 1..Len(items) /\ 1 < j + 1
  BY <1>2
<1>6. \A p : Newer(p) => Newer(p)'
  BY <1>1 DEF Newer
<1>7. ASSUME NEW j \in 1..Len(items') PROVE Newer(items[j])' /\ Older(task.item, items[j])'
  <2>1. Newer(items[j+1]) /\ Older(items[1], items[j+1])
    BY <1>2, <1>3, <1>5
  <2> QED BY <1>1, <1>2, <2>1 DEF Newer, Older
<1>8. ASSUME NEW i \in 1..Len(items'), NEW j \in 1..Len(items'), i < j
      PROVE  Older(items[i], items[j])'
  <2>1. i + 1 < j + 1
    BY <1>2, <1>8
  <2>2. Older(items[i+1], items[j+1])
    BY <1>3, <1>5, <2>1
  <2> QED BY <1>2, <2>2 DEF Older
<1>9. Newer(task.item)'
  <2>1. Newer(items[1])
    BY <1>2, <1>3
  <2> QED BY <1>1, <1>2, <2>1 DEF Newer
<1> QED BY <1>4, <1>7, <1>8, <1>9 DEF Numbered

LEMMA NumberedWake ==
  ASSUME TypeOK, Base, Numbered, NEW k \in 1..Len(cbs), CbWake(k)
  PROVE  Numbered'
<1>1. /\ cbs # <<>> /\ task.pc = "sleep" /\ items' = items /\ task'.item = task.item
      /\ UNCHANGED <<delivered, sent>>
  BY WakeIs DEF CbWake, historyVars, boundVars
<1>2. /\ InOrder /\ \A i \in 1..Len(delivered) : delivered[i] <= sent
      /\ \A j \in 1..Len(items) : Newer(items[j])
      /\ \A i, j \in 1..Len(items) : i < j => Older(items[i], items[j])
      /\ Newer(task.item) /\ \A j \in 1..Len(items) : Older(task.item, items[j])
  BY <1>1 DEF Numbered, Alive, Taken
<1> QED BY <1>1, <1>2 DEF Numbered, InOrder, Newer, Older

\* The one step that delivers a unit state: it is older than those left.
LEMMA NumberedHandle ==
  ASSUME TypeOK, LockInv, Base, Numbered, NEW k \in 1..Len(cbs), CbHandle(k)
  PROVE  Numbered'
<1> DEFINE n == task.item.n
<1>1. /\ cbs # <<>> /\ task.pc = "lock" /\ items' = items /\ task'.pc \in {"get", "dead"}
      /\ sent' = sent /\ CallbackMultiplexer(task.item)
  BY HandleIs DEF CbHandle, boundVars
<1>2. /\ InOrder /\ \A i \in 1..Len(delivered) : delivered[i] <= sent
      /\ \A j \in 1..Len(items) : Newer(items[j])
      /\ \A i, j \in 1..Len(items) : i < j => Older(items[i], items[j])
      /\ Newer(task.item) /\ \A j \in 1..Len(items) : Older(task.item, items[j])
  BY <1>1 DEF Numbered, Alive, Taken
<1>3. /\ n \in Nat /\ delivered \in Seq(Nat) /\ sent \in Nat /\ Len(delivered) \in Nat
      /\ items \in Seq(Packet)
  <2>1. task \in Callback /\ items \in Seq(Packet)
    BY <1>1, TaskFacts
  <2> QED BY <2>1, LenProperties DEF Callback, Packet, TypeOK, HistoryType, BoundType
<1>4. \A i, j \in 1..Len(items) : i < j => Older(items[i], items[j])'
  BY <1>1, <1>2 DEF Older
<1>5. ~Taken'
  BY <1>1 DEF Taken
<1>6. CASE delivered' = delivered
  <2>1. \A j \in 1..Len(items) : Newer(items[j])'
    BY <1>1, <1>2, <1>6 DEF Newer
  <2> QED BY <1>1, <1>2, <1>4, <1>5, <1>6, <2>1 DEF Numbered, InOrder
<1>7. CASE delivered' = Append(delivered, n) /\ task.item.kind = "state"
  <2>1. n <= sent /\ \A i \in 1..Len(delivered) : delivered[i] < n
    BY <1>2, <1>7 DEF Newer
  <2>2. /\ Len(delivered') = Len(delivered) + 1 /\ delivered'[Len(delivered) + 1] = n
        /\ \A i \in 1..Len(delivered) : delivered'[i] = delivered[i]
    BY <1>3, <1>7, AppendProperties
  <2>3. \A i \in 1..Len(delivered') : i = Len(delivered) + 1 \/ i \in 1..Len(delivered)
    BY <1>3, <2>2
  <2>4. InOrder'
    <3> SUFFICES ASSUME NEW i \in 1..Len(delivered'), NEW j \in 1..Len(delivered'), i < j
                 PROVE  delivered'[i] < delivered'[j]
      BY DEF InOrder
    <3>1. i \in 1..Len(delivered)
      BY <1>3, <2>2
    <3> QED BY <1>2, <2>1, <2>2, <2>3, <3>1 DEF InOrder
  <2>5. \A i \in 1..Len(delivered') : delivered'[i] <= sent'
    BY <1>1, <1>2, <2>1, <2>2, <2>3
  <2>6. ASSUME NEW j \in 1..Len(items), items[j].kind = "state"
        PROVE  items[j].n <= sent /\ \A i \in 1..Len(delivered') : delivered'[i] < items[j].n
    <3>1. /\ items[j].n <= sent /\ n < items[j].n
          /\ \A i \in 1..Len(delivered) : delivered[i] < items[j].n
      BY <1>2, <1>7, <2>6 DEF Newer, Older
    <3> QED BY <2>2, <2>3, <3>1
  <2>7. \A j \in 1..Len(items) : Newer(items[j])'
    BY <1>1, <2>6 DEF Newer
  <2> QED BY <1>1, <1>4, <1>5, <2>4, <2>5, <2>7 DEF Numbered
<1>8. \/ delivered' = delivered
      \/ delivered' = Append(delivered, n) /\ task.item.kind = "state"
  BY <1>1 DEF CallbackMultiplexer, ExchNotify, AuthNotify, EstablishedNotify
<1> QED BY <1>6, <1>7, <1>8

\* The device numbers its unit states.
LEMMA NumberedNotify ==
  ASSUME TypeOK, Base, Numbered, cbs # <<>>, NEW p \in Packet, Notify(p),
         UNCHANGED <<cbs, cbTask, lockQ, delivered>>, OnLink', sent' \in Nat, sent <= sent',
         p.kind = "state" => p.n = sent + 1 /\ sent' = sent + 1
  PROVE  Numbered'
<1>1. task' = task /\ items' = Append(items, p)
  BY NotifyIs
<1>2. /\ items \in Seq(Packet) /\ Len(items) \in Nat /\ Len(items') = Len(items) + 1
      /\ items'[Len(items) + 1] = p /\ \A i \in 1..Len(items) : items'[i] = items[i]
      /\ sent \in Nat /\ task \in Callback
  <2>1. items \in Seq(Packet) /\ task \in Callback
    BY TaskFacts
  <2> QED BY <1>1, <2>1, AppendProperties, LenProperties DEF TypeOK, BoundType
<1>3. /\ \A i \in 1..Len(delivered) : delivered[i] \in Nat /\ delivered[i] <= sent
      /\ \A j \in 1..Len(items) : items[j].n \in Nat
      /\ task.item.n \in Nat
  <2>1. delivered \in Seq(Nat)
    BY DEF TypeOK, HistoryType
  <2>2. \A i \in 1..Len(delivered) : delivered[i] \in Nat
    BY <2>1, ElementOfSeq
  <2>3. \A j \in 1..Len(items) : items[j] \in Packet
    BY <1>2, ElementOfSeq
  <2>4. task.item \in Packet
    BY <1>2 DEF Callback
  <2> QED BY <2>2, <2>3, <2>4 DEF Numbered, Packet
<1>4. InOrder' /\ \A i \in 1..Len(delivered') : delivered'[i] <= sent'
  BY <1>2, <1>3 DEF Numbered, InOrder
<1>5. (Alive' <=> Alive) /\ (Taken' <=> Taken)
  BY <1>1 DEF Alive, Taken
<1>6. CASE ~Alive
  BY <1>4, <1>5, <1>6 DEF Numbered
<1>7. CASE Alive
  <2>1. /\ \A j \in 1..Len(items) : Newer(items[j])
        /\ \A i, j \in 1..Len(items) : i < j => Older(items[i], items[j])
        /\ Taken => /\ Newer(task.item)
                    /\ \A j \in 1..Len(items) : Older(task.item, items[j])
    BY <1>7 DEF Numbered
  <2>2. \A j \in 1..Len(items') : j = Len(items) + 1 \/ j \in 1..Len(items)
    BY <1>2
  <2>3. \A j \in 1..Len(items) : Newer(items[j])' /\ Older(items[j], p)
    <3> SUFFICES ASSUME NEW j \in 1..Len(items), items[j].kind = "state"
                 PROVE  /\ items[j].n <= sent'
                        /\ \A i \in 1..Len(delivered) : delivered[i] < items[j].n
                        /\ p.kind = "state" => items[j].n < p.n
      BY <1>2 DEF Newer, Older
    <3> QED BY <1>2, <1>3, <2>1 DEF Newer
  <2>4. p.kind = "state" => p.n <= sent' /\ \A i \in 1..Len(delivered) : delivered[i] < p.n
    BY <1>2, <1>3
  <2>5. \A j \in 1..Len(items') : Newer(items[j])'
    BY <1>2, <2>2, <2>3, <2>4 DEF Newer
  <2>6. ASSUME NEW i \in 1..Len(items'), NEW j \in 1..Len(items'), i < j
        PROVE  Older(items[i], items[j])'
    <3>1. i \in 1..Len(items)
      BY <1>2, <2>6
    <3> QED BY <1>2, <2>1, <2>2, <2>3, <2>6, <3>1 DEF Older
  <2>7. ASSUME Taken
        PROVE  /\ Newer(task.item)' /\ Older(task.item, p)
               /\ \A j \in 1..Len(items') : Older(task.item, items[j])'
    <3>1. Newer(task.item) /\ \A j \in 1..Len(items) : Older(task.item, items[j])
      BY <2>1, <2>7
    <3>2. task.item.kind = "state" => task.item.n <= sent'
      BY <1>2, <1>3, <3>1 DEF Newer
    <3>3. Newer(task.item)'
      BY <1>1, <3>1, <3>2 DEF Newer
    <3>4. Older(task.item, p)
      BY <1>2, <1>3, <3>1 DEF Newer, Older
    <3> QED BY <1>1, <1>2, <2>2, <3>1, <3>3, <3>4 DEF Older
  <2> QED BY <1>4, <1>5, <2>5, <2>6, <2>7 DEF Numbered
<1> QED BY <1>6, <1>7

\* disconnect() leaves no task that lives.
LEMMA Ended ==
  ASSUME TypeOK, Base, NEW t \in Callers, NEW q, StartDisconnect(t, q)
  PROVE  ~Alive'
<1>1. CASE cbTask # 0 /\ cbs[cbTask].pc # "dead"
  <2> DEFINE c == [cbs[cbTask] EXCEPT !.pc = "dead"]
  <2>1. cbTask \in 1..Len(cbs) /\ cbs \in Seq(Callback) /\ Len(cbs) \in Nat
    BY <1>1, LenProperties DEF TypeOK, TaskType
  <2>2. cbTask = Len(cbs)
    BY <1>1, <2>1 DEF Base, OneTask
  <2>6. cbs[cbTask] \in Callback
    BY <2>1, ElementOfSeq
  <2>3. c \in Callback /\ c.pc = "dead"
    BY <2>6 DEF Callback
  <2>4. cbs' = [cbs EXCEPT ![cbTask] = c]
    BY <1>1 DEF StartDisconnect
  <2> HIDE DEF c
  <2>5. Len(cbs') = Len(cbs) /\ cbs'[cbTask] = c
    BY <2>1, <2>3, <2>4, ExceptSeq
  <2> QED BY <2>2, <2>3, <2>5 DEF Alive, task
<1>2. CASE ~(cbTask # 0 /\ cbs[cbTask].pc # "dead")
  <2>1. cbs' = cbs
    BY <1>2 DEF StartDisconnect
  <2>2. Alive => Len(cbs) \in 1..Len(cbs) /\ Len(cbs) # 0
    BY TaskFacts DEF Alive
  <2>3. ~Alive
    BY <1>2, <2>2 DEF Base, OneTask, Alive, task
  <2> QED BY <2>1, <2>3 DEF Alive, task
<1> QED BY <1>1, <1>2

LEMMA NumberedNext ==
  ASSUME TypeOK, LockInv, Base, Session, Reliable, Numbered, [Next]_vars
  PROVE  Numbered'
<1> USE DEF historyVars, boundVars
<1>o. ASSUME NEW t \in Callers, OpenClient(t) PROVE Clear' /\ Alive'
  BY <1>o, Opened
<1>1. CASE UNCHANGED vars
  BY <1>1, NumberedStays DEF vars
<1>2. ASSUME NEW t \in Callers,
             \/ BeginConnect(t) \/ BeginSend(t) \/ BeginDisconnect(t) \/ Handshake(t)
             \/ CloseLink(t) \/ Disconnected(t) \/ Cancel(t)
      PROVE  Numbered'
  <2>1. UNCHANGED <<delivered, sent>>
    BY <1>2 DEF BeginConnect, BeginSend, BeginDisconnect, Handshake, CloseLink, Disconnected,
                Cancel, Connected, ConnectFails, Read, ReadEnds, SubscribeEnds, Resume, Respond,
                ResponseEnds, Derive, Authenticate, AuthEnds, Accept
  <2>2. UNCHANGED taskVars \/ OpenClient(t) \/ \E q : StartDisconnect(t, q)
    BY <1>2 DEF BeginConnect, BeginSend, BeginDisconnect, Handshake, CloseLink, Disconnected,
                Cancel, Connected, ConnectFails, Read, ReadEnds, SubscribeEnds, Resume, Respond,
                ResponseEnds, Derive, Authenticate, AuthEnds, Accept, taskVars
  <2> QED BY <1>o, <2>1, <2>2, Ended, NumberedStays
<1>3. ASSUME NEW t \in Callers, Send(t) \/ SendEnds(t)
      PROVE  Numbered'
  <2>1. UNCHANGED <<delivered, sent>> /\ (UNCHANGED taskVars \/ OpenClient(t))
    BY <1>3 DEF Send, SendEnds, taskVars
  <2> QED BY <1>o, <2>1, NumberedStays
<1>4. ASSUME NEW k \in 1..Len(cbs), CallbackStep(k)
      PROVE  Numbered'
  BY <1>4, NumberedGet, NumberedWake, NumberedHandle DEF CallbackStep
<1>5. ASSUME DeviceReply PROVE Numbered'
  <2>1. dev \in {"subscribed", "keyed", "proved"} /\ Reply[dev] \in {"hello", "ack", "auth"}
    BY <1>5 DEF DeviceReply, Reply
  <2>2. PICK kind \in {Reply[dev], "bad", "garbled"} :
          Notify([kind |-> kind, n |-> 0,
                  key |-> IF kind = "hello" THEN air
                          ELSE IF kind = "auth" THEN devKey ELSE 0])
    BY <1>5 DEF DeviceReply
  <2> DEFINE p == [kind |-> kind, n |-> 0,
                   key |-> IF kind = "hello" THEN air
                           ELSE IF kind = "auth" THEN devKey ELSE 0]
  <2>3. p \in Packet /\ p.kind # "state" /\ Notify(p)
    BY <2>1, <2>2 DEF Packet, TypeOK, LinkType
  <2> HIDE DEF p
  <2>4. cbs # <<>> /\ OnLink'
    BY <1>5, <2>1, DeviceTask, ReplyKeeps DEF Base
  <2>5. UNCHANGED <<cbs, cbTask, lockQ, delivered>> /\ sent' = sent /\ sent \in Nat
    BY <1>5 DEF DeviceReply, TypeOK, BoundType
  <2> QED BY <2>3, <2>4, <2>5, NumberedNotify
<1>6. ASSUME DeviceState PROVE Numbered'
  <2>1. PICK kind \in {"state", "poison"} :
          Notify([kind |-> kind, key |-> devKey, n |-> sent + 1])
    BY <1>6 DEF DeviceState
  <2> DEFINE p == [kind |-> kind, key |-> devKey, n |-> sent + 1]
  <2>2. p \in Packet /\ p.n = sent + 1 /\ Notify(p)
    BY <2>1 DEF Packet, TypeOK, LinkType, BoundType
  <2> HIDE DEF p
  <2>3. cbs # <<>> /\ OnLink'
    <3>1. dev # "closed"
      BY <1>6 DEF DeviceState
    <3> QED BY <1>6, <3>1, DeviceTask, StateKeeps DEF Base
  <2>4. /\ UNCHANGED <<cbs, cbTask, lockQ, delivered>>
        /\ sent \in Nat /\ sent' = sent + 1 /\ sent' \in Nat /\ sent <= sent'
    BY <1>6 DEF DeviceState, TypeOK, BoundType
  <2> QED BY <2>2, <2>3, <2>4, NumberedNotify
<1>7. ~LinkDrop
  BY DEF LinkDrop, Reliable, TypeOK, BoundType
<1> QED BY <1>1, <1>2, <1>3, <1>4, <1>5, <1>6, <1>7 DEF Next, CallerStep

\* Whatever is sent and however the callback task sleeps and waits, the data callback
\* gets the unit states in the order the device sent them, over all the connections
\* of a client.
THEOREM StatesInOrder ==
  ASSUME Reliable
  PROVE  Spec => []InOrder
<1>1. Init => Numbered
  <2> SUFFICES ASSUME Init PROVE Numbered
    OBVIOUS
  <2>1. delivered = <<>> /\ Len(delivered) = 0 /\ ~Alive
    BY EmptySeq DEF Init, Alive
  <2> QED BY <2>1 DEF Numbered, InOrder
<1>2. TypeOK /\ LockInv /\ Base /\ Session /\ Numbered /\ [Next]_vars => Numbered'
  BY NumberedNext
<1>3. Numbered => InOrder
  BY DEF Numbered
<1> QED BY <1>1, <1>2, <1>3, SessionInvariance, PTL DEF Spec
=============================================================================

--------------------------- MODULE CasambiClient ---------------------------
(***************************************************************************)
(* One CasambiClient object (src/src/CasambiBt/_client.py) and the calls   *)
(* that Casambi._connectClient and Casambi._send (_casambi.py) make on it, *)
(* as coroutines of one asyncio event loop.                                *)
(*                                                                         *)
(* The loop runs a task from one suspension to the next, so an action is   *)
(* the code between two awaits.  Tasks are the callers of the library and  *)
(* one _processCallbacks task per connect().  pc[t] names the await at     *)
(* which caller t is suspended.  A task that can run does so before the    *)
(* loop looks at sockets and timers again: Settled guards what comes from  *)
(* outside.                                                                *)
(*                                                                         *)
(* Links are numbered in the order transport.connect() made them, 0 being  *)
(* None.  A key, a nonce or a handshake packet is represented by the       *)
(* number of the link it belongs to.                                       *)
(***************************************************************************)
EXTENDS TaskQueue

CONSTANTS
  Callers,    \* the tasks that call the library
  HasKey,     \* network.keyStore.getKey() finds a key
  Honest,     \* the device answers the handshake as the protocol says
  Flaky,      \* a radio operation may fail on a link that is up
  Poison,     \* a unit may report a state whose decoding raises
  Overlap,    \* the calls that may begin while any other is in progress
  MaxSends,   \* bound: calls of _send
  MaxPackets, \* bound: unit state packets sent by the device
  MaxDrops,   \* bound: links lost
  MaxCancels  \* bound: calls cancelled (asyncio.timeout around the library)

ASSUME CallersAssumption == Callers \cap Nat = {}
ASSUME FlagsAssumption == {HasKey, Honest, Flaky, Poison} \subseteq BOOLEAN
ASSUME OverlapAssumption == Overlap \subseteq {"connect", "send", "disconnect"}
ASSUME BoundsAssumption ==
  {MaxSends, MaxPackets, MaxDrops, MaxCancels} \subseteq Nat

VARIABLES
  state,      \* _connectionState
  signal,     \* _notifySignal.is_set()
  outCount,   \* _outPacketCount
  conn,       \* _connection
  nonce,      \* _nonce
  tkey,       \* _transportKey, with _pubKey
  enc,        \* _encryptor
  lockQ,      \* _activityLock: its holder, then its waiters in order
  queues,     \* every _callbackQueue created; the last one is current
  cbs,        \* every _processCallbacks task created
  cbTask,     \* _callbackTask, an index of cbs, or 0
  pc, job,    \* of each caller: where it is suspended, in which call
  op,         \* of each caller: the operation its _send transmits
  woken,      \* callers whose _notifySignal.wait() may return
  air, links, \* the link that is up, or 0; number of links made
  dev, devKey,\* the device: its place in the handshake, its session key
  aired,      \* history: operations handed to a link that was up, with the
              \* number of connect() calls made by then
  done,       \* history: operations whose write ended without an error
  delivered,  \* history: unit state packets given to _dataCallback
  lost,       \* history: link lost while authenticated, nobody told yet
  sends, sent, drops, cancels  \* how much of each bound is used

clientVars  == <<state, signal, outCount, conn, nonce, tkey, enc>>
taskVars    == <<queues, cbs, cbTask>>
callerVars  == <<pc, job, op, woken>>
linkVars    == <<air, links, dev, devKey>>
historyVars == <<aired, done, delivered, lost>>
boundVars   == <<sends, sent, drops, cancels>>
vars == <<clientVars, lockQ, taskVars, callerVars, linkVars, historyVars, boundVars>>

-----------------------------------------------------------------------------
(* The control points and the data.                                        *)

ConnectionState ==
  {"NONE", "CONNECTED", "KEY_EXCHANGED", "AUTHENTICATED", "ERROR"}

Idle == {"idle", "returned", "raised"}

\* Waiting for _activityLock, or granted it and about to run.
LockWait == {"readLock", "respondLock", "deriveLock", "authLock", "acceptLock",
             "sendLock"}

\* Suspended on the radio with _activityLock held.
Writing == {"reading", "subscribing", "responding", "authWriting", "sendWriting"}

\* Waiting for _notifySignal; the code that follows waits for the lock.
AfterSignal == [helloWait |-> "respondLock", ackWait |-> "deriveLock",
                authWait |-> "acceptLock"]
SignalWait == {"helloWait", "ackWait", "authWait"}

Labels == Idle \cup LockWait \cup Writing \cup SignalWait
            \cup {"connecting", "stopping", "closing"}

Jobs == {"none", "connect", "send", "retry", "disconnect"}

\* key: the session a packet is sealed with, or the link a hello came over;
\* n: its place among the unit state packets.  A "garbled" hello cannot be parsed.
Packet == [kind : {"hello", "ack", "auth", "state", "poison", "bad", "garbled"},
           key : Nat, n : Nat]
NoPacket == [kind |-> "bad", key |-> 0, n |-> 0]

\* pc "dead": cancelled or ended by an exception.  after: callers that were
\* ready to run when the task went to sleep.
Callback == [pc : {"get", "sleep", "lock", "dead"}, q : Nat \ {0}, item : Packet,
             after : SUBSET Callers]
Queue == [items : Seq(Packet), unfinished : Nat]

Init ==
  /\ state = "NONE" /\ signal = FALSE /\ outCount = 0
  /\ conn = 0 /\ nonce = 0 /\ tkey = 0 /\ enc = 0
  /\ lockQ = <<>> /\ queues = <<>> /\ cbs = <<>> /\ cbTask = 0
  /\ pc = [t \in Callers |-> "idle"] /\ job = [t \in Callers |-> "none"]
  /\ op = [t \in Callers |-> 0] /\ woken = {}
  /\ air = 0 /\ links = 0 /\ dev = "closed" /\ devKey = 0
  /\ aired = <<>> /\ done = {} /\ delivered = <<>> /\ lost = FALSE
  /\ sends = 0 /\ sent = 0 /\ drops = 0 /\ cancels = 0

-----------------------------------------------------------------------------
(* asyncio.                                                                *)

Holds(x) == lockQ # <<>> /\ Head(lockQ) = x

Goto(t, l) == pc' = [pc EXCEPT ![t] = l]

\* acquire(): granted in order of arrival.
Acquire(x) == lockQ' = Append(lockQ, x)

\* No task is ready to run.
Settled ==
  /\ woken = {}
  /\ \A t \in Callers : Holds(t) => pc[t] \notin LockWait
  /\ \A k \in 1..Len(cbs) :
       /\ cbs[k].pc = "get" => queues[cbs[k].q].items = <<>>
       /\ cbs[k].pc = "lock" => ~Holds(k)

LinkUp == conn # 0 /\ conn = air

\* A radio operation fails when the link is down, or for no reason seen here.
RadioFails == Flaky \/ ~LinkUp

\* Mutant: no `finally`, the lock is kept.
Raise_LockKept(t) == UNCHANGED lockQ /\ Goto(t, "raised")

\* An exception leaves the code that holds the lock, which `finally` releases.
Raise(t) == lockQ' = Tail(lockQ) /\ Goto(t, "raised")

\* release(), then _notifySignal.wait(), which returns at once when it is set.
ReleaseAndWait(t, w) ==
  IF signal
  THEN lockQ' = Append(Tail(lockQ), t) /\ Goto(t, AfterSignal[w])
  ELSE lockQ' = Tail(lockQ) /\ Goto(t, w)

\* _notifySignal.set() resolves the wait() of every caller waiting now.
SetSignal ==
  /\ signal' = TRUE
  /\ woken' = woken \cup {t \in Callers : pc[t] \in SignalWait}

-----------------------------------------------------------------------------
(* CasambiClient.connect(): up to the await of the transport, and after.   *)

\* Mutant: the queue of the first connect() is used for ever.
OpenClient_QueueKept(t) ==
  /\ outCount' = 2
  /\ queues' = IF queues # <<>> THEN queues
               ELSE <<[items |-> <<>>, unfinished |-> 0]>>
  /\ cbs' = Append(cbs, [pc |-> "get", q |-> 1, item |-> NoPacket, after |-> {}])
  /\ cbTask' = Len(cbs) + 1
  /\ Goto(t, "connecting")

OpenClient(t) ==
  /\ outCount' = 2
  /\ queues' = Append(queues, [items |-> <<>>, unfinished |-> 0])
  /\ cbs' = Append(cbs, [pc |-> "get", q |-> Len(queues) + 1, item |-> NoPacket,
                         after |-> {}])
  /\ cbTask' = Len(cbs) + 1
  /\ Goto(t, "connecting")

\* A call begins when no other one is in progress, or beside sends if it is one,
\* or beside whatever there is.
MayBegin(t, call) ==
  /\ pc[t] \in Idle
  /\ \/ call \in Overlap
     \/ \A u \in Callers : pc[u] \in Idle \/ (call = "send" /\ job[u] = "send")
  /\ Settled

\* Casambi.connect has made the client and calls _connectClient.
BeginConnect(t) ==
  /\ queues = <<>> /\ MayBegin(t, "connect")
  /\ OpenClient(t)
  /\ job' = [job EXCEPT ![t] = "connect"]
  /\ UNCHANGED <<state, signal, conn, nonce, tkey, enc, lockQ, op, woken,
                 linkVars, historyVars, boundVars>>

\* transport.connect() returns (it closes a stale link first) and exchangeKey
\* starts.  Making a link takes longer than the millisecond a task sleeps.
Connected(t) ==
  /\ pc[t] = "connecting" /\ Settled
  /\ \A k \in 1..Len(cbs) : cbs[k].pc # "sleep"
  /\ links' = links + 1 /\ air' = links + 1 /\ conn' = links + 1
  /\ dev' = "open" /\ devKey' = 0
  /\ state' = "CONNECTED"
  /\ Acquire(t) /\ Goto(t, "readLock")
  /\ UNCHANGED <<signal, outCount, nonce, tkey, enc, taskVars, job, op, woken,
                 historyVars, boundVars>>

\* It raises; or it returns a connection that is down, which is kept.
ConnectFails(t) ==
  /\ pc[t] = "connecting" /\ Settled /\ Flaky
  /\ Goto(t, "raised")
  /\ \/ UNCHANGED <<conn, air, links, dev>>
     \/ links' = links + 1 /\ air' = 0 /\ conn' = links + 1 /\ dev' = "closed"
  /\ UNCHANGED <<state, signal, outCount, nonce, tkey, enc, lockQ, taskVars, job,
                 op, woken, devKey, historyVars, boundVars>>

-----------------------------------------------------------------------------
(* exchangeKey() and authenticate().                                       *)

Read(t) ==
  /\ pc[t] = "readLock" /\ Holds(t)
  /\ IF LinkUp THEN Goto(t, "reading") /\ UNCHANGED lockQ ELSE Raise(t)
  /\ UNCHANGED <<clientVars, taskVars, job, op, woken, linkVars, historyVars,
                 boundVars>>

\* Mutant: the nonce is read on the first link only.
ReadEnds_NonceKept(t) ==
  /\ pc[t] = "reading" /\ Settled
  /\ \/ /\ LinkUp /\ Goto(t, "subscribing") /\ UNCHANGED lockQ
        /\ nonce' = (IF nonce = 0 THEN conn ELSE nonce)
     \/ RadioFails /\ Raise(t) /\ UNCHANGED nonce
  /\ UNCHANGED <<state, signal, outCount, conn, tkey, enc, taskVars, job, op,
                 woken, linkVars, historyVars, boundVars>>

\* The nonce is read and notifications are started.
ReadEnds(t) ==
  /\ pc[t] = "reading" /\ Settled
  /\ \/ LinkUp /\ nonce' = conn /\ Goto(t, "subscribing") /\ UNCHANGED lockQ
     \/ RadioFails /\ Raise(t) /\ UNCHANGED nonce
  /\ UNCHANGED <<state, signal, outCount, conn, tkey, enc, taskVars, job, op,
                 woken, linkVars, historyVars, boundVars>>

SubscribeEnds(t) ==
  /\ pc[t] = "subscribing" /\ Settled
  /\ \/ LinkUp /\ dev' = "subscribed" /\ ReleaseAndWait(t, "helloWait")
     \/ RadioFails /\ Raise(t) /\ UNCHANGED dev
  /\ UNCHANGED <<clientVars, taskVars, job, op, woken, air, links, devKey,
                 historyVars, boundVars>>

\* _notifySignal.wait() returns and _activityLock.acquire() is called.
Resume(t) ==
  /\ t \in woken
  /\ woken' = woken \ {t}
  /\ Acquire(t) /\ Goto(t, AfterSignal[pc[t]])
  /\ UNCHANGED <<clientVars, taskVars, job, op, linkVars, historyVars, boundVars>>

\* client.disconnect() up to its first await; q is what it finds of the lock.
StartDisconnect(t, q) ==
  LET live == cbTask # 0 /\ cbs[cbTask].pc # "dead"
  IN /\ cbTask' = 0
     /\ cbs' = IF live THEN [cbs EXCEPT ![cbTask].pc = "dead"] ELSE cbs
     /\ lockQ' = IF live THEN Without(q, cbTask) ELSE q
     /\ Goto(t, "stopping")
     /\ UNCHANGED queues

\* Mutant: a ProtocolError is raised without disconnecting.
Respond_NoDisconnect(t) ==
  /\ pc[t] = "respondLock" /\ Holds(t)
  /\ signal' = FALSE
  /\ \/ /\ state = "ERROR" \/ tkey = 0 \/ ~LinkUp
        /\ Raise(t) /\ UNCHANGED <<dev, devKey>>
     \/ /\ state # "ERROR" /\ tkey # 0 /\ LinkUp
        /\ dev' = IF dev = "greeted" THEN "keyed" ELSE dev
        /\ devKey' = IF dev = "greeted" /\ tkey = air THEN air ELSE 0
        /\ Goto(t, "responding") /\ UNCHANGED lockQ
  /\ UNCHANGED <<state, outCount, conn, nonce, tkey, enc, taskVars, job, op,
                 woken, air, links, historyVars, boundVars>>

\* The key response is written, unless the handshake failed (ProtocolError) or
\* there is no key pair or no link to write it with.
Respond(t) ==
  /\ pc[t] = "respondLock" /\ Holds(t)
  /\ signal' = FALSE
  /\ \/ /\ state = "ERROR"
        /\ StartDisconnect(t, Tail(lockQ)) /\ UNCHANGED <<dev, devKey>>
     \/ /\ state # "ERROR" /\ (tkey = 0 \/ ~LinkUp)
        /\ Raise(t) /\ UNCHANGED <<taskVars, dev, devKey>>
     \/ /\ state # "ERROR" /\ tkey # 0 /\ LinkUp
        /\ dev' = IF dev = "greeted" THEN "keyed" ELSE dev
        /\ devKey' = IF dev = "greeted" /\ tkey = air THEN air ELSE 0
        /\ Goto(t, "responding") /\ UNCHANGED <<lockQ, taskVars>>
  /\ UNCHANGED <<state, outCount, conn, nonce, tkey, enc, job, op, woken, air,
                 links, historyVars, boundVars>>

ResponseEnds(t) ==
  /\ pc[t] = "responding" /\ Settled
  /\ \/ LinkUp /\ ReleaseAndWait(t, "ackWait")
     \/ RadioFails /\ Raise(t)
  /\ UNCHANGED <<clientVars, taskVars, job, op, woken, linkVars, historyVars,
                 boundVars>>

\* The end of exchangeKey and the start of authenticate, whose _checkState
\* raises when exchangeKey went straight to AUTHENTICATED.
Derive(t) ==
  /\ pc[t] = "deriveLock" /\ Holds(t)
  /\ signal' = FALSE
  /\ \/ /\ state = "ERROR"
        /\ StartDisconnect(t, Tail(lockQ)) /\ UNCHANGED <<state, enc>>
     \/ /\ state # "ERROR" /\ UNCHANGED taskVars
        /\ enc' = tkey
        /\ IF HasKey
           THEN /\ state' = "KEY_EXCHANGED"
                /\ lockQ' = Append(Tail(lockQ), t) /\ Goto(t, "authLock")
           ELSE state' = "AUTHENTICATED" /\ Raise(t)
  /\ UNCHANGED <<outCount, conn, nonce, tkey, job, op, woken, linkVars,
                 historyVars, boundVars>>

\* _writeEncPacket of the auth packet.  The transport's "Not connected" is not
\* raised: the state becomes NONE and authenticate waits for the answer.
Authenticate(t) ==
  /\ pc[t] = "authLock" /\ Holds(t)
  /\ \/ conn = 0 /\ Raise(t) /\ UNCHANGED <<state, dev>>
     \/ /\ conn # 0 /\ ~LinkUp
        /\ state' = "NONE" /\ ReleaseAndWait(t, "authWait") /\ UNCHANGED dev
     \/ /\ LinkUp
        /\ dev' = IF dev = "acked" /\ {enc, nonce} = {devKey} THEN "proved" ELSE dev
        /\ Goto(t, "authWriting") /\ UNCHANGED <<state, lockQ>>
  /\ UNCHANGED <<signal, outCount, conn, nonce, tkey, enc, taskVars, job, op,
                 woken, air, links, devKey, historyVars, boundVars>>

\* A write that fails raises BluetoothError: the transport's own, or in place
\* of any other exception, and then the state becomes NONE.
WriteFails(t) == RadioFails /\ state' \in {state, "NONE"} /\ Raise(t)

\* A failure that says "Not connected" is not raised here, either.
AuthEnds(t) ==
  /\ pc[t] = "authWriting" /\ Settled
  /\ \/ LinkUp /\ ReleaseAndWait(t, "authWait") /\ UNCHANGED state
     \/ RadioFails /\ state' = "NONE" /\ ReleaseAndWait(t, "authWait")
     \/ WriteFails(t)
  /\ UNCHANGED <<signal, outCount, conn, nonce, tkey, enc, taskVars, job, op,
                 woken, linkVars, historyVars, boundVars>>

\* Mutant: the signal is not cleared after authentication.
Accept_SignalKept(t) ==
  /\ pc[t] = "acceptLock" /\ Holds(t)
  /\ \/ /\ state = "ERROR"
        /\ StartDisconnect(t, Tail(lockQ)) /\ UNCHANGED state
     \/ /\ state # "ERROR" /\ UNCHANGED taskVars
        /\ state' = "AUTHENTICATED"
        /\ IF job[t] = "retry"
           THEN lockQ' = Append(Tail(lockQ), t) /\ Goto(t, "sendLock")
           ELSE lockQ' = Tail(lockQ) /\ Goto(t, "returned")
  /\ UNCHANGED <<signal, outCount, conn, nonce, tkey, enc, job, op, woken,
                 linkVars, historyVars, boundVars>>

\* authenticate ends; Casambi.connect returns, _send sends again.
Accept(t) ==
  /\ pc[t] = "acceptLock" /\ Holds(t)
  /\ signal' = FALSE
  /\ \/ /\ state = "ERROR"
        /\ StartDisconnect(t, Tail(lockQ)) /\ UNCHANGED state
     \/ /\ state # "ERROR" /\ UNCHANGED taskVars
        /\ state' = "AUTHENTICATED"
        /\ IF job[t] = "retry"
           THEN lockQ' = Append(Tail(lockQ), t) /\ Goto(t, "sendLock")
           ELSE lockQ' = Tail(lockQ) /\ Goto(t, "returned")
  /\ UNCHANGED <<outCount, conn, nonce, tkey, enc, job, op, woken, linkVars,
                 historyVars, boundVars>>

-----------------------------------------------------------------------------
(* Casambi._send: CasambiClient.send, one reconnection, send again.        *)

BeginSend(t) ==
  /\ queues # <<>> /\ sends < MaxSends /\ MayBegin(t, "send")
  /\ sends' = sends + 1 /\ op' = [op EXCEPT ![t] = sends + 1]
  /\ \/ /\ state = "AUTHENTICATED"
        /\ Acquire(t) /\ Goto(t, "sendLock")
        /\ job' = [job EXCEPT ![t] = "send"] /\ UNCHANGED <<outCount, taskVars>>
     \/ /\ state = "NONE"
        /\ OpenClient(t)
        /\ job' = [job EXCEPT ![t] = "retry"] /\ UNCHANGED lockQ
     \/ /\ state \notin {"AUTHENTICATED", "NONE"}
        /\ Goto(t, "raised")
        /\ job' = [job EXCEPT ![t] = "send"]
        /\ UNCHANGED <<outCount, taskVars, lockQ>>
  /\ UNCHANGED <<state, signal, conn, nonce, tkey, enc, woken, linkVars,
                 historyVars, sent, drops, cancels>>

\* What send does once it has the lock.  Without a connection _writeEncPacket
\* raises ConnectionStateError, and _send reconnects if the state is NONE and it
\* has not yet.  The transport's "Not connected" is not raised.
Send(t) ==
  /\ pc[t] = "sendLock" /\ Holds(t)
  /\ \/ /\ conn = 0 /\ job[t] = "send" /\ state = "NONE"
        /\ lockQ' = Tail(lockQ) /\ OpenClient(t)
        /\ job' = [job EXCEPT ![t] = "retry"] /\ UNCHANGED <<state, aired>>
     \/ /\ conn = 0 /\ ~(job[t] = "send" /\ state = "NONE")
        /\ Raise(t) /\ UNCHANGED <<state, outCount, taskVars, job, aired>>
     \/ /\ conn # 0 /\ ~LinkUp
        /\ state' = "NONE" /\ outCount' = outCount + 1
        /\ lockQ' = Tail(lockQ) /\ Goto(t, "returned")
        /\ UNCHANGED <<taskVars, job, aired>>
     \/ /\ LinkUp
        /\ aired' = Append(aired, [op |-> op[t], counter |-> outCount,
                                   attempt |-> Len(queues)])
        /\ Goto(t, "sendWriting")
        /\ UNCHANGED <<state, outCount, lockQ, taskVars, job>>
  /\ UNCHANGED <<signal, conn, nonce, tkey, enc, op, woken, linkVars, done,
                 delivered, lost, boundVars>>

\* Mutant: the counter is not advanced after a write.
SendEnds_CounterKept(t) ==
  /\ pc[t] = "sendWriting" /\ Settled
  /\ \/ /\ lockQ' = Tail(lockQ) /\ Goto(t, "returned")
        /\ \/ LinkUp /\ done' = done \cup {op[t]} /\ UNCHANGED state
           \/ RadioFails /\ state' = "NONE" /\ UNCHANGED done
     \/ WriteFails(t) /\ UNCHANGED done
  /\ UNCHANGED <<signal, outCount, conn, nonce, tkey, enc, taskVars, job, op,
                 woken, linkVars, aired, delivered, lost, boundVars>>

\* Mutant: _send reconnects and sends again after a write that failed, too.
SendEnds_SentAgain(t) ==
  /\ pc[t] = "sendWriting" /\ Settled
  /\ \/ /\ LinkUp
        /\ outCount' = outCount + 1 /\ done' = done \cup {op[t]}
        /\ lockQ' = Tail(lockQ) /\ Goto(t, "returned")
        /\ UNCHANGED <<state, taskVars, job>>
     \/ /\ RadioFails /\ job[t] = "send"
        /\ state' = "NONE" /\ lockQ' = Tail(lockQ)
        /\ OpenClient(t) /\ job' = [job EXCEPT ![t] = "retry"] /\ UNCHANGED done
  /\ UNCHANGED <<signal, conn, nonce, tkey, enc, op, woken, linkVars, aired,
                 delivered, lost, boundVars>>

\* The write ends, or fails with "Not connected", which send does not notice.
SendEnds(t) ==
  /\ pc[t] = "sendWriting" /\ Settled
  /\ \/ /\ outCount' = outCount + 1
        /\ lockQ' = Tail(lockQ) /\ Goto(t, "returned")
        /\ \/ LinkUp /\ done' = done \cup {op[t]} /\ UNCHANGED state
           \/ RadioFails /\ state' = "NONE" /\ UNCHANGED done
     \/ WriteFails(t) /\ UNCHANGED <<outCount, done>>
  /\ UNCHANGED <<signal, conn, nonce, tkey, enc, taskVars, job, op, woken,
                 linkVars, aired, delivered, lost, boundVars>>

-----------------------------------------------------------------------------
(* disconnect(), which does not take the lock, and cancellation.           *)

BeginDisconnect(t) ==
  /\ queues # <<>> /\ MayBegin(t, "disconnect")
  /\ job' = [job EXCEPT ![t] = "disconnect"]
  /\ StartDisconnect(t, lockQ)
  /\ UNCHANGED <<clientVars, op, woken, linkVars, historyVars, boundVars>>

\* Notifications are stopped; the connection held by now is closed.  With no
\* link up the code does not suspend here; the model lets it.
CloseLink(t) ==
  /\ pc[t] = "stopping" /\ Settled
  /\ IF LinkUp THEN air' = 0 /\ dev' = "closed" ELSE UNCHANGED <<air, dev>>
  /\ Goto(t, "closing")
  /\ UNCHANGED <<clientVars, lockQ, taskVars, job, op, woken, links, devKey,
                 historyVars, boundVars>>

\* The disconnect callback is called if the channel was authenticated.
\* _connectClient raises the ProtocolError again.
Disconnected(t) ==
  /\ pc[t] = "closing" /\ Settled
  /\ conn' = 0 /\ state' = "NONE"
  /\ lost' = (lost /\ state # "AUTHENTICATED")
  /\ Goto(t, IF job[t] = "disconnect" THEN "returned" ELSE "raised")
  /\ UNCHANGED <<signal, outCount, nonce, tkey, enc, lockQ, taskVars, job, op,
                 woken, linkVars, aired, done, delivered, boundVars>>

\* CancelledError at the await; no handler catches it, `finally` releases the
\* lock.  Casambi.disconnect shields its call of the client's, _connectClient
\* does not.
Cancel(t) ==
  /\ cancels < MaxCancels /\ cancels' = cancels + 1
  /\ pc[t] \notin Idle
  /\ pc[t] \in {"stopping", "closing"} => job[t] # "disconnect"
  /\ lockQ' = Without(lockQ, t) /\ woken' = woken \ {t}
  /\ Goto(t, "raised")
  /\ UNCHANGED <<clientVars, taskVars, job, op, linkVars, historyVars, sends,
                 sent, drops>>

-----------------------------------------------------------------------------
(* _processCallbacks and the handlers.                                     *)

CbGet(k) ==
  /\ cbs[k].pc = "get" /\ queues[cbs[k].q].items # <<>>
  /\ cbs' = [cbs EXCEPT ![k] = [@ EXCEPT !.pc = "sleep", !.after = woken,
                                  !.item = Head(queues[cbs[k].q].items)]]
  /\ queues' = [queues EXCEPT ![cbs[k].q].items = Tail(@)]
  /\ UNCHANGED <<clientVars, lockQ, cbTask, callerVars, linkVars, historyVars,
                 boundVars>>

\* Mutant: no sleep before the lock.
CbWake_NoSleep(k) ==
  /\ cbs[k].pc = "sleep"
  /\ Acquire(k)
  /\ cbs' = [cbs EXCEPT ![k].pc = "lock"]
  /\ UNCHANGED <<clientVars, queues, cbTask, callerVars, linkVars, historyVars,
                 boundVars>>

\* The end of the sleep(0.001) meant to lose races: the callers that were ready
\* when it began have run.
CbWake(k) ==
  /\ cbs[k].pc = "sleep" /\ cbs[k].after \cap woken = {}
  /\ Acquire(k)
  /\ cbs' = [cbs EXCEPT ![k].pc = "lock"]
  /\ UNCHANGED <<clientVars, queues, cbTask, callerVars, linkVars, historyVars,
                 boundVars>>

\* decryptAndVerify accepts the packet.
Verified(p) == p.key # 0 /\ p.key = enc /\ p.key = nonce

\* Mutant: the acknowledgement of the key is parsed but not signalled.
ExchNotify_AckSilent(p) ==
  /\ tkey' = IF p.kind = "hello" THEN p.key ELSE tkey
  /\ state' = IF p.kind \in {"hello", "ack"} THEN state ELSE "ERROR"
  /\ IF p.kind = "ack" THEN UNCHANGED <<signal, woken>> ELSE SetSignal
  /\ UNCHANGED delivered

ExchNotify(p) ==
  /\ IF p.kind = "garbled" THEN UNCHANGED <<tkey, state, signal, woken>>
     ELSE /\ tkey' = IF p.kind = "hello" THEN p.key ELSE tkey
          /\ state' = IF p.kind \in {"hello", "ack"} THEN state ELSE "ERROR"
          /\ SetSignal
  /\ UNCHANGED delivered

AuthNotify(p) ==
  /\ IF Verified(p) THEN SetSignal /\ UNCHANGED state
                    ELSE state' = "ERROR" /\ UNCHANGED <<signal, woken>>
  /\ UNCHANGED <<tkey, delivered>>

EstablishedNotify(p) ==
  /\ delivered' = IF Verified(p) /\ p.kind = "state" THEN Append(delivered, p.n)
                                                     ELSE delivered
  /\ UNCHANGED <<state, signal, tkey, woken>>

CallbackMultiplexer(p) ==
  \/ state = "CONNECTED" /\ ExchNotify(p)
  \/ state = "KEY_EXCHANGED" /\ AuthNotify(p)
  \/ state = "AUTHENTICATED" /\ EstablishedNotify(p)
  \/ state \in {"NONE", "ERROR"} /\ UNCHANGED <<state, signal, tkey, woken, delivered>>

HandlerRaises(p) ==
  \/ state = "CONNECTED" /\ p.kind = "garbled"
  \/ state = "AUTHENTICATED" /\ Verified(p) /\ p.kind = "poison"

\* Mutant: the task ends after the first packet of an established channel.
CbHandle_OneShot(k) ==
  /\ cbs[k].pc = "lock" /\ Holds(k)
  /\ CallbackMultiplexer(cbs[k].item)
  /\ cbs' = [cbs EXCEPT ![k] = [@ EXCEPT !.q = Len(queues),
               !.pc = IF state = "AUTHENTICATED" THEN "dead" ELSE "get"]]
  /\ queues' = [queues EXCEPT ![Len(queues)].unfinished = @ - 1]
  /\ lockQ' = Tail(lockQ)
  /\ UNCHANGED <<outCount, conn, nonce, enc, cbTask, pc, job, op, linkVars, aired,
                 done, lost, boundVars>>

\* Mutant: the handler calls task_done(), too.
CbHandle_DoneTwice(k) ==
  /\ cbs[k].pc = "lock" /\ Holds(k)
  /\ CallbackMultiplexer(cbs[k].item)
  /\ cbs' = [cbs EXCEPT ![k].pc = "dead"]
  /\ queues' = [queues EXCEPT ![Len(queues)].unfinished = 0]
  /\ UNCHANGED <<outCount, conn, nonce, enc, lockQ, cbTask, pc, job, op, linkVars,
                 aired, done, lost, boundVars>>

\* After the handler: task_done() on the current queue, then release().  A
\* task_done() too many raises ValueError before the release.
CbHandle(k) ==
  /\ cbs[k].pc = "lock" /\ Holds(k)
  /\ CallbackMultiplexer(cbs[k].item)
  /\ IF queues[Len(queues)].unfinished = 0
     THEN /\ cbs' = [cbs EXCEPT ![k].pc = "dead"]
          /\ UNCHANGED <<queues, lockQ>>
     ELSE /\ cbs' = [cbs EXCEPT ![k] = [@ EXCEPT !.q = Len(queues),
                       !.pc = IF HandlerRaises(cbs[k].item) THEN "dead" ELSE "get"]]
          /\ queues' = [queues EXCEPT ![Len(queues)].unfinished = @ - 1]
          /\ lockQ' = Tail(lockQ)
  /\ UNCHANGED <<outCount, conn, nonce, enc, cbTask, pc, job, op, linkVars, aired,
                 done, lost, boundVars>>

-----------------------------------------------------------------------------
(* The device and the radio.                                               *)

\* Mutant: put at the front of the queue.
Notify_Front(p) ==
  queues' = [queues EXCEPT ![Len(queues)] = [items |-> <<p>> \o @.items,
                                             unfinished |-> @.unfinished + 1]]

\* _queueCallback.
Notify(p) ==
  queues' = [queues EXCEPT ![Len(queues)] = [items |-> Append(@.items, p),
                                             unfinished |-> @.unfinished + 1]]

Reply == [subscribed |-> "hello", keyed |-> "ack", proved |-> "auth"]
Replied == [subscribed |-> "greeted", keyed |-> IF HasKey THEN "acked" ELSE "up",
            proved |-> "up"]

DeviceReply ==
  /\ dev \in DOMAIN Reply /\ Settled
  /\ \E kind \in {Reply[dev]} \cup (IF Honest THEN {} ELSE {"bad", "garbled"}) :
       Notify([kind |-> kind, n |-> 0,
               key |-> IF kind = "hello" THEN air
                       ELSE IF kind = "auth" THEN devKey ELSE 0])
  /\ dev' = Replied[dev]
  /\ UNCHANGED <<clientVars, lockQ, cbs, cbTask, callerVars, air, links, devKey,
                 historyVars, boundVars>>

DeviceState ==
  /\ dev = "up" /\ sent < MaxPackets /\ Settled
  /\ sent' = sent + 1
  /\ \E kind \in {"state"} \cup (IF Poison THEN {"poison"} ELSE {}) :
       Notify([kind |-> kind, key |-> devKey, n |-> sent + 1])
  /\ UNCHANGED <<clientVars, lockQ, cbs, cbTask, callerVars, linkVars,
                 historyVars, sends, drops, cancels>>

LinkDrop ==
  /\ air # 0 /\ drops < MaxDrops /\ Settled
  /\ drops' = drops + 1
  /\ lost' = (lost \/ (state = "AUTHENTICATED" /\ LinkUp))
  /\ air' = 0 /\ dev' = "closed"
  /\ UNCHANGED <<clientVars, lockQ, taskVars, callerVars, links, devKey, aired,
                 done, delivered, sends, sent, cancels>>

-----------------------------------------------------------------------------
Handshake(t) ==
  \/ Connected(t) \/ ConnectFails(t) \/ Read(t) \/ ReadEnds(t) \/ SubscribeEnds(t)
  \/ Resume(t) \/ Respond(t) \/ ResponseEnds(t) \/ Derive(t) \/ Authenticate(t)
  \/ AuthEnds(t) \/ Accept(t)

CallerStep(t) ==
  Handshake(t) \/ Send(t) \/ SendEnds(t) \/ CloseLink(t) \/ Disconnected(t)

CallbackStep(k) == CbGet(k) \/ CbWake(k) \/ CbHandle(k)

Next ==
  \/ \E t \in Callers : \/ BeginConnect(t) \/ BeginSend(t) \/ BeginDisconnect(t)
                        \/ CallerStep(t) \/ Cancel(t)
  \/ \E k \in 1..Len(cbs) : CallbackStep(k)
  \/ DeviceReply \/ DeviceState \/ LinkDrop

Spec == Init /\ [][Next]_vars

\* The loop runs every task that can run, a radio operation ends, and a device
\* answers; nobody has to call, drop a link or cancel.
FairSpec ==
  /\ Spec
  /\ \A t \in Callers : WF_vars(CallerStep(t))
  /\ \A k \in 1..(MaxSends + 1) : WF_vars(k <= Len(cbs) /\ CallbackStep(k))
  /\ WF_vars(DeviceReply)

-----------------------------------------------------------------------------
(* Properties.                                                             *)

ClientType ==
  /\ state \in ConnectionState /\ signal \in BOOLEAN /\ outCount \in Nat
  /\ conn \in Nat /\ nonce \in Nat /\ tkey \in Nat /\ enc \in Nat
LockType == lockQ \in Seq(Callers \cup Nat)
TaskType ==
  /\ queues \in Seq(Queue) /\ cbs \in Seq(Callback)
  /\ Len(cbs) = Len(queues) /\ cbTask \in 0..Len(cbs)
  /\ \A k \in 1..Len(cbs) : cbs[k].q <= Len(queues)
CallerType ==
  /\ pc \in [Callers -> Labels] /\ job \in [Callers -> Jobs]
  /\ op \in [Callers -> Nat] /\ woken \subseteq Callers
LinkType ==
  /\ air \in Nat /\ links \in Nat /\ devKey \in Nat
  /\ dev \in {"closed", "open", "subscribed", "greeted", "keyed", "acked",
              "proved", "up"}
HistoryType ==
  /\ aired \in Seq([op : Nat, counter : Nat, attempt : Nat])
  /\ done \subseteq Nat /\ delivered \in Seq(Nat) /\ lost \in BOOLEAN
BoundType == sends \in Nat /\ sent \in Nat /\ drops \in Nat /\ cancels \in Nat

\* Every variable keeps its type; there is a callback task for every queue, and
\* it reads a queue that exists.
TypeOK ==
  /\ ClientType /\ LockType /\ TaskType /\ CallerType /\ LinkType
  /\ HistoryType /\ BoundType

\* A task suspended on the radio inside its critical section is the one holder
\* of _activityLock, and a cancelled or failed caller leaves no claim behind.
MutualExclusion ==
  /\ Distinct(lockQ)
  /\ \A t \in Callers : pc[t] \in Writing => Holds(t)
  /\ \A t \in Callers : InQ(lockQ, t) => pc[t] \in Writing \cup LockWait

\* _processCallbacks never ends with _activityLock held.
LockReleased ==
  \A k \in 1..Len(cbs) : cbs[k].pc = "dead" => ~Holds(k)

\* _send's second attempt never repeats an operation that went on the air.
AtMostOnce ==
  \A i, j \in 1..Len(aired) : aired[i].op = aired[j].op => i = j

\* Until the next connect() begins, a packet counter, hence a nonce, is used again
\* only if the write that used it first did not end.
NonceFresh ==
  \A i, j \in 1..Len(aired) :
    i < j /\ aired[i].attempt = aired[j].attempt
          /\ aired[i].counter = aired[j].counter => aired[i].op \notin done

Expected == [helloWait |-> "hello", ackWait |-> "ack", authWait |-> "auth"]

\* The packet a handler gets while a caller waits in the handshake is the answer
\* that caller waits for, right or wrong, and none of the handshake is left once
\* authenticated.
RightHandler ==
  \A k \in 1..Len(cbs) : cbs[k].pc = "lock" /\ Holds(k) =>
    /\ state = "AUTHENTICATED" => cbs[k].item.kind \in {"state", "poison"}
    /\ state \in {"CONNECTED", "KEY_EXCHANGED"} =>
         \A t \in Callers : pc[t] \in SignalWait =>
           cbs[k].item.kind \in {Expected[pc[t]], "bad", "garbled"}

\* exchangeKey responds to the hello of the link it responds on: its wait for
\* _notifySignal was ended by that hello.
RespondsToThisHello ==
  \A t \in Callers : pc[t] = "respondLock" /\ Holds(t) /\ LinkUp /\ state # "ERROR"
    => tkey = conn

\* While authenticated on a link that is up, both ends hold the same key and
\* nonce.
SessionAgreed ==
  state = "AUTHENTICATED" /\ LinkUp => devKey = conn /\ enc = conn /\ nonce = conn

\* Unit states reach the data callback in the order the device sent them.
InOrder ==
  \A i, j \in 1..Len(delivered) : i < j => delivered[i] < delivered[j]

\* When no call is in progress the channel is up or torn down entirely.
WholeOrGone ==
  (\A t \in Callers : pc[t] \in Idle) =>
    \/ state = "AUTHENTICATED"
    \/ state = "NONE" /\ air = 0 /\ conn = 0
    \/ queues = <<>>

\* An operation is open from the call of _send to its end, over the reconnection
\* and the second attempt.
Open(t) == IF job[t] \in {"send", "retry"} /\ pc[t] \notin Idle THEN op[t] ELSE 0

D == INSTANCE Delivery WITH
  issued <- sends,
  open   <- [t \in Callers |-> Open(t)],
  radio  <- {t \in Callers : pc[t] = "sendWriting"},
  aired  <- {aired[i].op : i \in 1..Len(aired)}

\* Seen by its operations alone the client is Delivery: reconnecting in the middle
\* of a call, failing, being cancelled or closed by another task, it puts an
\* operation on the air once, within its call, and one at a time.
Delivers == D!Spec

\* A _send that returns has written its operation.
SendTransmits ==
  \A t \in Callers : pc[t] = "returned" /\ job[t] \in {"send", "retry"}
    => op[t] \in done

\* Every call of the library ends.
CallsEnd == \A t \in Callers : pc[t] \notin Idle ~> pc[t] \in Idle

\* A unit state received while authenticated is handled, unless the channel is
\* closed first.
StatesHandled ==
  state = "AUTHENTICATED" /\ queues[Len(queues)].unfinished > 0
    ~> state # "AUTHENTICATED" \/ queues[Len(queues)].unfinished = 0

\* The disconnect callback follows the loss of an authenticated link.
LossReported == lost ~> ~lost

=============================================================================

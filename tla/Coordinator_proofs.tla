------------------------- MODULE Coordinator_proofs -------------------------
(***************************************************************************)
(* Proofs that one task at a time is inside the library on behalf of a     *)
(* coordinator, that a shutdown is final, that entities read current data  *)
(* once a reconnection is over, and that every variable keeps its type:    *)
(* through errors, timeouts, cancelled reconnect loops and reloads of the  *)
(* entry.                                                                  *)
(***************************************************************************)
EXTENDS Coordinator, Sequence_proofs

Outside == {"idle", "sleep"}

\* The queue of _op_lock and the control points of a coordinator's tasks agree.
QueueOK(q, row) ==
  /\ q \in Seq(Tasks) /\ Distinct(q)
  /\ \A x \in Tasks : InQ(q, x) <=> row[x] \in Inside \cup {"lock"}
  /\ \A x \in Tasks : row[x] \in Inside => Head(q) = x

QueuesOK ==
  /\ at \in [Coords -> [Tasks -> Points]] /\ DOMAIN opq = Coords
  /\ \A c \in Coords : QueueOK(opq[c], at[c])

\* Nothing happens in a coordinator that is not made yet.
Unmade(c) ==
  /\ phase[c] = "none" /\ ~pending[c] /\ ~registered[c]
  /\ at[c] = [x \in Tasks |-> "idle"]

UnmadeIdle ==
  /\ made \in 0..MaxCoords
  /\ DOMAIN phase = Coords /\ DOMAIN pending = Coords /\ DOMAIN registered = Coords
  /\ \A c \in Coords : c > made => Unmade(c)

LockInv == QueuesOK /\ UnmadeIdle

LEMMA PointsAre ==
  /\ Points = Outside \cup {"lock"} \cup Inside
  /\ Outside \cap Inside = {} /\ "lock" \notin Inside \cup Outside
  /\ Coords \subseteq Nat /\ {"setup", "loop"} \subseteq Tasks
BY NumbersAssumption DEF Points, Outside, Inside, Coords, Tasks

-----------------------------------------------------------------------------
(* What a step of a task is to the queue.                                  *)

\* A member of an empty queue there is none.
LEMMA InQueue ==
  ASSUME NEW s \in Seq(Tasks), NEW x, InQ(s, x)
  PROVE  s # <<>>
BY DEF InQ

LEMMA Joins ==
  ASSUME NEW q, NEW row \in [Tasks -> Points], QueueOK(q, row),
         NEW x \in Tasks, row[x] \in Outside
  PROVE  QueueOK(Append(q, x), [row EXCEPT ![x] = "lock"])
<1> DEFINE s == Append(q, x)
           new == [row EXCEPT ![x] = "lock"]
<1>1. ~InQ(q, x)
  BY PointsAre DEF QueueOK
<1>2. /\ s \in Seq(Tasks) /\ Distinct(s)
      /\ \A y : InQ(s, y) <=> InQ(q, y) \/ y = x
      /\ q # <<>> => Head(s) = Head(q)
  BY <1>1, AppendQueue, q \in Seq(Tasks) DEF QueueOK
<1>3. ASSUME NEW y \in Tasks
      PROVE  InQ(s, y) <=> new[y] \in Inside \cup {"lock"}
  BY <1>2 DEF QueueOK
<1>4. ASSUME NEW y \in Tasks, new[y] \in Inside
      PROVE  Head(s) = y
  <2>1. y # x /\ row[y] \in Inside
    BY <1>4, PointsAre
  <2>2. q # <<>>
    BY <2>1, InQueue DEF QueueOK
  <2> QED BY <2>1, <2>2, <1>2 DEF QueueOK
<1> QED BY <1>2, <1>3, <1>4 DEF QueueOK

\* The head goes on inside.
LEMMA Enters ==
  ASSUME NEW q, NEW row \in [Tasks -> Points], QueueOK(q, row),
         NEW x \in Tasks, NEW p \in Inside, row[x] \in Inside \cup {"lock"}, Head(q) = x
  PROVE  QueueOK(q, [row EXCEPT ![x] = p])
BY PointsAre DEF QueueOK

LEMMA Rests ==
  ASSUME NEW q, NEW row \in [Tasks -> Points], QueueOK(q, row),
         NEW x \in Tasks, NEW p \in Outside, row[x] \in Outside
  PROVE  QueueOK(q, [row EXCEPT ![x] = p])
BY PointsAre DEF QueueOK

LEMMA Leaves ==
  ASSUME NEW q, NEW row \in [Tasks -> Points], QueueOK(q, row),
         NEW x \in Tasks, NEW p \in Outside, row[x] \in Inside \cup {"lock"}, Head(q) = x
  PROVE  QueueOK(Tail(q), [row EXCEPT ![x] = p])
<1> DEFINE new == [row EXCEPT ![x] = p]
<1>1. q \in Seq(Tasks) /\ q # <<>>
  BY InQueue DEF QueueOK
<1>2. /\ Tail(q) \in Seq(Tasks) /\ Distinct(Tail(q)) /\ ~InQ(Tail(q), x)
      /\ \A y \in Tasks \ {x} : InQ(Tail(q), y) <=> InQ(q, y)
  BY <1>1, TailQueue DEF QueueOK
<1>3. \A y \in Tasks : new[y] \notin Inside
  BY PointsAre DEF QueueOK
<1>4. \A y \in Tasks : InQ(Tail(q), y) <=> new[y] \in Inside \cup {"lock"}
  BY <1>2, PointsAre DEF QueueOK
<1> QED BY <1>2, <1>3, <1>4 DEF QueueOK

\* The reconnect loop is cancelled, wherever it is.
LEMMA Cancelled ==
  ASSUME NEW q, NEW row \in [Tasks -> Points], QueueOK(q, row), NEW x \in Tasks
  PROVE  QueueOK(Without(q, x), [row EXCEPT ![x] = "idle"])
<1> DEFINE s == Without(q, x)
           new == [row EXCEPT ![x] = "idle"]
<1>1. q \in Seq(Tasks) /\ Distinct(q)
  BY DEF QueueOK
<1>2. /\ s \in Seq(Tasks) /\ Distinct(s) /\ ~InQ(s, x)
      /\ \A y \in Tasks \ {x} : InQ(s, y) <=> InQ(q, y)
      /\ q # <<>> /\ Head(q) # x => Head(s) = Head(q)
  BY <1>1, WithoutQueue
<1>3. \A y \in Tasks : InQ(s, y) <=> new[y] \in Inside \cup {"lock"}
  BY <1>2, PointsAre DEF QueueOK, Outside
<1>4. ASSUME NEW y \in Tasks, new[y] \in Inside
      PROVE  Head(s) = y
  <2>1. y # x /\ row[y] \in Inside
    BY <1>4, PointsAre DEF Outside
  <2>2. q # <<>> /\ Head(q) = y
    BY <2>1, InQueue DEF QueueOK
  <2> QED BY <2>1, <2>2, <1>2
<1> QED BY <1>2, <1>3, <1>4 DEF QueueOK

-----------------------------------------------------------------------------
(* What an action is to the invariant.                                     *)

\* Coordinators not made yet are left alone.
UnmadeKept ==
  /\ made' \in 0..MaxCoords
  /\ DOMAIN phase' = Coords /\ DOMAIN pending' = Coords /\ DOMAIN registered' = Coords
  /\ \A d \in Coords : d > made' =>
       /\ d > made /\ phase'[d] = phase[d] /\ registered'[d] = registered[d]
       /\ pending'[d] => pending[d]

\* What the steps of a coordinator that was made do.
StepOf(c) ==
  /\ UNCHANGED made
  /\ \/ UNCHANGED phase
     \/ \E p : phase' = [phase EXCEPT ![c] = p]
  /\ \/ UNCHANGED pending
     \/ \E b : pending' = [pending EXCEPT ![c] = b]
  /\ \/ UNCHANGED registered
     \/ \E b : registered' = [registered EXCEPT ![c] = b]

LEMMA StepKeeps ==
  ASSUME LockInv, NEW c \in Coords, ~(c > made), StepOf(c)
  PROVE  UnmadeKept /\ ~(c > made')
<1>1. /\ DOMAIN phase' = Coords /\ DOMAIN pending' = Coords /\ DOMAIN registered' = Coords
  BY DEF LockInv, UnmadeIdle, StepOf
<1>2. ASSUME NEW d \in Coords, d > made'
      PROVE  /\ d > made /\ phase'[d] = phase[d] /\ registered'[d] = registered[d]
             /\ pending'[d] = pending[d]
  BY <1>2 DEF LockInv, UnmadeIdle, StepOf
<1> QED BY <1>1, <1>2 DEF LockInv, UnmadeIdle, StepOf, UnmadeKept

LEMMA Moves ==
  ASSUME LockInv, NEW c \in Coords, NEW x \in Tasks, NEW p \in Points,
         at' = [at EXCEPT ![c][x] = p], DOMAIN opq' = Coords,
         \A d \in Coords \ {c} : opq'[d] = opq[d],
         QueueOK(opq'[c], [at[c] EXCEPT ![x] = p]),
         UnmadeKept, ~(c > made')
  PROVE  LockInv'
<1>1. at' \in [Coords -> [Tasks -> Points]]
  BY DEF LockInv, QueuesOK
<1>2. at'[c] = [at[c] EXCEPT ![x] = p] /\ \A d \in Coords \ {c} : at'[d] = at[d]
  BY DEF LockInv, QueuesOK
<1>3. QueuesOK'
  BY <1>1, <1>2 DEF LockInv, QueuesOK, QueueOK
<1>4. UnmadeIdle'
  BY <1>2 DEF LockInv, UnmadeIdle, UnmadeKept, Unmade
<1> QED BY <1>3, <1>4 DEF LockInv

LEMMA Stays ==
  ASSUME LockInv, UNCHANGED <<at, opq>>, UnmadeKept
  PROVE  LockInv'
BY DEF LockInv, QueuesOK, QueueOK, UnmadeIdle, UnmadeKept, Unmade

\* A task that is not idle is one of a coordinator that was made.
LEMMA Made ==
  ASSUME LockInv, NEW c \in Coords,
         \/ phase[c] # "none" \/ pending[c] \/ registered[c]
         \/ \E x \in Tasks : at[c][x] # "idle"
  PROVE  ~(c > made)
BY DEF LockInv, UnmadeIdle, Unmade

-----------------------------------------------------------------------------
(* The ways in which a task of a coordinator that was made moves.          *)

LEMMA Leaving ==
  ASSUME LockInv, NEW c \in Coords, NEW x \in Tasks, NEW p \in Outside,
         at[c][x] \in Inside \/ (at[c][x] = "lock" /\ Holds(c, x)),
         Leave(c, x, p), StepOf(c)
  PROVE  LockInv'
<1>1. at[c] \in [Tasks -> Points] /\ QueueOK(opq[c], at[c]) /\ DOMAIN opq = Coords
  BY DEF LockInv, QueuesOK
<1>2. ~(c > made)
  BY Made, PointsAre DEF Outside
<1>3. Head(opq[c]) = x
  BY <1>1 DEF QueueOK, Holds
<1>4. QueueOK(Tail(opq[c]), [at[c] EXCEPT ![x] = p])
  BY <1>1, <1>3, Leaves
<1>5. /\ at' = [at EXCEPT ![c][x] = p] /\ DOMAIN opq' = Coords
      /\ \A d \in Coords \ {c} : opq'[d] = opq[d]
      /\ opq'[c] = Tail(opq[c])
  BY <1>1 DEF Leave, Goto
<1>6. QueueOK(opq'[c], [at[c] EXCEPT ![x] = p]) /\ p \in Points
  BY <1>4, <1>5, PointsAre
<1>7. UnmadeKept /\ ~(c > made')
  BY <1>2, StepKeeps
<1> QED BY <1>5, <1>6, <1>7, Moves

LEMMA GoingOn ==
  ASSUME LockInv, NEW c \in Coords, NEW x \in Tasks, NEW p \in Inside,
         at[c][x] \in Inside \/ (at[c][x] = "lock" /\ Holds(c, x)),
         Goto(c, x, p), UNCHANGED opq, StepOf(c)
  PROVE  LockInv'
<1>1. at[c] \in [Tasks -> Points] /\ QueueOK(opq[c], at[c]) /\ DOMAIN opq = Coords
  BY DEF LockInv, QueuesOK
<1>2. ~(c > made)
  BY Made, PointsAre DEF Outside
<1>3. QueueOK(opq[c], [at[c] EXCEPT ![x] = p])
  BY <1>1, Enters DEF QueueOK, Holds
<1> QED BY <1>1, <1>2, <1>3, StepKeeps, Moves, PointsAre DEF Goto

LEMMA Asking ==
  ASSUME LockInv, NEW c \in Coords, NEW x \in Tasks, at[c][x] \in Outside, ~(c > made),
         Goto(c, x, "lock"), opq' = [opq EXCEPT ![c] = Append(@, x)], StepOf(c)
  PROVE  LockInv'
<1>1. at[c] \in [Tasks -> Points] /\ QueueOK(opq[c], at[c]) /\ DOMAIN opq = Coords
  BY DEF LockInv, QueuesOK
<1>2. QueueOK(Append(opq[c], x), [at[c] EXCEPT ![x] = "lock"])
  BY <1>1, Joins
<1> QED BY <1>1, <1>2, StepKeeps, Moves, PointsAre DEF Goto

LEMMA Resting ==
  ASSUME LockInv, NEW c \in Coords, UNCHANGED <<at, opq>>, ~(c > made), StepOf(c)
  PROVE  LockInv'
BY StepKeeps, Stays

LEMMA Ending ==
  ASSUME LockInv, NEW c \in Coords, NEW x \in Tasks, NEW e, at[c][x] \in Inside,
         Fails(c, x, e), UNCHANGED <<made, pending, registered>>
  PROVE  LockInv'
<1>1. StepOf(c)
  BY DEF Fails, StepOf
<1>2. \/ Leave(c, x, "sleep")
      \/ Leave(c, x, "idle")
  BY DEF Fails
<1> QED BY <1>1, <1>2, Leaving DEF Outside

-----------------------------------------------------------------------------
LEMMA LockInit == Init => LockInv
<1> SUFFICES ASSUME Init PROVE LockInv
  OBVIOUS
<1>1. <<>> \in Seq(Tasks) /\ Distinct(<<>>) /\ \A x : ~InQ(<<>>, x)
  BY DEF Distinct, InQ
<1>2. QueuesOK
  BY <1>1, PointsAre DEF Init, QueuesOK, QueueOK, Outside
<1>3. UnmadeIdle
  BY NumbersAssumption DEF Init, UnmadeIdle, Unmade
<1> QED BY <1>2, <1>3 DEF LockInv

LEMMA SetupLock ==
  ASSUME LockInv, NEW c \in Coords, BeginSetup(c)
  PROVE  LockInv'
<1>1. at[c] \in [Tasks -> Points] /\ QueueOK(opq[c], at[c]) /\ DOMAIN opq = Coords
  BY DEF LockInv, QueuesOK
<1>2. c = made + 1 /\ made' = c /\ made \in 0..MaxCoords
  BY DEF BeginSetup, LockInv, UnmadeIdle
<1>3. c \in 0..MaxCoords /\ c > made
  BY <1>2, PointsAre DEF Coords
<1>4. DOMAIN phase' = Coords /\ DOMAIN pending' = Coords /\ DOMAIN registered' = Coords
  BY DEF BeginSetup, LockInv, UnmadeIdle
<1>5. ASSUME NEW d \in Coords, d > made'
      PROVE  /\ d > made /\ phase'[d] = phase[d] /\ registered'[d] = registered[d]
             /\ pending'[d] => pending[d]
  <2>1. /\ UNCHANGED pending /\ registered' = [registered EXCEPT ![c] = TRUE]
        /\ \E p : phase' = [phase EXCEPT ![c] = p]
    BY DEF BeginSetup
  <2>2. d > made /\ d # c
    BY <1>2, <1>5, PointsAre
  <2> QED BY <2>1, <2>2 DEF LockInv, UnmadeIdle
<1>6. UnmadeKept
  BY <1>2, <1>3, <1>4, <1>5 DEF UnmadeKept
<1>7. CASE visible
  <2>1. Goto(c, "setup", "net") /\ opq' = [opq EXCEPT ![c] = <<"setup">>]
    BY <1>7 DEF BeginSetup
  <2>2. at[c] = [x \in Tasks |-> "idle"]
    BY <1>3 DEF LockInv, UnmadeIdle, Unmade
  <2>3. "setup" \in Tasks /\ "net" \in Inside /\ "net" \in Points
    BY DEF Tasks, Inside, Points
  <2>4. /\ <<"setup">> \in Seq(Tasks) /\ Distinct(<<"setup">>) /\ Head(<<"setup">>) = "setup"
        /\ \A y : InQ(<<"setup">>, y) <=> y = "setup"
    BY <2>3 DEF Distinct, InQ
  <2>5. QueueOK(<<"setup">>, [at[c] EXCEPT !["setup"] = "net"])
    BY <2>2, <2>3, <2>4, PointsAre DEF QueueOK, Outside
  <2>6. ~(c > made')
    BY <1>2
  <2> QED BY <1>1, <1>6, <2>1, <2>3, <2>5, <2>6, Moves DEF Goto
<1>8. CASE ~visible
  BY <1>6, <1>8, Stays DEF BeginSetup
<1> QED BY <1>7, <1>8

LEMMA ConnectingLock ==
  ASSUME LockInv, NEW c \in Coords, NEW x \in Tasks, Connecting(c, x) \/ Stalls(c, x)
  PROVE  LockInv'
<1>1. CASE NetEnds(c, x)
  <2>1. at[c][x] \in Inside /\ UNCHANGED <<made, pending, registered>>
    BY <1>1 DEF NetEnds, Inside
  <2>2. \/ Goto(c, x, "link") /\ UNCHANGED <<phase, opq>>
        \/ \E e : Fails(c, x, e)
    BY <1>1 DEF NetEnds
  <2>3. UNCHANGED phase => StepOf(c)
    BY <2>1 DEF StepOf
  <2> QED BY <2>1, <2>2, <2>3, GoingOn, Ending DEF Inside
<1>2. CASE LinkEnds(c, x)
  <2>1. at[c][x] \in Inside /\ UNCHANGED <<made, pending, registered>>
    BY <1>2 DEF LinkEnds, Inside
  <2>2. \/ Goto(c, x, "shake") /\ UNCHANGED <<phase, opq>>
        \/ Fails(c, x, "listed")
    BY <1>2 DEF LinkEnds
  <2>3. UNCHANGED phase => StepOf(c)
    BY <2>1 DEF StepOf
  <2> QED BY <2>1, <2>2, <2>3, GoingOn, Ending DEF Inside
<1>3. CASE ShakeEnds(c, x)
  <2>1. at[c][x] \in Inside /\ UNCHANGED <<made, pending, registered>>
    BY <1>3 DEF ShakeEnds, Inside
  <2>2. \/ Succeeds(c, x)
        \/ \E e : Fails(c, x, e)
    BY <1>3 DEF ShakeEnds
  <2>3. Succeeds(c, x) =>
          \/ Leave(c, x, "idle") /\ StepOf(c)
          \/ Goto(c, x, "send") /\ UNCHANGED opq /\ StepOf(c)
    BY <2>1 DEF Succeeds, StepOf
  <2> QED BY <2>1, <2>2, <2>3, GoingOn, Leaving, Ending DEF Inside, Outside
<1>4. CASE Expires(c, x)
  BY <1>4, Ending DEF Expires, Inside
<1>5. CASE Stalls(c, x)
  <2>1. /\ at[c][x] \in Inside /\ Goto(c, x, "stuck") /\ UNCHANGED opq
        /\ UNCHANGED entryVars
    BY <1>5 DEF Stalls, Inside
  <2> QED BY <2>1, GoingOn DEF Inside, StepOf, entryVars
<1> QED BY <1>1, <1>2, <1>3, <1>4, <1>5 DEF Connecting

LEMMA CommandLock ==
  ASSUME LockInv, NEW c \in Coords, NEW k \in Commands, BeginCommand(c, k) \/ CommandStep(c, k)
  PROVE  LockInv'
<1>1. k \in Tasks
  BY DEF Tasks
<1>2. CASE BeginCommand(c, k)
  <2>1. /\ phase[c] = "loaded" /\ at[c][k] \in Outside /\ UNCHANGED entryVars
        /\ Goto(c, k, "lock") /\ opq' = [opq EXCEPT ![c] = Append(@, k)]
    BY <1>2 DEF BeginCommand, Outside
  <2> QED BY <1>1, <2>1, Asking, Made DEF StepOf, entryVars
<1>3. CASE EnterCommand(c, k)
  <2>1. /\ at[c][k] = "lock" /\ Holds(c, k) /\ UNCHANGED entryVars
        /\ \/ Leave(c, k, "idle")
           \/ Goto(c, k, "send") /\ UNCHANGED opq
           \/ Goto(c, k, "link") /\ UNCHANGED opq
    BY <1>3 DEF EnterCommand
  <2> QED BY <1>1, <2>1, Leaving, GoingOn DEF StepOf, entryVars, Inside, Outside
<1>4. CASE SendEnds(c, k)
  <2>1. at[c][k] \in Inside /\ Leave(c, k, "idle") /\ UNCHANGED entryVars
    BY <1>4 DEF SendEnds, Inside
  <2> QED BY <1>1, <2>1, Leaving DEF StepOf, entryVars, Outside
<1> QED BY <1>2, <1>3, <1>4 DEF CommandStep

LEMMA LoopLock ==
  ASSUME LockInv, NEW c \in Coords, LoopStep(c)
  PROVE  LockInv'
<1>1. "loop" \in Tasks
  BY DEF Tasks
<1>2. at[c] \in [Tasks -> Points] /\ QueueOK(opq[c], at[c]) /\ DOMAIN opq = Coords
  BY DEF LockInv, QueuesOK
<1>3. CASE StartReconnect(c)
  <2>1. ~(c > made) /\ StepOf(c) /\ UNCHANGED opq
    BY <1>3, Made DEF StartReconnect, StepOf
  <2>2. CASE Running(c)
    BY <1>3, <2>1, <2>2, Resting DEF StartReconnect
  <2>3. CASE ~Running(c)
    <3>1. Goto(c, "loop", "sleep") /\ at[c]["loop"] \in Outside
      BY <1>3, <2>3 DEF StartReconnect, Running, Outside
    <3>2. QueueOK(opq[c], [at[c] EXCEPT !["loop"] = "sleep"])
      BY <1>1, <1>2, <3>1, Rests DEF Outside
    <3> QED BY <1>1, <1>2, <2>1, <3>1, <3>2, StepKeeps, Moves DEF Goto, Points
  <2> QED BY <2>2, <2>3
<1>4. CASE LoopWakes(c)
  <2>1. ~(c > made) /\ StepOf(c) /\ at[c]["loop"] \in Outside
    BY <1>1, <1>4, Made DEF LoopWakes, StepOf, entryVars, Outside
  <2>2. CASE visible
    BY <1>1, <1>4, <2>1, <2>2, Asking DEF LoopWakes
  <2>3. CASE ~visible
    BY <1>4, <2>1, <2>3, Resting DEF LoopWakes
  <2> QED BY <2>2, <2>3
<1>5. CASE EnterLoop(c)
  <2>1. /\ at[c]["loop"] = "lock" /\ Holds(c, "loop") /\ UNCHANGED entryVars
        /\ Goto(c, "loop", "net") /\ UNCHANGED opq
    BY <1>5 DEF EnterLoop
  <2> QED BY <1>1, <2>1, GoingOn DEF StepOf, entryVars, Inside
<1> QED BY <1>3, <1>4, <1>5 DEF LoopStep

LEMMA UnloadLock ==
  ASSUME LockInv, NEW c \in Coords, Unload(c)
  PROVE  LockInv'
<1>1. "loop" \in Tasks /\ "idle" \in Points
  BY DEF Tasks, Points
<1>2. at[c] \in [Tasks -> Points] /\ QueueOK(opq[c], at[c]) /\ DOMAIN opq = Coords
  BY DEF LockInv, QueuesOK
<1>3. /\ ~(c > made) /\ StepOf(c) /\ Goto(c, "loop", "idle")
      /\ opq' = [opq EXCEPT ![c] = Without(@, "loop")]
  BY Made DEF Unload, StepOf
<1>4. QueueOK(Without(opq[c], "loop"), [at[c] EXCEPT !["loop"] = "idle"])
  BY <1>1, <1>2, Cancelled
<1> QED BY <1>1, <1>2, <1>3, <1>4, StepKeeps, Moves DEF Goto

LEMMA ShutdownLock ==
  ASSUME LockInv, NEW c \in Coords, ShutdownStep(c)
  PROVE  LockInv'
<1>1. phase[c] # "none" /\ UNCHANGED <<at, opq, made>> /\ StepOf(c)
  BY DEF ShutdownStep, Unregister, Closed, StepOf, taskVars
<1> QED BY <1>1, Made, Resting

\* A link that is lost is reported only to a coordinator that was made.
LEMMA LossLock ==
  ASSUME LockInv, NEW c \in Coords, LinkLost(c) \/ StrayLost(c)
  PROVE  LockInv'
<1>1. /\ UNCHANGED <<at, opq, made, phase, registered>>
      /\ \/ UNCHANGED pending
         \/ \E b : pending' = [pending EXCEPT ![c] = pending[c] \/ (b /\ Told(c))]
  BY DEF LinkLost, StrayLost, taskVars
<1>2. DOMAIN pending' = Coords
  BY <1>1 DEF LockInv, UnmadeIdle
<1>3. ASSUME NEW d \in Coords, d > made
      PROVE  pending'[d] => pending[d]
  <2>1. ~registered[d]
    BY <1>3 DEF LockInv, UnmadeIdle, Unmade
  <2> QED BY <1>1, <2>1 DEF LockInv, UnmadeIdle, Told
<1>4. UnmadeKept
  BY <1>1, <1>2, <1>3 DEF LockInv, UnmadeIdle, UnmadeKept
<1> QED BY <1>1, <1>4, Stays

LEMMA ProbeLock ==
  ASSUME LockInv, ProbeBegins \/ ProbeGoesOn \/ ProbeEnds \/ WorldChanges
  PROVE  LockInv'
<1>1. CASE \E c \in Coords : Unload(c)
  BY <1>1, UnloadLock
<1>2. CASE UNCHANGED <<at, opq, made, phase, pending, registered>>
  <2>1. UnmadeKept
    BY <1>2 DEF LockInv, UnmadeIdle, UnmadeKept
  <2> QED BY <1>2, <2>1, Stays
<1>3. ProbeEnds /\ made > 0 => made \in Coords
  BY PointsAre DEF LockInv, UnmadeIdle, Coords
<1> QED
  BY <1>1, <1>2, <1>3 DEF ProbeBegins, ProbeGoesOn, ProbeEnds, WorldChanges, entryVars, taskVars

LEMMA LockNext == LockInv /\ [Next]_vars => LockInv'
<1> SUFFICES ASSUME LockInv, [Next]_vars PROVE LockInv'
  OBVIOUS
<1>1. ASSUME NEW c \in Coords, BeginSetup(c) PROVE LockInv'
  BY <1>1, SetupLock
<1>2. ASSUME NEW c \in Coords, BeginUnload(c) PROVE LockInv'
  BY <1>2, UnloadLock DEF BeginUnload
<1>3. ASSUME NEW c \in Coords, LinkLost(c) \/ StrayLost(c) PROVE LockInv'
  BY <1>3, LossLock
<1>4. ASSUME NEW c \in Coords, LoopStep(c) PROVE LockInv'
  BY <1>4, LoopLock
<1>5. ASSUME NEW c \in Coords, ShutdownStep(c) PROVE LockInv'
  BY <1>5, ShutdownLock
<1>6. ASSUME NEW c \in Coords, NEW x \in Tasks, Connecting(c, x) \/ Stalls(c, x)
      PROVE  LockInv'
  BY <1>6, ConnectingLock
<1>7. ASSUME NEW c \in Coords, NEW k \in Commands, BeginCommand(c, k) \/ CommandStep(c, k)
      PROVE  LockInv'
  BY <1>7, CommandLock
<1>8. CASE ProbeBegins \/ ProbeGoesOn \/ ProbeEnds \/ WorldChanges
  BY <1>8, ProbeLock
<1>9. CASE UNCHANGED vars
  <2>1. UNCHANGED <<at, opq, made, phase, pending, registered>>
    BY <1>9 DEF vars, entryVars, taskVars
  <2>2. UnmadeKept
    BY <2>1 DEF LockInv, UnmadeIdle, UnmadeKept
  <2> QED BY <2>1, <2>2, Stays
<1> QED BY <1>1, <1>2, <1>3, <1>4, <1>5, <1>6, <1>7, <1>8, <1>9 DEF Next

\* One task at a time is inside the library on behalf of a coordinator, and it
\* holds _op_lock: whatever fails, stalls, is cancelled or reloaded.
THEOREM OneTaskInside == Spec => []OneInside
<1>1. LockInv => OneInside
  <2> SUFFICES ASSUME LockInv, NEW c \in Coords, NEW x \in Tasks, NEW y \in Tasks,
                      at[c][x] \in Inside, at[c][y] \in Inside
               PROVE  x = y /\ Holds(c, x)
    BY DEF OneInside
  <2>1. QueueOK(opq[c], at[c])
    BY DEF LockInv, QueuesOK
  <2>2. opq[c] \in Seq(Tasks) /\ InQ(opq[c], x) /\ Head(opq[c]) = x /\ Head(opq[c]) = y
    BY <2>1 DEF QueueOK
  <2> QED BY <2>2, InQueue DEF Holds
<1> QED BY <1>1, LockInit, LockNext, PTL DEF Spec

-----------------------------------------------------------------------------
(* Shutdown.  A coordinator with nothing under way when its handlers are   *)
(* unregistered stays so: only a loaded entry gets commands, and a lost    *)
(* link or the disconnection at the end is told to registered handlers.    *)

ShutOK(c) ==
  phase[c] \in {"closing", "gone"} /\ clean[c] =>
    Quiet(c) /\ ~registered[c] /\ (phase[c] = "gone" => ~cl[c].link)

ShutInv ==
  /\ DOMAIN at = Coords /\ DOMAIN phase = Coords /\ DOMAIN pending = Coords
  /\ DOMAIN registered = Coords /\ DOMAIN clean = Coords /\ DOMAIN cl = Coords
  /\ \A c \in Coords : ShutOK(c)

\* The step is one of coordinator c.
Touches(c) ==
  /\ UNCHANGED at \/ \E f : at' = [at EXCEPT ![c] = f]
  /\ UNCHANGED phase \/ \E p : phase' = [phase EXCEPT ![c] = p]
  /\ UNCHANGED pending \/ \E b : pending' = [pending EXCEPT ![c] = b]
  /\ UNCHANGED registered \/ \E b : registered' = [registered EXCEPT ![c] = b]
  /\ UNCHANGED clean \/ \E b : clean' = [clean EXCEPT ![c] = b]
  /\ UNCHANGED cl \/ \E r : cl' = [cl EXCEPT ![c] = r]

LEMMA GotoTouches ==
  ASSUME NEW c \in Coords, NEW x, NEW p, Goto(c, x, p)
  PROVE  \E f : at' = [at EXCEPT ![c] = f]
BY DEF Goto

LEMMA ShutKeeps ==
  ASSUME ShutInv, NEW c \in Coords, Touches(c), ShutOK(c)'
  PROVE  ShutInv'
<1>1. /\ DOMAIN at' = Coords /\ DOMAIN phase' = Coords /\ DOMAIN pending' = Coords
      /\ DOMAIN registered' = Coords /\ DOMAIN clean' = Coords /\ DOMAIN cl' = Coords
  BY DEF ShutInv, Touches
<1>2. ASSUME NEW d \in Coords \ {c}
      PROVE  /\ at'[d] = at[d] /\ phase'[d] = phase[d] /\ pending'[d] = pending[d]
             /\ registered'[d] = registered[d] /\ clean'[d] = clean[d] /\ cl'[d] = cl[d]
  BY DEF ShutInv, Touches
<1>3. ASSUME NEW d \in Coords \ {c} PROVE ShutOK(d)'
  BY <1>2 DEF ShutInv, ShutOK, Quiet
<1> QED BY <1>1, <1>3 DEF ShutInv

\* The entry is not being shut down.
LEMMA Opened ==
  ASSUME ShutInv, NEW c \in Coords, Touches(c), phase'[c] \notin {"closing", "gone"}
  PROVE  ShutInv'
BY ShutKeeps DEF ShutOK

\* Something is under way.
LEMMA Busy ==
  ASSUME ShutInv, NEW c \in Coords, Touches(c), UNCHANGED clean,
         pending[c] \/ \E x \in Tasks : at[c][x] # "idle",
         phase'[c] \in {phase[c], "setup", "notReady", "authFailed", "error", "loaded"}
  PROVE  ShutInv'
BY ShutKeeps DEF ShutInv, ShutOK, Quiet

LEMMA EndingShut ==
  ASSUME NEW c \in Coords, NEW x \in Tasks, NEW e, Fails(c, x, e), DOMAIN phase = Coords
  PROVE  /\ \E f : at' = [at EXCEPT ![c] = f]
         /\ UNCHANGED phase \/ \E p : phase' = [phase EXCEPT ![c] = p]
         /\ phase'[c] \in {phase[c], "notReady", "authFailed", "error"}
<1>1. \E f : at' = [at EXCEPT ![c] = f]
  BY GotoTouches DEF Fails, Leave
<1>2. UNCHANGED phase \/ \E p \in {"notReady", "authFailed", "error"} :
                           phase' = [phase EXCEPT ![c] = p]
  <2> DEFINE p == CASE e = "auth" -> "authFailed"
                    [] e = "listed" -> "notReady"
                    [] OTHER -> "error"
  <2>1. p \in {"notReady", "authFailed", "error"}
    OBVIOUS
  <2>2. UNCHANGED phase \/ phase' = [phase EXCEPT ![c] = p]
    BY DEF Fails
  <2> QED BY <2>1, <2>2
<1> QED BY <1>1, <1>2

LEMMA ConnectingShut ==
  ASSUME ShutInv, NEW c \in Coords, NEW x \in Tasks, Connecting(c, x) \/ Stalls(c, x)
  PROVE  ShutInv'
<1>1. at[c][x] # "idle" /\ UNCHANGED <<pending, registered, clean>> /\ DOMAIN phase = Coords
  BY DEF Connecting, NetEnds, LinkEnds, ShakeEnds, Expires, Stalls, ShutInv, entryVars
<1>2. UNCHANGED cl \/ \E r : cl' = [cl EXCEPT ![c] = r]
  BY DEF Connecting, NetEnds, LinkEnds, ShakeEnds, Expires, Stalls, linkVars
<1>3. \/ \E e : Fails(c, x, e)
      \/ Succeeds(c, x)
      \/ UNCHANGED phase /\ \E p : Goto(c, x, p)
  BY DEF Connecting, NetEnds, LinkEnds, ShakeEnds, Expires, Stalls, entryVars
<1>4. Succeeds(c, x) =>
        /\ \E p : Goto(c, x, p)
        /\ UNCHANGED phase \/ phase' = [phase EXCEPT ![c] = "loaded"]
  BY DEF Succeeds, Leave
<1>5. CASE \E e : Fails(c, x, e)
  BY <1>1, <1>2, <1>5, EndingShut, Busy DEF Touches
<1>6. CASE (UNCHANGED phase \/ phase' = [phase EXCEPT ![c] = "loaded"])
           /\ \E p : Goto(c, x, p)
  <2>1. \E f : at' = [at EXCEPT ![c] = f]
    BY <1>6, GotoTouches
  <2>2. phase'[c] \in {phase[c], "loaded"}
    BY <1>1, <1>6
  <2>3. Touches(c)
    BY <1>1, <1>2, <1>6, <2>1 DEF Touches
  <2> QED BY <1>1, <2>2, <2>3, Busy
<1> QED BY <1>3, <1>4, <1>5, <1>6

LEMMA CommandShut ==
  ASSUME ShutInv, NEW c \in Coords, NEW k \in Commands, BeginCommand(c, k) \/ CommandStep(c, k)
  PROVE  ShutInv'
<1>1. /\ UNCHANGED entryVars /\ \E p : Goto(c, k, p)
      /\ UNCHANGED cl \/ \E r : cl' = [cl EXCEPT ![c] = r]
  BY DEF BeginCommand, CommandStep, EnterCommand, SendEnds, Leave, linkVars
<1>2. Touches(c)
  BY <1>1, GotoTouches DEF Touches, entryVars
<1>3. k \in Tasks
  BY DEF Tasks
<1>4. CASE BeginCommand(c, k)
  BY <1>1, <1>2, <1>4, Opened DEF BeginCommand, entryVars
<1>5. CASE CommandStep(c, k)
  <2>1. at[c][k] # "idle"
    BY <1>5 DEF CommandStep, EnterCommand, SendEnds
  <2> QED BY <1>1, <1>2, <1>3, <2>1, Busy DEF entryVars
<1> QED BY <1>4, <1>5

LEMMA LoopShut ==
  ASSUME ShutInv, NEW c \in Coords, LoopStep(c)
  PROVE  ShutInv'
<1>1. "loop" \in Tasks
  BY DEF Tasks
<1>2. /\ UNCHANGED <<phase, registered, clean, cl>>
      /\ UNCHANGED pending \/ \E b : pending' = [pending EXCEPT ![c] = b]
      /\ UNCHANGED at \/ \E p : Goto(c, "loop", p)
      /\ pending[c] \/ at[c]["loop"] # "idle"
  BY DEF LoopStep, StartReconnect, LoopWakes, EnterLoop, entryVars, linkVars
<1>3. Touches(c)
  BY <1>2, GotoTouches DEF Touches
<1> QED BY <1>1, <1>2, <1>3, Busy

LEMMA SetupShut ==
  ASSUME ShutInv, NEW c \in Coords, BeginSetup(c)
  PROVE  ShutInv'
<1>1. /\ UNCHANGED <<pending, clean, cl>>
      /\ \E b : registered' = [registered EXCEPT ![c] = b]
      /\ \/ phase' = [phase EXCEPT ![c] = "setup"]
         \/ phase' = [phase EXCEPT ![c] = "notReady"]
      /\ UNCHANGED at \/ \E p : Goto(c, "setup", p)
  BY DEF BeginSetup, linkVars
<1>2. Touches(c)
  BY <1>1, GotoTouches DEF Touches
<1>3. phase'[c] \in {"setup", "notReady"}
  BY <1>1 DEF ShutInv
<1> QED BY <1>2, <1>3, Opened

LEMMA UnloadShut ==
  ASSUME ShutInv, NEW c \in Coords, Unload(c)
  PROVE  ShutInv'
<1>1. /\ UNCHANGED <<pending, registered, clean, cl>> /\ Goto(c, "loop", "idle")
      /\ phase' = [phase EXCEPT ![c] = "stopping"]
  BY DEF Unload, linkVars
<1>2. Touches(c)
  BY <1>1, GotoTouches DEF Touches
<1>3. phase'[c] = "stopping"
  BY <1>1 DEF ShutInv
<1> QED BY <1>2, <1>3, Opened

LEMMA UnregisterShut ==
  ASSUME ShutInv, NEW c \in Coords, Unregister(c)
  PROVE  ShutInv'
<1>1. /\ UNCHANGED <<at, pending, cl>>
      /\ phase' = [phase EXCEPT ![c] = "closing"]
      /\ clean' = [clean EXCEPT ![c] = Quiet(c)]
      /\ registered' = [registered EXCEPT ![c] = FALSE]
  BY DEF Unregister, taskVars, linkVars
<1>2. Touches(c)
  BY <1>1 DEF Touches
<1>3. /\ phase'[c] = "closing" /\ clean'[c] = Quiet(c) /\ ~registered'[c]
      /\ Quiet(c)' = Quiet(c)
  BY <1>1 DEF ShutInv, Quiet
<1> QED BY <1>2, <1>3, ShutKeeps DEF ShutOK

LEMMA ClosedShut ==
  ASSUME ShutInv, NEW c \in Coords, Closed(c)
  PROVE  ShutInv'
<1>1. /\ UNCHANGED <<at, registered, clean>> /\ phase[c] = "closing"
      /\ phase' = [phase EXCEPT ![c] = "gone"]
      /\ pending' = [pending EXCEPT ![c] = pending[c] \/ (cl[c].st = "up" /\ Told(c))]
      /\ cl' = [cl EXCEPT ![c] = [st |-> "down", link |-> FALSE]]
  BY DEF Closed, taskVars
<1>2. Touches(c)
  BY <1>1 DEF Touches
<1>3. ASSUME clean[c] PROVE Quiet(c)' /\ ~registered'[c] /\ ~cl'[c].link
  <2>1. Quiet(c) /\ ~registered[c]
    BY <1>1, <1>3 DEF ShutInv, ShutOK
  <2>2. ~pending'[c]
    BY <1>1, <2>1 DEF ShutInv, Quiet, Told
  <2>3. ~cl'[c].link
    BY <1>1 DEF ShutInv
  <2> QED BY <1>1, <2>1, <2>2, <2>3 DEF Quiet
<1> QED BY <1>1, <1>2, <1>3, ShutKeeps DEF ShutOK

LEMMA LossShut ==
  ASSUME ShutInv, NEW c \in Coords, LinkLost(c) \/ StrayLost(c)
  PROVE  ShutInv'
<1>1. /\ UNCHANGED <<at, phase, registered, clean>>
      /\ \/ UNCHANGED pending
         \/ \E b : pending' = [pending EXCEPT ![c] = pending[c] \/ (b /\ Told(c))]
      /\ \/ UNCHANGED cl
         \/ \E s : cl' = [cl EXCEPT ![c] = [link |-> FALSE, st |-> s]]
  BY DEF LinkLost, StrayLost, taskVars
<1>2. Touches(c)
  BY <1>1 DEF Touches
<1>3. ASSUME phase[c] \in {"closing", "gone"}, clean[c]
      PROVE  Quiet(c)' /\ ~registered'[c] /\ (phase[c] = "gone" => ~cl'[c].link)
  <2>1. Quiet(c) /\ ~registered[c] /\ (phase[c] = "gone" => ~cl[c].link)
    BY <1>3 DEF ShutInv, ShutOK
  <2>2. ~pending'[c]
    BY <1>1, <2>1 DEF ShutInv, Quiet, Told
  <2>3. phase[c] = "gone" => ~cl'[c].link
    BY <1>1, <2>1 DEF ShutInv
  <2> QED BY <1>1, <2>1, <2>2, <2>3 DEF Quiet
<1> QED BY <1>1, <1>2, <1>3, ShutKeeps DEF ShutOK

LEMMA StillShut ==
  ASSUME ShutInv, UNCHANGED <<at, phase, pending, registered, clean, cl>>
  PROVE  ShutInv'
BY DEF ShutInv, ShutOK, Quiet

LEMMA ProbeShut ==
  ASSUME ShutInv, made \in 0..MaxCoords,
         ProbeBegins \/ ProbeGoesOn \/ ProbeEnds \/ WorldChanges
  PROVE  ShutInv'
<1>1. made > 0 => made \in Coords
  BY PointsAre, NumbersAssumption DEF Coords
<1>2. \/ made > 0 /\ Unload(made)
      \/ UNCHANGED <<at, phase, pending, registered, clean, cl>>
  BY DEF ProbeBegins, ProbeGoesOn, ProbeEnds, WorldChanges, entryVars, taskVars, linkVars
<1> QED BY <1>1, <1>2, UnloadShut, StillShut

LEMMA ShutNext == LockInv /\ ShutInv /\ [Next]_vars => ShutInv'
<1> SUFFICES ASSUME LockInv, ShutInv, [Next]_vars PROVE ShutInv'
  OBVIOUS
<1>1. ASSUME NEW c \in Coords,
             \/ BeginSetup(c) \/ BeginUnload(c) \/ LinkLost(c) \/ StrayLost(c)
             \/ LoopStep(c) \/ ShutdownStep(c)
      PROVE  ShutInv'
  BY <1>1, SetupShut, UnloadShut, LossShut, LoopShut, UnregisterShut, ClosedShut
     DEF BeginUnload, ShutdownStep
<1>2. ASSUME NEW c \in Coords, NEW x \in Tasks, Connecting(c, x) \/ Stalls(c, x)
      PROVE  ShutInv'
  BY <1>2, ConnectingShut
<1>3. ASSUME NEW c \in Coords, NEW k \in Commands, BeginCommand(c, k) \/ CommandStep(c, k)
      PROVE  ShutInv'
  BY <1>3, CommandShut
<1>4. CASE ProbeBegins \/ ProbeGoesOn \/ ProbeEnds \/ WorldChanges
  BY <1>4, ProbeShut DEF LockInv, UnmadeIdle
<1>5. CASE UNCHANGED vars
  BY <1>5, StillShut DEF vars, entryVars, taskVars, linkVars
<1> QED BY <1>1, <1>2, <1>3, <1>4, <1>5 DEF Next

\* Nothing comes back to life after async_shutdown when no command, loop or
\* callback was under way as the handlers were unregistered: however many
\* coordinators there were, and whatever fails, is lost or is reloaded later.
THEOREM ShutdownIsFinal == Spec => []ShutdownFinal
<1>1. ShutInv => ShutdownFinal
  <2> SUFFICES ASSUME ShutInv, NEW c \in Coords, phase[c] = "gone", clean[c]
               PROVE  ~Running(c) /\ ~pending[c] /\ ~cl[c].link
    BY DEF ShutdownFinal
  <2>1. Quiet(c) /\ ~cl[c].link
    BY DEF ShutInv, ShutOK
  <2> QED BY <2>1 DEF Quiet, Running, Tasks
<1>2. Init => ShutInv
  BY DEF Init, ShutInv, ShutOK
<1> QED BY <1>1, <1>2, LockInit, LockNext, ShutNext, PTL DEF Spec

-----------------------------------------------------------------------------
(* The data of a loaded entry.  Only the last coordinator is set up or     *)
(* loaded, so that the flow which ends the reauthentication unloads the    *)
(* one whose loop gave up.                                                 *)

DataOK(c) ==
  /\ phase[c] \in {"setup", "loaded"} => c = made
  /\ at[c]["setup"] # "idle" => phase[c] = "setup"
  /\ phase[c] = "loaded" => Running(c) \/ reauth \/ current[c]

DataInv == DOMAIN current = Coords /\ \A c \in Coords : DataOK(c)

\* What a step of coordinator c leaves of the data of others.
Spares(c) ==
  /\ UNCHANGED made /\ (reauth => reauth')
  /\ UNCHANGED current \/ \E b : current' = [current EXCEPT ![c] = b]

LEMMA DataKeeps ==
  ASSUME ShutInv, DataInv, NEW c \in Coords, Touches(c), Spares(c), DataOK(c)'
  PROVE  DataInv'
<1>1. DOMAIN current' = Coords
  BY DEF DataInv, Spares
<1>2. ASSUME NEW d \in Coords \ {c}
      PROVE  at'[d] = at[d] /\ phase'[d] = phase[d] /\ current'[d] = current[d]
  BY DEF ShutInv, DataInv, Touches, Spares
<1>3. ASSUME NEW d \in Coords \ {c} PROVE DataOK(d)'
  BY <1>2 DEF DataInv, DataOK, Spares, Running
<1> QED BY <1>1, <1>3 DEF DataInv

LEMMA GotoData ==
  ASSUME LockInv, NEW c \in Coords, NEW x \in Tasks, NEW p, Goto(c, x, p)
  PROVE  at'[c][x] = p /\ \A y \in Tasks \ {x} : at'[c][y] = at[c][y]
BY DEF LockInv, QueuesOK, Goto

LEMMA TasksDiffer ==
  /\ "setup" \in Tasks /\ "loop" \in Tasks
  /\ \A k \in Commands : k \in Tasks /\ k # "setup" /\ k # "loop"
BY CommandsAssumption DEF Tasks

LEMMA ConnectingTouches ==
  ASSUME ShutInv, NEW c \in Coords, NEW x \in Tasks, Connecting(c, x) \/ Stalls(c, x)
  PROVE  /\ Touches(c) /\ UNCHANGED made /\ at[c][x] # "idle"
         /\ \/ \E e : Fails(c, x, e) /\ UNCHANGED current
            \/ Succeeds(c, x) /\ UNCHANGED reauth
            \/ /\ UNCHANGED <<phase, current, reauth>>
               /\ \E p \in Inside : Goto(c, x, p)
<1>1. /\ at[c][x] # "idle" /\ UNCHANGED <<made, pending, registered, clean>>
      /\ DOMAIN phase = Coords
  BY DEF Connecting, NetEnds, LinkEnds, ShakeEnds, Expires, Stalls, ShutInv, entryVars
<1>2. UNCHANGED cl \/ \E r : cl' = [cl EXCEPT ![c] = r]
  BY DEF Connecting, NetEnds, LinkEnds, ShakeEnds, Expires, Stalls, linkVars
<1>3. {"link", "shake", "stuck"} \subseteq Inside
  BY DEF Inside
<1>4. \/ \E e : Fails(c, x, e) /\ UNCHANGED current
      \/ Succeeds(c, x) /\ UNCHANGED reauth
      \/ /\ UNCHANGED <<phase, current, reauth>>
         /\ \E p \in {"link", "shake", "stuck"} : Goto(c, x, p)
  <2>1. CASE NetEnds(c, x)
    BY <2>1 DEF NetEnds
  <2>2. CASE LinkEnds(c, x)
    BY <2>2 DEF LinkEnds, netVars
  <2>3. CASE ShakeEnds(c, x)
    BY <2>3 DEF ShakeEnds
  <2>4. CASE Expires(c, x)
    BY <2>4 DEF Expires, netVars
  <2>5. CASE Stalls(c, x)
    BY <2>5 DEF Stalls, entryVars, netVars, flowVars
  <2> QED BY <2>1, <2>2, <2>3, <2>4, <2>5 DEF Connecting
<1>5. Succeeds(c, x) =>
        /\ \E p : Goto(c, x, p)
        /\ UNCHANGED phase \/ \E p : phase' = [phase EXCEPT ![c] = p]
  BY DEF Succeeds, Leave
<1>6. Touches(c)
  BY <1>1, <1>2, <1>4, <1>5, EndingShut, GotoTouches DEF Touches
<1> QED BY <1>1, <1>3, <1>4, <1>6

LEMMA ConnectingData ==
  ASSUME LockInv, ShutInv, DataInv, NEW c \in Coords, NEW x \in Tasks,
         Connecting(c, x) \/ Stalls(c, x)
  PROVE  DataInv'
<1>1. /\ Touches(c) /\ UNCHANGED made /\ at[c][x] # "idle" /\ DataOK(c)
      /\ \/ \E e : Fails(c, x, e) /\ UNCHANGED current
         \/ Succeeds(c, x) /\ UNCHANGED reauth
         \/ /\ UNCHANGED <<phase, current, reauth>>
            /\ \E p \in Inside : Goto(c, x, p)
  BY ConnectingTouches DEF DataInv
<1>2. DOMAIN phase = Coords /\ DOMAIN current = Coords
  BY DEF ShutInv, DataInv
<1>3. x = "setup" \/ x = "loop" \/ x \in Commands
  BY DEF Tasks
<1>4. CASE \E e : Fails(c, x, e) /\ UNCHANGED current
  <2>1. PICK e : Fails(c, x, e) /\ UNCHANGED current
    BY <1>4
  <2>2. Spares(c)
    BY <1>1, <2>1 DEF Spares, Fails
  <2>3. CASE x = "setup"
    <3>1. at'[c]["setup"] = "idle"
      BY <2>1, <2>3, GotoData DEF Fails, Leave
    <3>2. phase'[c] \notin {"setup", "loaded"}
      BY <1>2, <2>1, <2>3 DEF Fails
    <3> QED BY <1>1, <2>2, <3>1, <3>2, DataKeeps DEF DataOK
  <2>4. CASE x # "setup"
    <3>1. UNCHANGED phase /\ at'[c]["setup"] = at[c]["setup"]
      BY <2>1, <2>4, GotoData, TasksDiffer DEF Fails, Leave
    <3>2. ASSUME x = "loop" PROVE reauth' \/ at'[c]["loop"] = "sleep"
      <4>1. CASE e = "auth"
        BY <2>1, <3>2, <4>1 DEF Fails
      <4>2. CASE e # "auth"
        <5>1. Goto(c, x, "sleep")
          BY <2>1, <3>2, <4>2 DEF Fails, Leave
        <5> QED BY <3>2, <5>1, GotoData
      <4> QED BY <4>1, <4>2
    <3>3. x # "loop" => at'[c]["loop"] = at[c]["loop"]
      BY <2>1, GotoData, TasksDiffer DEF Fails, Leave
    <3>4. reauth => reauth'
      BY <2>1 DEF Fails
    <3> QED BY <1>1, <2>1, <2>2, <3>1, <3>2, <3>3, <3>4, DataKeeps DEF DataOK, Running
  <2> QED BY <2>3, <2>4
<1>5. CASE Succeeds(c, x) /\ UNCHANGED reauth
  <2>1. Spares(c)
    BY <1>1, <1>5 DEF Spares, Succeeds
  <2>2. CASE x = "setup"
    <3>1. Goto(c, x, "idle") /\ phase' = [phase EXCEPT ![c] = "loaded"]
          /\ current' = [current EXCEPT ![c] = TRUE]
      BY <1>5, <2>2, TasksDiffer DEF Succeeds, Leave
    <3>2. c = made /\ at'[c]["setup"] = "idle" /\ current'[c]
      BY <1>1, <1>2, <2>2, <3>1, GotoData DEF DataOK
    <3> QED BY <1>1, <2>1, <3>2, DataKeeps DEF DataOK
  <2>3. CASE x = "loop"
    <3>1. Goto(c, x, "idle") /\ UNCHANGED phase /\ current' = [current EXCEPT ![c] = TRUE]
      BY <1>5, <2>3, TasksDiffer DEF Succeeds, Leave
    <3>2. at'[c]["setup"] = at[c]["setup"] /\ current'[c]
      BY <1>2, <2>3, <3>1, GotoData, TasksDiffer
    <3> QED BY <1>1, <2>1, <3>1, <3>2, DataKeeps DEF DataOK
  <2>4. CASE x \in Commands
    <3>1. Goto(c, x, "send") /\ UNCHANGED <<phase, current>>
      BY <1>5, <2>4, TasksDiffer DEF Succeeds
    <3>2. at'[c]["setup"] = at[c]["setup"] /\ at'[c]["loop"] = at[c]["loop"]
      BY <2>4, <3>1, GotoData, TasksDiffer
    <3> QED BY <1>1, <1>5, <2>1, <3>1, <3>2, DataKeeps DEF DataOK, Running
  <2> QED BY <1>3, <2>2, <2>3, <2>4
<1>6. CASE UNCHANGED <<phase, current, reauth>> /\ \E p \in Inside : Goto(c, x, p)
  <2>1. at'[c][x] # "idle" /\ \A y \in Tasks \ {x} : at'[c][y] = at[c][y]
    BY <1>6, GotoData, PointsAre DEF Outside
  <2>2. at'[c]["setup"] # "idle" => at[c]["setup"] # "idle"
    BY <1>1, <2>1, TasksDiffer
  <2>3. Running(c) => Running(c)'
    BY <2>1, TasksDiffer DEF Running
  <2>4. Spares(c)
    BY <1>1, <1>6 DEF Spares
  <2> QED BY <1>1, <1>6, <2>2, <2>3, <2>4, DataKeeps DEF DataOK
<1> QED BY <1>1, <1>4, <1>5, <1>6

LEMMA CommandData ==
  ASSUME LockInv, ShutInv, DataInv, NEW c \in Coords, NEW k \in Commands,
         BeginCommand(c, k) \/ CommandStep(c, k)
  PROVE  DataInv'
<1>1. /\ UNCHANGED entryVars /\ UNCHANGED <<current, reauth>> /\ \E p : Goto(c, k, p)
      /\ UNCHANGED cl \/ \E r : cl' = [cl EXCEPT ![c] = r]
  BY DEF BeginCommand, CommandStep, EnterCommand, SendEnds, Leave, linkVars, netVars, flowVars
<1>2. Touches(c) /\ Spares(c)
  BY <1>1, GotoTouches DEF Touches, Spares, entryVars
<1>3. at'[c]["setup"] = at[c]["setup"] /\ at'[c]["loop"] = at[c]["loop"]
  BY <1>1, GotoData, TasksDiffer
<1>4. DataOK(c)'
  BY <1>1, <1>3 DEF DataInv, DataOK, Running, entryVars
<1> QED BY <1>2, <1>4, DataKeeps

LEMMA LoopData ==
  ASSUME LockInv, ShutInv, DataInv, NEW c \in Coords, LoopStep(c)
  PROVE  DataInv'
<1>1. /\ UNCHANGED <<made, phase, registered, clean, cl, reauth>>
      /\ UNCHANGED pending \/ \E b : pending' = [pending EXCEPT ![c] = b]
      /\ UNCHANGED current \/ \E b : current' = [current EXCEPT ![c] = b]
      /\ \/ UNCHANGED at /\ Running(c)
         \/ \E p \in {"sleep", "lock", "net"} : Goto(c, "loop", p)
  BY DEF LoopStep, StartReconnect, LoopWakes, EnterLoop, entryVars, linkVars, netVars,
         flowVars, Running
<1>2. Touches(c) /\ Spares(c)
  BY <1>1, GotoTouches DEF Touches, Spares
<1>3. at'[c]["setup"] = at[c]["setup"] /\ Running(c)'
  BY <1>1, GotoData, TasksDiffer DEF Running
<1>4. DataOK(c)'
  BY <1>1, <1>3 DEF DataInv, DataOK
<1> QED BY <1>2, <1>4, DataKeeps

LEMMA SetupData ==
  ASSUME LockInv, ShutInv, DataInv, NEW c \in Coords, BeginSetup(c)
  PROVE  DataInv'
<1>1. /\ c = made + 1 /\ made' = c /\ UNCHANGED <<current, reauth>>
      /\ made > 0 => phase[made] \in {"notReady", "authFailed", "error", "gone"}
      /\ \/ phase' = [phase EXCEPT ![c] = "setup"] /\ Goto(c, "setup", "net")
         \/ phase' = [phase EXCEPT ![c] = "notReady"] /\ UNCHANGED at
  BY DEF BeginSetup, netVars, flowVars
<1>2. made \in Nat /\ c > made /\ at[c]["setup"] = "idle" /\ at[c]["loop"] = "idle"
  BY <1>1, PointsAre, TasksDiffer DEF LockInv, UnmadeIdle, Unmade
<1>3. DataOK(c)'
  BY <1>1, <1>2, GotoData, TasksDiffer DEF DataOK, ShutInv
<1>4. ASSUME NEW d \in Coords \ {c} PROVE DataOK(d)'
  <2>1. at'[d] = at[d] /\ phase'[d] = phase[d]
    BY <1>1 DEF ShutInv, Goto
  <2>2. phase[d] \notin {"setup", "loaded"}
    <3>1. phase[d] \in {"setup", "loaded"} => d = made /\ made > 0
      BY <1>2, PointsAre, NumbersAssumption DEF DataInv, DataOK, Coords
    <3> QED BY <1>1, <3>1
  <2> QED BY <2>1, <2>2 DEF DataInv, DataOK
<1> QED BY <1>1, <1>3, <1>4 DEF DataInv

\* When the entry is unloaded, no coordinator is loaded: reauth may be reset.
LEMMA UnloadData ==
  ASSUME LockInv, ShutInv, DataInv, NEW c \in Coords, Unload(c)
  PROVE  DataInv'
<1>1. /\ UNCHANGED <<made, current>> /\ Goto(c, "loop", "idle")
      /\ phase[c] = "loaded" /\ c = made
      /\ phase' = [phase EXCEPT ![c] = "stopping"]
  BY DEF Unload, netVars
<1>2. phase'[c] = "stopping" /\ at'[c]["setup"] = at[c]["setup"]
  BY <1>1, GotoData, TasksDiffer DEF ShutInv
<1>3. DataOK(c)'
  BY <1>1, <1>2 DEF DataInv, DataOK
<1>4. ASSUME NEW d \in Coords \ {c} PROVE DataOK(d)'
  <2>1. at'[d] = at[d] /\ phase'[d] = phase[d]
    BY <1>1 DEF ShutInv, Goto
  <2> QED BY <1>1, <2>1 DEF DataInv, DataOK
<1> QED BY <1>1, <1>3, <1>4 DEF DataInv

LEMMA ShutdownData ==
  ASSUME LockInv, ShutInv, DataInv, NEW c \in Coords, ShutdownStep(c)
  PROVE  DataInv'
<1>1. /\ UNCHANGED <<at, made, reauth>> /\ phase[c] \in {"stopping", "closing"}
      /\ UNCHANGED current \/ \E b : current' = [current EXCEPT ![c] = b]
      /\ \/ phase' = [phase EXCEPT ![c] = "closing"]
         \/ phase' = [phase EXCEPT ![c] = "gone"]
      /\ UNCHANGED pending \/ \E b : pending' = [pending EXCEPT ![c] = b]
      /\ UNCHANGED registered \/ \E b : registered' = [registered EXCEPT ![c] = b]
      /\ UNCHANGED clean \/ \E b : clean' = [clean EXCEPT ![c] = b]
      /\ UNCHANGED cl \/ \E r : cl' = [cl EXCEPT ![c] = r]
  BY DEF ShutdownStep, Unregister, Closed, taskVars, netVars, linkVars, flowVars
<1>2. Touches(c) /\ Spares(c)
  BY <1>1 DEF Touches, Spares
<1>3. phase'[c] \in {"closing", "gone"}
  BY <1>1 DEF ShutInv
<1>4. DataOK(c)'
  BY <1>1, <1>3 DEF DataInv, DataOK
<1> QED BY <1>2, <1>4, DataKeeps

LEMMA StillData ==
  ASSUME DataInv, UNCHANGED <<at, phase, made, current>>,
         (reauth => reauth') \/ \A c \in Coords : phase[c] # "loaded"
  PROVE  DataInv'
BY DEF DataInv, DataOK, Running

LEMMA ProbeData ==
  ASSUME LockInv, ShutInv, DataInv,
         ProbeBegins \/ ProbeGoesOn \/ ProbeEnds \/ WorldChanges
  PROVE  DataInv'
<1>1. made \in 0..MaxCoords /\ (made > 0 => made \in Coords)
  BY PointsAre, NumbersAssumption DEF LockInv, UnmadeIdle, Coords
<1>2. CASE made > 0 /\ Unload(made)
  BY <1>1, <1>2, UnloadData
<1>3. CASE ProbeEnds /\ ~(made > 0 /\ Unload(made))
  <2>1. UNCHANGED <<at, phase, made, current>>
    BY <1>3 DEF ProbeEnds, taskVars, netVars
  <2>2. \/ reauth => reauth'
        \/ ~(made > 0 /\ phase[made] = "loaded")
    BY <1>3 DEF ProbeEnds
  <2>3. \A c \in Coords : phase[c] = "loaded" => c = made /\ made > 0
    BY <1>1, PointsAre, NumbersAssumption DEF DataInv, DataOK, Coords
  <2> QED BY <2>1, <2>2, <2>3, StillData
<1>4. CASE ProbeBegins \/ ProbeGoesOn \/ WorldChanges
  <2>1. UNCHANGED <<at, phase, made, current, reauth>>
    BY <1>4 DEF ProbeBegins, ProbeGoesOn, WorldChanges, entryVars, taskVars, netVars, flowVars
  <2> QED BY <2>1, StillData
<1> QED BY <1>2, <1>3, <1>4

LEMMA DataNext == LockInv /\ ShutInv /\ DataInv /\ [Next]_vars => DataInv'
<1> SUFFICES ASSUME LockInv, ShutInv, DataInv, [Next]_vars PROVE DataInv'
  OBVIOUS
<1>1. ASSUME NEW c \in Coords, BeginSetup(c) \/ LoopStep(c) \/ ShutdownStep(c)
      PROVE  DataInv'
  BY <1>1, SetupData, LoopData, ShutdownData
<1>2. ASSUME NEW c \in Coords, BeginUnload(c) PROVE DataInv'
  BY <1>2, UnloadData DEF BeginUnload
<1>3. ASSUME NEW c \in Coords, LinkLost(c) \/ StrayLost(c) PROVE DataInv'
  <2>1. UNCHANGED <<at, phase, made, current, reauth>>
    BY <1>3 DEF LinkLost, StrayLost, taskVars, netVars, flowVars
  <2> QED BY <2>1, StillData
<1>4. ASSUME NEW c \in Coords, NEW x \in Tasks, Connecting(c, x) \/ Stalls(c, x)
      PROVE  DataInv'
  BY <1>4, ConnectingData
<1>5. ASSUME NEW c \in Coords, NEW k \in Commands, BeginCommand(c, k) \/ CommandStep(c, k)
      PROVE  DataInv'
  BY <1>5, CommandData
<1>6. CASE ProbeBegins \/ ProbeGoesOn \/ ProbeEnds \/ WorldChanges
  BY <1>6, ProbeData
<1>7. CASE UNCHANGED vars
  BY <1>7, StillData DEF vars, entryVars, taskVars, netVars, flowVars
<1> QED BY <1>1, <1>2, <1>3, <1>4, <1>5, <1>6, <1>7 DEF Next

\* Once a loaded entry's reconnection is over, entities read the units that the
\* library updates, unless a reauthentication is asked for; after it the entry
\* is loaded anew.
THEOREM DataStaysCurrent == Spec => []DataIsCurrent
<1>1. DataInv => DataIsCurrent
  BY DEF DataInv, DataOK, DataIsCurrent
<1>2. Init => ShutInv /\ DataInv
  BY TasksDiffer DEF Init, ShutInv, ShutOK, DataInv, DataOK
<1> QED BY <1>1, <1>2, LockInit, LockNext, ShutNext, DataNext, PTL DEF Spec

-----------------------------------------------------------------------------
(* Types.                                                                  *)

Phases == {"none", "setup", "notReady", "authFailed", "error", "loaded", "stopping",
           "closing", "gone"}
Strays == [auth : Nat, other : Nat]
Probes == {"none", "net", "link", "shake", "failed", "succeeded"}

\* TypeOK but for what LockInv says.
Typed ==
  /\ entry \in BOOLEAN /\ phase \in [Coords -> Phases]
  /\ pending \in [Coords -> BOOLEAN] /\ registered \in [Coords -> BOOLEAN]
  /\ clean \in [Coords -> BOOLEAN] /\ fetched \in [Coords -> BOOLEAN]
  /\ current \in [Coords -> BOOLEAN] /\ http \in [Coords -> BOOLEAN]
  /\ opq = [c \in Coords |-> opq[c]]
  /\ delay \in [Coords -> InitialDelay..MaxDelay]
  /\ cl \in [Coords -> Client] /\ strays \in [Coords -> Strays]
  /\ probe \in Probes
  /\ reauth \in BOOLEAN /\ probeLink \in BOOLEAN /\ visible \in BOOLEAN
  /\ accepted \in BOOLEAN /\ keyless \in BOOLEAN
  /\ session \in BOOLEAN /\ cached \in BOOLEAN /\ orphaned \in BOOLEAN
  /\ calls \in 0..MaxCalls /\ faults \in 0..MaxFaults

\* The delay is doubled up to its limit.
LEMMA BackoffTyped ==
  ASSUME NEW d \in InitialDelay..MaxDelay
  PROVE  Backoff(d) \in InitialDelay..MaxDelay
BY NumbersAssumption DEF Backoff

LEMMA FaultTyped ==
  ASSUME Typed, Fault \/ NoFault
  PROVE  faults' \in 0..MaxFaults
BY NumbersAssumption DEF Typed, Fault, NoFault

LEMMA AbandonTyped ==
  ASSUME Typed, NEW c \in Coords
  PROVE  Abandon(c) \in Strays
BY DEF Typed, Abandon, Strays

\* The client of a coordinator is replaced.
LEMMA ClientTyped ==
  ASSUME Typed, NEW c \in Coords, NEW k, cl' = [cl EXCEPT ![c] = k],
         k \in Client \/ \E s \in {"down", "up"} : k = [cl[c] EXCEPT !.st = s]
  PROVE  cl' \in [Coords -> Client]
<1>1. cl[c] \in Client
  BY DEF Typed
<1>2. k \in Client
  BY <1>1 DEF Client
<1> QED BY <1>2 DEF Typed

LEMMA QueueTyped ==
  ASSUME Typed, NEW c \in Coords, NEW q, opq' = opq \/ opq' = [opq EXCEPT ![c] = q]
  PROVE  opq' = [d \in Coords |-> opq'[d]]
BY DEF Typed

LEMMA FailsTyped ==
  ASSUME Typed, NEW c \in Coords, NEW x, NEW e, Fails(c, x, e)
  PROVE  /\ phase' \in [Coords -> Phases] /\ delay' \in [Coords -> InitialDelay..MaxDelay]
         /\ reauth' \in BOOLEAN /\ opq' = [d \in Coords |-> opq'[d]]
<1>1. phase' \in [Coords -> Phases]
  BY DEF Fails, Typed, Phases
<1>2. delay' \in [Coords -> InitialDelay..MaxDelay]
  <2>1. Backoff(delay[c]) \in InitialDelay..MaxDelay
    BY BackoffTyped DEF Typed
  <2> QED BY <2>1 DEF Fails, Typed
<1>3. reauth' \in BOOLEAN
  BY DEF Fails
<1>4. opq' = [d \in Coords |-> opq'[d]]
  BY QueueTyped DEF Fails, Leave
<1> QED BY <1>1, <1>2, <1>3, <1>4

LEMMA SucceedsTyped ==
  ASSUME Typed, NEW c \in Coords, NEW x, Succeeds(c, x)
  PROVE  /\ phase' \in [Coords -> Phases] /\ opq' = [d \in Coords |-> opq'[d]]
         /\ current' \in [Coords -> BOOLEAN]
<1>1. phase' \in [Coords -> Phases] /\ current' \in [Coords -> BOOLEAN]
  BY DEF Succeeds, Typed, Phases
<1>2. opq' = [d \in Coords |-> opq'[d]]
  BY QueueTyped DEF Succeeds, Leave
<1> QED BY <1>1, <1>2

LEMMA PartlyTyped ==
  ASSUME Typed, NEW c \in Coords, Partly(c)
  PROVE  session' \in BOOLEAN /\ cached' \in BOOLEAN /\ fetched' \in [Coords -> BOOLEAN]
<1>1. session \in BOOLEAN /\ accepted \in BOOLEAN /\ cached \in BOOLEAN
  BY DEF Typed
<1>2. session' \in BOOLEAN
  BY <1>1 DEF Partly
<1>3. cached' \in BOOLEAN
  BY <1>1, <1>2 DEF Partly
<1>4. fetched' \in [Coords -> BOOLEAN]
  BY <1>3 DEF Partly, Typed
<1> QED BY <1>2, <1>3, <1>4

LEMMA TypedInit == Init => Typed
<1> SUFFICES ASSUME Init PROVE Typed
  OBVIOUS
<1>1. /\ [st |-> "none", link |-> FALSE] \in Client /\ [auth |-> 0, other |-> 0] \in Strays
      /\ InitialDelay \in InitialDelay..MaxDelay
  BY NumbersAssumption DEF Client, Strays
<1>2. cl \in [Coords -> Client] /\ strays \in [Coords -> Strays]
  BY <1>1 DEF Init
<1>3. delay \in [Coords -> InitialDelay..MaxDelay]
  BY <1>1 DEF Init
<1>4. /\ phase \in [Coords -> Phases] /\ probe \in Probes
      /\ opq = [c \in Coords |-> opq[c]]
  BY DEF Init, Phases, Probes
<1>5. 0 \in 0..MaxCalls /\ 0 \in 0..MaxFaults
  BY NumbersAssumption
<1> QED BY <1>2, <1>3, <1>4, <1>5 DEF Init, Typed

LEMMA ConnectingTyped ==
  ASSUME Typed, NEW c \in Coords, NEW x \in Tasks, Connecting(c, x) \/ Stalls(c, x)
  PROVE  Typed'
<1>1. CASE NetEnds(c, x)
  <2>1. /\ phase' \in [Coords -> Phases] /\ delay' \in [Coords -> InitialDelay..MaxDelay]
        /\ reauth' \in BOOLEAN /\ opq' = [d \in Coords |-> opq'[d]]
    <3>1. (\E e : Fails(c, x, e)) \/ UNCHANGED <<phase, opq, delay, reauth>>
      BY <1>1 DEF NetEnds
    <3> QED BY <3>1, FailsTyped DEF Typed
  <2>2. cl' \in [Coords -> Client] /\ strays' \in [Coords -> Strays]
    <3>1. \/ UNCHANGED <<cl, strays>>
          \/ /\ cl' = [cl EXCEPT ![c] = [st |-> "down", link |-> FALSE]]
             /\ strays' = [strays EXCEPT ![c] = Abandon(c)]
      BY <1>1 DEF NetEnds, linkVars
    <3>2. [st |-> "down", link |-> FALSE] \in Client
      BY DEF Client
    <3>3. Abandon(c) \in Strays
      BY AbandonTyped
    <3>4. cl \in [Coords -> Client] /\ strays \in [Coords -> Strays]
      BY DEF Typed
    <3>5. cl' \in [Coords -> Client]
      BY <3>1, <3>2, <3>4
    <3>6. strays' \in [Coords -> Strays]
      BY <3>1, <3>3, <3>4
    <3> QED BY <3>5, <3>6
  <2>3. fetched' \in [Coords -> BOOLEAN] /\ session' \in BOOLEAN /\ cached' \in BOOLEAN
    <3>1. /\ session \in BOOLEAN /\ accepted \in BOOLEAN /\ cached \in BOOLEAN
          /\ fetched \in [Coords -> BOOLEAN]
      BY DEF Typed
    <3>2. \/ /\ fetched' = [fetched EXCEPT ![c] = TRUE] \/ fetched' = fetched
             /\ \/ session' = TRUE \/ session' = FALSE \/ session' = session
                \/ session' = (session \/ accepted)
             /\ \/ cached' = TRUE \/ cached' = cached \/ cached' = (cached /\ ~session)
          \/ Partly(c)
      BY <1>1 DEF NetEnds
    <3>3. CASE Partly(c)
      BY <3>3, PartlyTyped
    <3>4. CASE /\ fetched' = [fetched EXCEPT ![c] = TRUE] \/ fetched' = fetched
               /\ \/ session' = TRUE \/ session' = FALSE \/ session' = session
                  \/ session' = (session \/ accepted)
               /\ \/ cached' = TRUE \/ cached' = cached \/ cached' = (cached /\ ~session)
      BY <3>1, <3>4
    <3> QED BY <3>2, <3>3, <3>4
  <2>4. faults' \in 0..MaxFaults
    BY <1>1, FaultTyped DEF NetEnds
  <2> QED BY <1>1, <2>1, <2>2, <2>3, <2>4 DEF NetEnds, Typed
<1>2. CASE LinkEnds(c, x)
  <2>1. /\ phase' \in [Coords -> Phases] /\ delay' \in [Coords -> InitialDelay..MaxDelay]
        /\ reauth' \in BOOLEAN /\ opq' = [d \in Coords |-> opq'[d]]
    <3>1. (\E e : Fails(c, x, e)) \/ UNCHANGED <<phase, opq, delay, reauth>>
      BY <1>2 DEF LinkEnds
    <3> QED BY <3>1, FailsTyped DEF Typed
  <2>2. cl' \in [Coords -> Client] /\ strays' \in [Coords -> Strays]
    <3>1. \/ UNCHANGED <<cl, strays>>
          \/ /\ cl' = [cl EXCEPT ![c] = [st |-> "half", link |-> TRUE]]
             /\ strays' = [strays EXCEPT ![c] = Abandon(c)]
      BY <1>2 DEF LinkEnds, linkVars
    <3>2. [st |-> "half", link |-> TRUE] \in Client
      BY DEF Client
    <3>3. Abandon(c) \in Strays
      BY AbandonTyped
    <3>4. cl \in [Coords -> Client] /\ strays \in [Coords -> Strays]
      BY DEF Typed
    <3>5. cl' \in [Coords -> Client]
      BY <3>1, <3>2, <3>4
    <3>6. strays' \in [Coords -> Strays]
      BY <3>1, <3>3, <3>4
    <3> QED BY <3>5, <3>6
  <2>3. faults' \in 0..MaxFaults
    BY <1>2, FaultTyped DEF LinkEnds
  <2> QED BY <1>2, <2>1, <2>2, <2>3 DEF LinkEnds, Typed, netVars, worldVars, cacheVars
<1>3. CASE ShakeEnds(c, x)
  <2>1. /\ phase' \in [Coords -> Phases] /\ delay' \in [Coords -> InitialDelay..MaxDelay]
        /\ reauth' \in BOOLEAN /\ opq' = [d \in Coords |-> opq'[d]]
        /\ current' \in [Coords -> BOOLEAN]
    <3>1. \/ (\E e : Fails(c, x, e)) /\ UNCHANGED current
          \/ Succeeds(c, x) /\ UNCHANGED <<delay, reauth>>
      BY <1>3 DEF ShakeEnds
    <3> QED BY <3>1, FailsTyped, SucceedsTyped DEF Typed
  <2>2. cl' \in [Coords -> Client]
    <3>1. \/ cl' = [cl EXCEPT ![c] = [cl[c] EXCEPT !.st = "up"]]
          \/ cl' = [cl EXCEPT ![c] = [st |-> "down", link |-> FALSE]]
          \/ cl' = cl
      BY <1>3 DEF ShakeEnds
    <3>2. [st |-> "down", link |-> FALSE] \in Client
      BY DEF Client
    <3> QED BY <3>1, <3>2, ClientTyped DEF Typed
  <2>3. faults' \in 0..MaxFaults
    BY <1>3, FaultTyped DEF ShakeEnds
  <2> QED BY <1>3, <2>1, <2>2, <2>3 DEF ShakeEnds, Typed, worldVars, cacheVars
<1>4. CASE Expires(c, x)
  <2>1. /\ phase' \in [Coords -> Phases] /\ delay' \in [Coords -> InitialDelay..MaxDelay]
        /\ reauth' \in BOOLEAN /\ opq' = [d \in Coords |-> opq'[d]]
    BY <1>4, FailsTyped DEF Expires
  <2>2. /\ session' \in BOOLEAN /\ cached' \in BOOLEAN /\ orphaned' \in BOOLEAN
        /\ fetched' \in [Coords -> BOOLEAN]
    <3>1. \/ UNCHANGED <<fetched, session, cached, orphaned>>
          \/ Partly(c) /\ orphaned' \in BOOLEAN
      BY <1>4 DEF Expires, cacheVars
    <3> QED BY <3>1, PartlyTyped DEF Typed
  <2>3. faults' \in 0..MaxFaults
    BY <1>4, FaultTyped DEF Expires
  <2> QED BY <1>4, <2>1, <2>2, <2>3 DEF Expires, Typed, linkVars
<1>5. CASE Stalls(c, x)
  <2>1. faults' \in 0..MaxFaults
    BY <1>5, FaultTyped DEF Stalls
  <2> QED BY <1>5, <2>1 DEF Stalls, Typed, entryVars, netVars, linkVars, flowVars, worldVars, cacheVars
<1> QED BY <1>1, <1>2, <1>3, <1>4, <1>5 DEF Connecting

LEMMA CommandTyped ==
  ASSUME Typed, NEW c \in Coords, NEW k \in Commands, BeginCommand(c, k) \/ CommandStep(c, k)
  PROVE  Typed'
<1>1. CASE BeginCommand(c, k)
  <2>1. calls' \in 0..MaxCalls
    BY <1>1, NumbersAssumption DEF BeginCommand, Typed
  <2>2. opq' = [d \in Coords |-> opq'[d]]
    BY <1>1, QueueTyped DEF BeginCommand
  <2> QED BY <1>1, <2>1, <2>2
         DEF BeginCommand, Typed, entryVars, netVars, linkVars, flowVars, worldVars, cacheVars
<1>2. CASE EnterCommand(c, k) \/ SendEnds(c, k)
  <2>1. opq' = [d \in Coords |-> opq'[d]]
    BY <1>2, QueueTyped DEF EnterCommand, SendEnds, Leave
  <2>2. cl' \in [Coords -> Client]
    <3>1. cl' = cl \/ cl' = [cl EXCEPT ![c] = [cl[c] EXCEPT !.st = "down"]]
      BY <1>2 DEF EnterCommand, SendEnds
    <3> QED BY <3>1, ClientTyped DEF Typed
  <2>3. faults' \in 0..MaxFaults
    BY <1>2, FaultTyped DEF EnterCommand, SendEnds, Typed
  <2> QED BY <1>2, <2>1, <2>2, <2>3
         DEF EnterCommand, SendEnds, Typed, entryVars, netVars, flowVars, worldVars, cacheVars
<1> QED BY <1>1, <1>2 DEF CommandStep

LEMMA LoopTyped ==
  ASSUME Typed, NEW c \in Coords, LoopStep(c)
  PROVE  Typed'
<1>1. InitialDelay \in InitialDelay..MaxDelay /\ Backoff(delay[c]) \in InitialDelay..MaxDelay
  BY BackoffTyped, NumbersAssumption DEF Typed
<1>2. delay' \in [Coords -> InitialDelay..MaxDelay] /\ pending' \in [Coords -> BOOLEAN]
  BY <1>1 DEF LoopStep, StartReconnect, LoopWakes, EnterLoop, Typed, entryVars
<1>3. fetched' \in [Coords -> BOOLEAN] /\ current' \in [Coords -> BOOLEAN]
  BY DEF LoopStep, StartReconnect, LoopWakes, EnterLoop, Typed, netVars
<1>4. opq' = [d \in Coords |-> opq'[d]]
  BY QueueTyped DEF LoopStep, StartReconnect, LoopWakes, EnterLoop
<1> QED BY <1>2, <1>3, <1>4
       DEF LoopStep, StartReconnect, LoopWakes, EnterLoop, Typed, entryVars, netVars,
           linkVars, flowVars, worldVars, cacheVars

LEMMA UnloadTyped ==
  ASSUME Typed, NEW c \in Coords, Unload(c)
  PROVE  /\ phase' \in [Coords -> Phases] /\ opq' = [d \in Coords |-> opq'[d]]
         /\ orphaned' \in BOOLEAN
         /\ UNCHANGED <<entry, pending, registered, clean, delay, netVars, linkVars>>
<1>1. phase' \in [Coords -> Phases]
  BY DEF Unload, Typed, Phases
<1>2. orphaned' \in BOOLEAN
  <2>1. orphaned \in BOOLEAN
    BY DEF Typed
  <2> QED BY <2>1 DEF Unload
<1> QED BY <1>1, <1>2, QueueTyped DEF Unload

LEMMA EntryTyped ==
  ASSUME Typed, NEW c \in Coords,
         BeginSetup(c) \/ BeginUnload(c) \/ ShutdownStep(c) \/ LinkLost(c) \/ StrayLost(c)
  PROVE  Typed'
<1>1. CASE BeginSetup(c)
  <2>1. phase' \in [Coords -> Phases] /\ registered' \in [Coords -> BOOLEAN]
    BY <1>1 DEF BeginSetup, Typed, Phases
  <2>2. opq' = [d \in Coords |-> opq'[d]]
    BY <1>1, QueueTyped DEF BeginSetup
  <2> QED BY <1>1, <2>1, <2>2
         DEF BeginSetup, Typed, netVars, linkVars, flowVars, worldVars, cacheVars
<1>2. CASE BeginUnload(c)
  <2>1. Unload(c)
    BY <1>2 DEF BeginUnload
  <2>2. /\ phase' \in [Coords -> Phases] /\ opq' = [d \in Coords |-> opq'[d]]
        /\ orphaned' \in BOOLEAN
        /\ UNCHANGED <<entry, pending, registered, clean, delay, netVars, linkVars>>
    BY <2>1, UnloadTyped
  <2> QED BY <1>2, <2>2 DEF BeginUnload, Typed, netVars, linkVars, flowVars, worldVars, cacheVars
<1>3. CASE Unregister(c)
  <2>1. /\ phase' \in [Coords -> Phases] /\ registered' \in [Coords -> BOOLEAN]
        /\ clean' \in [Coords -> BOOLEAN]
    BY <1>3 DEF Unregister, Typed, Phases, Quiet
  <2> QED BY <1>3, <2>1
         DEF Unregister, Typed, taskVars, netVars, linkVars, flowVars, worldVars, cacheVars
<1>4. CASE Closed(c)
  <2>1. /\ phase' \in [Coords -> Phases] /\ pending' \in [Coords -> BOOLEAN]
        /\ fetched' \in [Coords -> BOOLEAN] /\ current' \in [Coords -> BOOLEAN]
        /\ http' \in [Coords -> BOOLEAN]
    BY <1>4 DEF Closed, Typed, Phases
  <2>2. cl' \in [Coords -> Client]
    BY <1>4 DEF Closed, Typed, Client
  <2> QED BY <1>4, <2>1, <2>2 DEF Closed, Typed, taskVars, flowVars, worldVars, cacheVars
<1>5. CASE LinkLost(c)
  <2>1. pending' \in [Coords -> BOOLEAN] /\ faults' \in 0..MaxFaults
    BY <1>5, FaultTyped DEF LinkLost, Typed
  <2>2. cl' \in [Coords -> Client]
    <3>1. cl[c] \in Client
      BY DEF Typed
    <3>2. \E s \in {"down", cl[c].st} : cl' = [cl EXCEPT ![c] = [link |-> FALSE, st |-> s]]
      BY <1>5 DEF LinkLost
    <3> QED BY <3>1, <3>2 DEF Typed, Client
  <2> QED BY <1>5, <2>1, <2>2
         DEF LinkLost, Typed, taskVars, netVars, flowVars, worldVars, cacheVars
<1>6. CASE StrayLost(c)
  <2>1. pending' \in [Coords -> BOOLEAN] /\ faults' \in 0..MaxFaults
    BY <1>6, FaultTyped DEF StrayLost, Typed
  <2>2. strays' \in [Coords -> Strays]
    <3>1. strays[c] \in Strays
      BY DEF Typed
    <3>2. \/ /\ strays[c].auth > 0
             /\ strays' = [strays EXCEPT ![c] = [strays[c] EXCEPT !.auth = strays[c].auth - 1]]
          \/ /\ strays[c].other > 0
             /\ strays' = [strays EXCEPT ![c] = [strays[c] EXCEPT !.other = strays[c].other - 1]]
      BY <1>6 DEF StrayLost
    <3>3. /\ strays[c].auth > 0 => [strays[c] EXCEPT !.auth = strays[c].auth - 1] \in Strays
          /\ strays[c].other > 0 => [strays[c] EXCEPT !.other = strays[c].other - 1] \in Strays
      BY <3>1 DEF Strays
    <3> QED BY <3>2, <3>3 DEF Typed
  <2> QED BY <1>6, <2>1, <2>2
         DEF StrayLost, Typed, taskVars, netVars, flowVars, worldVars, cacheVars
<1> QED BY <1>1, <1>2, <1>3, <1>4, <1>5, <1>6 DEF ShutdownStep

LEMMA FlowTyped ==
  ASSUME Typed, LockInv, ProbeBegins \/ ProbeGoesOn \/ ProbeEnds \/ WorldChanges
  PROVE  Typed'
<1>1. CASE ProbeBegins \/ ProbeGoesOn
  <2>1. probe' \in Probes /\ probeLink' \in BOOLEAN /\ orphaned' \in BOOLEAN
    BY <1>1 DEF ProbeBegins, ProbeGoesOn, Typed, Probes, worldVars, cacheVars
  <2>2. faults' \in 0..MaxFaults
    BY <1>1, FaultTyped DEF ProbeBegins, ProbeGoesOn, Typed
  <2> QED BY <1>1, <2>1, <2>2
         DEF ProbeBegins, ProbeGoesOn, Typed, entryVars, taskVars, netVars, linkVars, worldVars, cacheVars
<1>2. CASE ProbeEnds
  <2>1. probe' \in Probes /\ probeLink' \in BOOLEAN /\ accepted' \in BOOLEAN
        /\ reauth' \in BOOLEAN /\ UNCHANGED <<visible, keyless, session, cached, calls, faults>>
    BY <1>2 DEF ProbeEnds, Probes
  <2>2. \/ made > 0 /\ Unload(made)
        \/ /\ entry' \in BOOLEAN
           /\ UNCHANGED <<phase, pending, registered, clean, taskVars, netVars, linkVars,
                          orphaned>>
    BY <1>2 DEF ProbeEnds, Typed
  <2>3. CASE made > 0 /\ Unload(made)
    <3>1. made \in Coords
      BY <2>3, NumbersAssumption DEF LockInv, UnmadeIdle, Coords
    <3>2. /\ phase' \in [Coords -> Phases] /\ opq' = [d \in Coords |-> opq'[d]]
          /\ orphaned' \in BOOLEAN
          /\ UNCHANGED <<entry, pending, registered, clean, delay, netVars, linkVars>>
      BY <2>3, <3>1, UnloadTyped
    <3> QED BY <2>1, <3>2 DEF Typed, netVars, linkVars
  <2>4. CASE /\ entry' \in BOOLEAN
             /\ UNCHANGED <<phase, pending, registered, clean, taskVars, netVars, linkVars,
                          orphaned>>
    BY <2>1, <2>4 DEF Typed, taskVars, netVars, linkVars
  <2> QED BY <2>2, <2>3, <2>4
<1>3. CASE WorldChanges
  <2>1. visible' \in BOOLEAN /\ accepted' \in BOOLEAN
    BY <1>3 DEF WorldChanges, Typed
  <2>2. faults' \in 0..MaxFaults
    BY <1>3, FaultTyped DEF WorldChanges
  <2> QED BY <1>3, <2>1, <2>2
         DEF WorldChanges, Typed, entryVars, taskVars, netVars, linkVars, flowVars, cacheVars
<1> QED BY <1>1, <1>2, <1>3

LEMMA TypedNext == LockInv /\ Typed /\ [Next]_vars => Typed'
<1> SUFFICES ASSUME LockInv, Typed, [Next]_vars PROVE Typed'
  OBVIOUS
<1>1. CASE UNCHANGED vars
  BY <1>1 DEF vars, Typed, entryVars, taskVars, netVars, linkVars, flowVars, worldVars, cacheVars
<1>2. CASE Next
  BY <1>2, ConnectingTyped, CommandTyped, LoopTyped, EntryTyped, FlowTyped DEF Next
<1> QED BY <1>1, <1>2

\* Every variable of the integration keeps its type, and the delay of the reconnect
\* loop stays between its initial value and its limit.
THEOREM TypeCorrect == Spec => []TypeOK
<1>1. LockInv /\ Typed => TypeOK
  <2>1. SUFFICES ASSUME LockInv, Typed PROVE TypeOK
    OBVIOUS
  <2>2. opq \in [Coords -> Seq(Tasks)]
    BY <2>1 DEF LockInv, QueuesOK, QueueOK, Typed
  <2> QED BY <2>1, <2>2
         DEF LockInv, QueuesOK, UnmadeIdle, Typed, TypeOK, Phases, Strays, Probes
<1> QED BY <1>1, LockInit, LockNext, TypedInit, TypedNext, PTL DEF Spec
=============================================================================

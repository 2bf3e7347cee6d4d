--------------------------- MODULE Network_proofs ---------------------------
(***************************************************************************)
(* Proofs about the cache directory and the network information, however   *)
(* many instances call connect(), and whatever request fails, call is      *)
(* cancelled or process crashes: the directory has one user at a time,     *)
(* every variable keeps its type, a network that the server told is not    *)
(* older than the call, a failure that comes of the cache is not repeated, *)
(* and no key outlives the password it was made for once the cache was     *)
(* invalidated.                                                            *)
(***************************************************************************)
EXTENDS Network, Sequence_proofs

Outside == {"idle"} \cup Requests
Claimants == Instances \cup {Orphan}

\* CacheExclusive and what it needs to be inductive: a lost lock is at the head
\* of its queue, so that it is lost once.
CacheInv ==
  /\ at \in [Instances -> Locked \cup Outside]
  /\ lockQ \in Seq(Claimants)
  /\ CacheExclusive
  /\ InQ(lockQ, Orphan) => Head(lockQ) = Orphan

-----------------------------------------------------------------------------
(* What the steps of a call are to the lock.                               *)

\* From a critical section to the next one, or out.
SectionStep(i) ==
  /\ at[i] \in Locked /\ Holds(i) /\ ~ready'
  /\ \/ \E s \in Locked : Goto(i, s) /\ lockQ' = Append(Tail(lockQ), i)
     \/ \E s \in Outside : Goto(i, s) /\ lockQ' = Tail(lockQ)

\* From a request to the next one, or to a critical section.
RequestStep(i) ==
  /\ at[i] \in Outside /\ (ready' => ready)
  /\ \/ \E s \in Locked : Goto(i, s) /\ lockQ' = Append(lockQ, i)
     \/ \E s \in Outside : Goto(i, s) /\ UNCHANGED lockQ

LEMMA PointsAre ==
  /\ Locked \cap Outside = {} /\ "idle" \in Outside
  /\ Reading \cup Writing \subseteq Locked
BY DEF Locked, Outside, Reading, Writing, Requests

LEMMA HeldBy ==
  ASSUME CacheInv, NEW i \in Instances, Holds(i)
  PROVE  /\ Tail(lockQ) \in Seq(Claimants) /\ Distinct(Tail(lockQ))
         /\ ~InQ(Tail(lockQ), i) /\ ~InQ(Tail(lockQ), Orphan)
         /\ \A j \in Instances \ {i} : InQ(Tail(lockQ), j) <=> InQ(lockQ, j)
<1>1. lockQ \in Seq(Claimants) /\ lockQ # <<>> /\ Head(lockQ) = i /\ Distinct(lockQ)
  BY DEF CacheInv, CacheExclusive, Holds
<1>2. i # Orphan
  BY OrphanAssumption
<1> QED BY <1>1, <1>2, TailQueue DEF CacheInv

LEMMA SectionKeeps ==
  ASSUME CacheInv, NEW i \in Instances, SectionStep(i)
  PROVE  CacheInv'
<1> DEFINE q == Tail(lockQ)
<1>1. /\ q \in Seq(Claimants) /\ Distinct(q) /\ ~InQ(q, i) /\ ~InQ(q, Orphan)
      /\ \A j \in Instances \ {i} : InQ(q, j) <=> at[j] \in Locked
  BY HeldBy DEF SectionStep, CacheInv, CacheExclusive
<1>2. i \in Claimants /\ i # Orphan /\ ~ready' /\ at \in [Instances -> Locked \cup Outside]
  BY OrphanAssumption DEF Claimants, SectionStep, CacheInv
<1> HIDE DEF q
<1>3. CASE \E s \in Locked : Goto(i, s) /\ lockQ' = Append(q, i)
  <2>1. PICK s \in Locked : Goto(i, s) /\ lockQ' = Append(q, i)
    BY <1>3
  <2>2. /\ lockQ' \in Seq(Claimants) /\ Distinct(lockQ')
        /\ \A y : InQ(lockQ', y) <=> InQ(q, y) \/ y = i
    BY <1>1, <1>2, <2>1, AppendQueue
  <2>3. /\ at' \in [Instances -> Locked \cup Outside] /\ at'[i] = s
        /\ \A j \in Instances \ {i} : at'[j] = at[j]
    BY <1>2, <2>1 DEF Goto
  <2>4. \A j \in Instances : InQ(lockQ', j) <=> at'[j] \in Locked
    BY <1>1, <2>2, <2>3
  <2>5. ~InQ(lockQ', Orphan)
    BY <1>1, <1>2, <2>2
  <2> QED BY <1>2, <2>2, <2>3, <2>4, <2>5 DEF CacheInv, CacheExclusive
<1>4. CASE \E s \in Outside : Goto(i, s) /\ lockQ' = q
  <2>1. PICK s \in Outside : Goto(i, s) /\ lockQ' = q
    BY <1>4
  <2>2. /\ at' \in [Instances -> Locked \cup Outside] /\ at'[i] = s /\ s \notin Locked
        /\ \A j \in Instances \ {i} : at'[j] = at[j]
    BY <1>2, <2>1, PointsAre DEF Goto
  <2>3. \A j \in Instances : InQ(lockQ', j) <=> at'[j] \in Locked
    BY <1>1, <2>1, <2>2
  <2> QED BY <1>1, <1>2, <2>1, <2>2, <2>3 DEF CacheInv, CacheExclusive
<1> QED BY <1>3, <1>4 DEF SectionStep, q

LEMMA RequestKeeps ==
  ASSUME CacheInv, NEW i \in Instances, RequestStep(i)
  PROVE  CacheInv'
<1>1. /\ lockQ \in Seq(Claimants) /\ Distinct(lockQ)
      /\ \A j \in Instances : InQ(lockQ, j) <=> at[j] \in Locked
      /\ InQ(lockQ, Orphan) => Head(lockQ) = Orphan
      /\ at \in [Instances -> Locked \cup Outside]
  BY DEF CacheInv, CacheExclusive
<1>2. i \in Claimants /\ i # Orphan /\ ~InQ(lockQ, i)
  BY <1>1, OrphanAssumption, PointsAre DEF Claimants, RequestStep
<1>3. ready' => lockQ # <<>> /\ Head(lockQ) \in Instances
  BY DEF RequestStep, CacheInv, CacheExclusive
<1>4. CASE \E s \in Locked : Goto(i, s) /\ lockQ' = Append(lockQ, i)
  <2>1. PICK s \in Locked : Goto(i, s) /\ lockQ' = Append(lockQ, i)
    BY <1>4
  <2>2. /\ lockQ' \in Seq(Claimants) /\ Distinct(lockQ') /\ lockQ' # <<>>
        /\ \A y : InQ(lockQ', y) <=> InQ(lockQ, y) \/ y = i
        /\ lockQ # <<>> => Head(lockQ') = Head(lockQ)
    BY <1>1, <1>2, <2>1, AppendQueue
  <2>3. /\ at' \in [Instances -> Locked \cup Outside] /\ at'[i] = s
        /\ \A j \in Instances \ {i} : at'[j] = at[j]
    BY <1>1, <2>1 DEF Goto
  <2>4. \A j \in Instances : InQ(lockQ', j) <=> at'[j] \in Locked
    BY <1>1, <2>2, <2>3
  <2>5. InQ(lockQ', Orphan) => Head(lockQ') = Orphan
    <3>1. InQ(lockQ, Orphan) => lockQ # <<>>
      BY <1>1 DEF InQ
    <3> QED BY <1>1, <1>2, <2>2, <3>1
  <2>6. ready' => lockQ' # <<>> /\ Head(lockQ') \in Instances
    BY <1>3, <2>2
  <2> QED BY <2>2, <2>3, <2>4, <2>5, <2>6 DEF CacheInv, CacheExclusive
<1>5. CASE \E s \in Outside : Goto(i, s) /\ UNCHANGED lockQ
  <2>1. PICK s \in Outside : Goto(i, s) /\ UNCHANGED lockQ
    BY <1>5
  <2>2. /\ at' \in [Instances -> Locked \cup Outside] /\ at'[i] = s /\ s \notin Locked
        /\ \A j \in Instances \ {i} : at'[j] = at[j]
    BY <1>1, <2>1, PointsAre DEF Goto
  <2>3. \A j \in Instances : InQ(lockQ', j) <=> at'[j] \in Locked
    BY <1>1, <1>2, <2>1, <2>2
  <2> QED BY <1>1, <1>3, <2>1, <2>2, <2>3 DEF CacheInv, CacheExclusive
<1> QED BY <1>4, <1>5 DEF RequestStep

LEMMA Kept ==
  ASSUME CacheInv, UNCHANGED <<at, lockQ, ready>>
  PROVE  CacheInv'
BY DEF CacheInv, CacheExclusive

-----------------------------------------------------------------------------
(* Every step of a call is one of these.                                   *)

LEMMA Going ==
  ASSUME NEW i \in Instances, NEW m, NEW q, GoesOn(i, m, q)
  PROVE  /\ ready' = (ready /\ ~Holds(i))
         /\ \/ \E s \in Locked : Goto(i, s) /\ lockQ' = Append(q, i)
            \/ \E s \in Outside : Goto(i, s) /\ lockQ' = q
BY DEF GoesOn, Locked, Writing, Outside, Requests

\* Sections that end with an error, or are followed by another.
LEMMA SectionMoves ==
  ASSUME NEW i \in Instances, at[i] \in Locked, Holds(i),
         \/ \E how : EndLocked(i, how)
         \/ \E s \in Locked : Relock(i, s)
         \/ \E s \in Outside : Unlocked(i, s)
         \/ \E m : GoesOn(i, m, Tail(lockQ))
  PROVE  SectionStep(i)
<1>1. CASE \E how : EndLocked(i, how)
  BY <1>1, PointsAre DEF EndLocked, End, Release, SectionStep
<1>2. CASE \E s \in Locked : Relock(i, s)
  BY <1>2 DEF Relock, SectionStep
<1>3. CASE \E s \in Outside : Unlocked(i, s)
  BY <1>3 DEF Unlocked, Release, SectionStep
<1>4. CASE \E m : GoesOn(i, m, Tail(lockQ))
  BY <1>4, Going DEF SectionStep
<1> QED BY <1>1, <1>2, <1>3, <1>4

LEMMA RequestMoves ==
  ASSUME NEW i \in Instances, at[i] \in Outside,
         \/ \E how : Breaks(i, how)
         \/ \E how : End(i, how) /\ UNCHANGED lockVars
         \/ \E s \in Locked : Lock(i, s)
         \/ \E s \in Outside : Goto(i, s) /\ UNCHANGED lockVars
         \/ \E m : GoesOn(i, m, lockQ)
  PROVE  RequestStep(i)
<1>1. CASE \E how : Breaks(i, how)
  BY <1>1, PointsAre DEF Breaks, RequestStep, lockVars
<1>2. CASE \E how : End(i, how) /\ UNCHANGED lockVars
  BY <1>2, PointsAre DEF End, RequestStep, lockVars
<1>3. CASE \E s \in Locked : Lock(i, s)
  BY <1>3 DEF Lock, RequestStep
<1>4. CASE \E s \in Outside : Goto(i, s) /\ UNCHANGED lockVars
  BY <1>4 DEF RequestStep, lockVars
<1>5. CASE \E m : GoesOn(i, m, lockQ)
  BY <1>5, Going DEF RequestStep
<1> QED BY <1>1, <1>2, <1>3, <1>4, <1>5

LEMMA SectionSteps ==
  ASSUME NEW i \in Instances,
         \/ SetUuid(i) \/ LoadKeys(i) \/ LoadSession(i) \/ LoadTypes(i) \/ ReadId(i)
         \/ SaveId(i) \/ SaveSession(i) \/ ReadNet(i) \/ Invalidate(i) \/ SaveNet(i)
         \/ SaveKeys(i) \/ SaveTypes(i)
  PROVE  SectionStep(i)
<1>1. /\ {"uuid", "keys", "session", "types", "netid", "net", "saveId", "saveSession",
          "saveNet", "saveKeys", "saveTypes", "invalidate"} \subseteq Locked
      /\ {"idle", "getId", "login", "put"} \subseteq Outside
  BY DEF Locked, Reading, Writing, Outside, Requests
<1>2. CASE SetUuid(i)
  BY <1>1, <1>2, SectionMoves DEF SetUuid
<1>3. ASSUME NEW s \in Locked, NEW field, NEW next \in Locked, Load(i, s, field, next)
      PROVE  SectionStep(i)
  <2>1. at[i] \in Locked /\ Holds(i)
    BY <1>3 DEF Load, In
  <2>2. \/ EndLocked(i, "corrupt")
        \/ Relock(i, next)
    BY <1>3 DEF Load
  <2> QED BY <2>1, <2>2, SectionMoves
<1>4. CASE LoadKeys(i) \/ LoadSession(i) \/ LoadTypes(i)
  BY <1>1, <1>3, <1>4 DEF LoadKeys, LoadSession, LoadTypes
<1>5. CASE ReadId(i)
  <2>1. /\ at[i] \in Locked /\ Holds(i)
        /\ \/ EndLocked(i, "needOnline")
           \/ Relock(i, "net")
           \/ Unlocked(i, "getId")
    BY <1>1, <1>5 DEF ReadId, In
  <2> QED BY <1>1, <2>1, SectionMoves
<1>6. CASE SaveId(i)
  <2>1. /\ at[i] \in Locked /\ Holds(i)
        /\ \/ EndLocked(i, "corrupt")
           \/ Relock(i, "net")
           \/ Unlocked(i, "login")
    BY <1>1, <1>6 DEF SaveId, In, Unwritable
  <2> QED BY <1>1, <2>1, SectionMoves
<1>7. CASE SaveSession(i)
  <2>1. /\ at[i] \in Locked /\ Holds(i)
        /\ \/ \E how : EndLocked(i, how)
           \/ Relock(i, "net")
    BY <1>1, <1>7 DEF SaveSession, In, Unwritable
  <2> QED BY <1>1, <2>1, SectionMoves
<1>8. CASE ReadNet(i)
  <2>1. /\ at[i] \in Locked /\ Holds(i)
        /\ \/ \E how : EndLocked(i, how)
           \/ Unlocked(i, "put")
           \/ \E m : GoesOn(i, m, Tail(lockQ))
    BY <1>1, <1>8 DEF ReadNet, In
  <2> QED BY <1>1, <2>1, SectionMoves
<1>9. CASE Invalidate(i)
  BY <1>1, <1>9, SectionMoves DEF Invalidate, In
<1>10. CASE SaveNet(i) \/ SaveKeys(i)
  <2>1. /\ at[i] \in Locked /\ Holds(i)
        /\ \/ EndLocked(i, "corrupt")
           \/ GoesOn(i, mem[i], Tail(lockQ))
    BY <1>1, <1>10 DEF SaveNet, SaveKeys, In, Unwritable
  <2> QED BY <2>1, SectionMoves
<1>11. CASE SaveTypes(i)
  <2>1. /\ at[i] \in Locked /\ Holds(i)
        /\ \E how : EndLocked(i, how)
    BY <1>1, <1>11 DEF SaveTypes, In, Unwritable
  <2> QED BY <2>1, SectionMoves
<1> QED BY <1>2, <1>4, <1>5, <1>6, <1>7, <1>8, <1>9, <1>10, <1>11

LEMMA RequestSteps ==
  ASSUME NEW i \in Instances,
         \/ GetId(i) \/ Login(i) \/ Put(i) \/ FetchUnitInfo(i)
         \/ \E offline \in BOOLEAN : Begin(i, offline)
  PROVE  RequestStep(i)
<1>1. /\ {"uuid", "net", "saveId", "saveSession", "saveNet", "saveTypes",
          "invalidate"} \subseteq Locked
      /\ {"idle", "getId", "login", "put", "fixture"} \subseteq Outside
  BY DEF Locked, Reading, Writing, Outside, Requests
<1>2. CASE GetId(i)
  <2>1. /\ at[i] \in Outside
        /\ \/ \E how : Breaks(i, how)
           \/ \E s \in Locked : Lock(i, s)
           \/ Goto(i, "login") /\ UNCHANGED lockVars
    BY <1>1, <1>2 DEF GetId, LogIn
  <2> QED BY <1>1, <2>1, RequestMoves
<1>3. CASE Login(i)
  <2>1. /\ at[i] \in Outside
        /\ \/ \E how : Breaks(i, how)
           \/ End(i, "auth") /\ UNCHANGED lockVars
           \/ \E s \in Locked : Lock(i, s)
    BY <1>1, <1>3 DEF Login
  <2> QED BY <2>1, RequestMoves
<1>4. CASE Put(i)
  <2>1. /\ at[i] \in Outside
        /\ \/ \E how : Breaks(i, how)
           \/ \E s \in Locked : Lock(i, s)
           \/ \E m : GoesOn(i, m, lockQ)
    BY <1>1, <1>4 DEF Put, Answers, PutFails
  <2> QED BY <2>1, RequestMoves
<1>5. CASE FetchUnitInfo(i)
  <2>1. /\ at[i] \in Outside
        /\ \/ \E how : Breaks(i, how)
           \/ Lock(i, "saveTypes")
    BY <1>1, <1>5 DEF FetchUnitInfo
  <2> QED BY <1>1, <2>1, RequestMoves
<1>6. CASE \E offline \in BOOLEAN : Begin(i, offline)
  <2>1. at[i] \in Outside /\ Lock(i, "uuid")
    BY <1>1, <1>6 DEF Begin
  <2> QED BY <1>1, <2>1, RequestMoves
<1> QED BY <1>2, <1>3, <1>4, <1>5, <1>6

LEMMA EnterKeeps ==
  ASSUME CacheInv, NEW i \in Instances, Enter(i)
  PROVE  CacheInv'
BY DEF CacheInv, CacheExclusive, Enter, Holds, callVars

-----------------------------------------------------------------------------
(* Cancellations and crashes.                                              *)

LEMMA CancelKeeps ==
  ASSUME CacheInv, NEW i \in Instances, Cancel(i)
  PROVE  CacheInv'
<1>1. /\ lockQ \in Seq(Claimants) /\ Distinct(lockQ)
      /\ \A j \in Instances : InQ(lockQ, j) <=> at[j] \in Locked
      /\ InQ(lockQ, Orphan) => Head(lockQ) = Orphan
      /\ at \in [Instances -> Locked \cup Outside]
      /\ ready => lockQ # <<>> /\ Head(lockQ) \in Instances
  BY DEF CacheInv, CacheExclusive
<1>2. i # Orphan /\ Orphan \in Claimants
  BY OrphanAssumption DEF Claimants
<1>3. at' = [j \in Instances |-> IF j \in {i} THEN "idle" ELSE at[j]]
  BY DEF Cancel, Stops
<1>4. /\ at' \in [Instances -> Locked \cup Outside] /\ at'[i] \notin Locked
      /\ \A j \in Instances \ {i} : at'[j] = at[j]
  BY <1>1, <1>3, PointsAre
<1>5. CASE Holds(i) /\ ~ready /\ lockQ' = <<Orphan>> \o Tail(lockQ) /\ UNCHANGED ready
  <2> DEFINE t == Tail(lockQ)
  <2>1. /\ t \in Seq(Claimants) /\ Distinct(t) /\ ~InQ(t, i) /\ ~InQ(t, Orphan)
        /\ \A j \in Instances \ {i} : InQ(t, j) <=> InQ(lockQ, j)
    BY <1>5, HeldBy
  <2> HIDE DEF t
  <2>2. lockQ' = <<Orphan>> \o t
    BY <1>5 DEF t
  <2>3. /\ lockQ' \in Seq(Claimants) /\ Len(lockQ') = Len(t) + 1 /\ Len(t) \in Nat
        /\ lockQ'[1] = Orphan
        /\ \A k \in 2..Len(lockQ') : lockQ'[k] = t[k-1]
    BY <1>2, <2>1, <2>2
  <2>4. Head(lockQ') = Orphan
    BY <2>3
  <2>5. \A y : InQ(lockQ', y) <=> InQ(t, y) \/ y = Orphan
    <3>1. ASSUME NEW y, InQ(t, y) PROVE InQ(lockQ', y)
      <4>1. PICK k \in 1..Len(t) : t[k] = y
        BY <3>1 DEF InQ
      <4>2. /\ k + 1 \in 2..Len(lockQ') /\ k + 1 \in 1..Len(lockQ')
            /\ (k + 1) - 1 = k
        BY <2>3
      <4>3. lockQ'[k + 1] = y
        BY <2>3, <4>1, <4>2
      <4> QED BY <4>2, <4>3 DEF InQ
    <3>2. ASSUME NEW y, InQ(lockQ', y), y # Orphan PROVE InQ(t, y)
      <4>1. PICK k \in 1..Len(lockQ') : lockQ'[k] = y
        BY <3>2 DEF InQ
      <4>2. k \in 2..Len(lockQ') /\ k - 1 \in 1..Len(t)
        BY <2>3, <3>2, <4>1
      <4> QED BY <2>3, <4>1, <4>2 DEF InQ
    <3>3. InQ(lockQ', Orphan)
      BY <2>3 DEF InQ
    <3> QED BY <3>1, <3>2, <3>3
  <2>6. Distinct(lockQ')
    <3> SUFFICES ASSUME NEW k \in 1..Len(lockQ'), NEW l \in 1..Len(lockQ'),
                        lockQ'[k] = lockQ'[l]
                 PROVE  k = l
      BY DEF Distinct
    <3>1. \A n \in 2..Len(lockQ') :
            n - 1 \in 1..Len(t) /\ lockQ'[n] = t[n-1] /\ lockQ'[n] # Orphan
      BY <2>1, <2>3 DEF InQ
    <3>2. k = 1 <=> l = 1
      BY <2>3, <3>1
    <3>3. CASE k # 1 /\ l # 1
      <4>1. k - 1 \in 1..Len(t) /\ l - 1 \in 1..Len(t) /\ t[k-1] = t[l-1]
        BY <2>3, <3>1, <3>3
      <4>2. k - 1 = l - 1
        BY <2>1, <4>1 DEF Distinct
      <4> QED BY <2>3, <4>2
    <3> QED BY <3>2, <3>3
  <2>7. \A j \in Instances : InQ(lockQ', j) <=> at'[j] \in Locked
    BY <1>1, <1>4, <2>1, <2>5, OrphanAssumption
  <2> QED BY <1>4, <1>5, <2>3, <2>4, <2>6, <2>7 DEF CacheInv, CacheExclusive
<1>6. CASE lockQ' = Without(lockQ, i) /\ ready' = (ready /\ ~Holds(i))
  <2>1. /\ lockQ' \in Seq(Claimants) /\ Distinct(lockQ') /\ ~InQ(lockQ', i)
        /\ \A y : InQ(lockQ', y) => InQ(lockQ, y)
        /\ \A y : InQ(lockQ, y) /\ y # i => InQ(lockQ', y)
        /\ lockQ # <<>> /\ Head(lockQ) # i => lockQ' # <<>> /\ Head(lockQ') = Head(lockQ)
    BY <1>1, <1>6, WithoutQueue
  <2>2. \A j \in Instances : InQ(lockQ', j) <=> at'[j] \in Locked
    BY <1>1, <1>4, <2>1
  <2>3. InQ(lockQ', Orphan) => Head(lockQ') = Orphan
    <3>1. InQ(lockQ, Orphan) => lockQ # <<>>
      BY <1>1 DEF InQ
    <3> QED BY <1>1, <1>2, <2>1, <3>1
  <2>4. ready' => lockQ' # <<>> /\ Head(lockQ') \in Instances
    BY <1>1, <1>6, <2>1 DEF Holds
  <2> QED BY <1>4, <2>1, <2>2, <2>3, <2>4 DEF CacheInv, CacheExclusive
<1> QED BY <1>5, <1>6 DEF Cancel

LEMMA CrashKeeps ==
  ASSUME CacheInv, Crash
  PROVE  CacheInv'
<1>1. lockQ' = <<>> /\ ~ready' /\ at' = [j \in Instances |-> "idle"]
  BY DEF Crash, Stops
<1>2. <<>> \in Seq(Claimants) /\ Distinct(<<>>) /\ \A y : ~InQ(<<>>, y)
  BY DEF Distinct, InQ
<1> QED BY <1>1, <1>2, PointsAre DEF CacheInv, CacheExclusive

-----------------------------------------------------------------------------
LEMMA CacheInit == Init => CacheInv
<1> SUFFICES ASSUME Init PROVE CacheInv
  OBVIOUS
<1>1. <<>> \in Seq(Claimants) /\ Distinct(<<>>) /\ \A y : ~InQ(<<>>, y)
  BY DEF Distinct, InQ
<1> QED BY <1>1, PointsAre DEF Init, CacheInv, CacheExclusive

LEMMA CacheNext == CacheInv /\ [Next]_vars => CacheInv'
<1> SUFFICES ASSUME CacheInv, [Next]_vars PROVE CacheInv'
  OBVIOUS
<1>1. ASSUME NEW i \in Instances, CallStep(i) PROVE CacheInv'
  BY <1>1, SectionSteps, SectionKeeps, RequestSteps, RequestKeeps, EnterKeeps DEF CallStep
<1>2. ASSUME NEW i \in Instances, NEW offline \in BOOLEAN, Begin(i, offline)
      PROVE  CacheInv'
  BY <1>2, RequestSteps, RequestKeeps
<1>3. ASSUME NEW i \in Instances, Cancel(i) PROVE CacheInv'
  BY <1>3, CancelKeeps
<1>4. ASSUME NEW i \in Instances, EnterPassword(i) PROVE CacheInv'
  BY <1>4, Kept DEF EnterPassword, callVars, lockVars
<1>5. CASE DeletionEnds \/ Renew \/ Expires
  BY <1>5, Kept DEF DeletionEnds, Renew, Expires, callVars, lockVars
<1>6. CASE Crash
  BY <1>6, CrashKeeps
<1>7. CASE UNCHANGED vars
  BY <1>7, Kept DEF vars, callVars, lockVars
<1> QED BY <1>1, <1>2, <1>3, <1>4, <1>5, <1>6, <1>7 DEF Next

\* The cache directory is used by the one holder of _cacheLock, for any number
\* of instances, through failures, cancellations and crashes; a call that is
\* over claims the lock no more.
THEOREM OneUser == Spec => []CacheExclusive
<1>1. CacheInv => CacheExclusive
  BY DEF CacheInv
<1> QED BY <1>1, CacheInit, CacheNext, PTL DEF Spec

-----------------------------------------------------------------------------
(* What the server told.  The answer to update() is used after it and      *)
(* never before: a call is told something only in the sections that        *)
(* follow, and until it ends the server's network was as new at its start. *)

Fields == {"offline", "since", "id", "session", "keys", "types", "net", "todo", "told"}
Telling == {"saveNet", "saveKeys", "fixture", "saveTypes"}

FreshOK(i) ==
  /\ DOMAIN mem[i] = Fields
  /\ mem[i].since \in Nat /\ mem[i].since <= server.rev
  /\ mem[i].told => at[i] \in Telling /\ mem[i].net.rev >= mem[i].since

FreshInv ==
  /\ DOMAIN at = Instances /\ DOMAIN mem = Instances
  /\ DOMAIN server = {"rev", "gen"} /\ server.rev \in Nat
  /\ \A i \in Instances : FreshOK(i)

\* What GoesOn may be called with.
Good(i, m) ==
  /\ DOMAIN m = Fields /\ m.since = mem[i].since
  /\ m.told => m.net.rev >= m.since

LEMMA NewIs ==
  ASSUME NEW offline, NEW rev
  PROVE  /\ DOMAIN NewNetwork(offline, rev) = Fields
         /\ NewNetwork(offline, rev).since = rev
         /\ ~NewNetwork(offline, rev).told
BY DEF Fields, NewNetwork

LEMMA IdleIs ==
  /\ DOMAIN NewNetwork(FALSE, 0) = Fields
  /\ NewNetwork(FALSE, 0).since = 0
  /\ ~NewNetwork(FALSE, 0).told
BY NewIs

LEMMA ParsedIs ==
  ASSUME NEW m, DOMAIN m = Fields, NEW net
  PROVE  /\ DOMAIN Parsed(m, net, FALSE) = Fields
         /\ Parsed(m, net, FALSE).since = m.since
         /\ ~Parsed(m, net, FALSE).told
         /\ DOMAIN Parsed(m, net, TRUE) = Fields
         /\ Parsed(m, net, TRUE).since = m.since
         /\ Parsed(m, net, TRUE).net = net
BY DEF Fields, Parsed

LEMMA ParsedGood ==
  ASSUME FreshInv, NEW i \in Instances, NEW v
  PROVE  /\ Good(i, Parsed(mem[i], v, FALSE))
         /\ v.rev = server.rev => Good(i, Parsed(mem[i], v, TRUE))
         /\ Good(i, Parsed(mem[i], server, TRUE))
         /\ Good(i, mem[i])
<1>1. FreshOK(i) /\ DOMAIN mem[i] = Fields
  BY DEF FreshInv, FreshOK
<1>2. Good(i, Parsed(mem[i], v, FALSE))
  BY <1>1, ParsedIs DEF Good
<1>3. server.rev \in Nat /\ mem[i].since \in Nat /\ server.rev >= mem[i].since
  BY <1>1 DEF FreshInv, FreshOK
<1>4. Good(i, Parsed(mem[i], server, TRUE))
  BY <1>1, <1>3, ParsedIs DEF Good
<1>5. Good(i, mem[i])
  BY <1>1 DEF Good, FreshOK
<1>6. v.rev = server.rev => Good(i, Parsed(mem[i], v, TRUE))
  BY <1>1, <1>3, ParsedIs DEF Good
<1> QED BY <1>2, <1>4, <1>5, <1>6

LEMMA LearnsIs ==
  ASSUME NEW i \in Instances, NEW f \in Fields \ {"told", "since"}, NEW v,
         DOMAIN mem = Instances, DOMAIN mem[i] = Fields, Learns(i, f, v)
  PROVE  /\ DOMAIN mem'[i] = Fields /\ mem'[i].told = mem[i].told
         /\ mem'[i].since = mem[i].since
         /\ f # "net" => mem'[i].net = mem[i].net
         /\ \E m : mem' = [mem EXCEPT ![i] = m]
<1>1. mem' = [mem EXCEPT ![i] = [mem[i] EXCEPT ![f] = v]]
  BY DEF Learns
<1> QED BY <1>1 DEF Fields

LEMMA CallKeepsFresh ==
  ASSUME FreshInv, NEW i \in Instances, \E s : Goto(i, s), UNCHANGED server,
         UNCHANGED mem \/ \E m : mem' = [mem EXCEPT ![i] = m],
         FreshOK(i)'
  PROVE  FreshInv'
<1>1. DOMAIN at' = Instances /\ DOMAIN mem' = Instances
  BY DEF FreshInv, Goto
<1>2. ASSUME NEW j \in Instances \ {i} PROVE at'[j] = at[j] /\ mem'[j] = mem[j]
  BY DEF FreshInv, Goto
<1>3. ASSUME NEW j \in Instances \ {i} PROVE FreshOK(j)'
  BY <1>2 DEF FreshInv, FreshOK
<1> QED BY <1>1, <1>3 DEF FreshInv

LEMMA EndFresh ==
  ASSUME FreshInv, NEW i \in Instances, NEW how,
         End(i, how) \/ EndLocked(i, how) \/ Breaks(i, how), UNCHANGED server
  PROVE  FreshInv'
<1>1. Goto(i, "idle") /\ mem' = [mem EXCEPT ![i] = NewNetwork(FALSE, 0)]
  BY DEF End, EndLocked, Breaks
<1>2. DOMAIN mem'[i] = Fields /\ mem'[i].since = 0 /\ ~mem'[i].told
  <2>1. mem'[i] = NewNetwork(FALSE, 0)
    BY <1>1 DEF FreshInv
  <2> QED BY <2>1, IdleIs
<1>3. FreshOK(i)'
  BY <1>2 DEF FreshInv, FreshOK
<1> QED BY <1>1, <1>3, CallKeepsFresh

\* Before the answer.
LEMMA UntoldFresh ==
  ASSUME FreshInv, NEW i \in Instances, at[i] \notin Telling, \E s : Goto(i, s),
         UNCHANGED server,
         UNCHANGED mem \/ \E f \in Fields \ {"told", "since"} : \E v : Learns(i, f, v)
  PROVE  FreshInv'
<1>1. DOMAIN mem[i] = Fields /\ ~mem[i].told /\ DOMAIN mem = Instances
  BY DEF FreshInv, FreshOK
<1>2. /\ DOMAIN mem'[i] = Fields /\ mem'[i].told = mem[i].told
      /\ mem'[i].since = mem[i].since
      /\ UNCHANGED mem \/ \E m : mem' = [mem EXCEPT ![i] = m]
  BY <1>1, LearnsIs
<1>3. FreshOK(i)'
  BY <1>1, <1>2 DEF FreshInv, FreshOK
<1> QED BY <1>2, <1>3, CallKeepsFresh

LEMMA GoesFresh ==
  ASSUME FreshInv, NEW i \in Instances, NEW m, NEW q, GoesOn(i, m, q), Good(i, m),
         UNCHANGED server
  PROVE  FreshInv'
<1>1. \E s \in Telling : Goto(i, s)
  BY DEF GoesOn, Telling
<1>2. at'[i] \in Telling
  BY <1>1 DEF Goto, FreshInv
<1>3. PICK n : /\ mem' = [mem EXCEPT ![i] = n] /\ DOMAIN n = Fields
               /\ n.told = m.told /\ n.since = m.since /\ n.net = m.net
  <2>1. CASE mem' = [mem EXCEPT ![i] = m]
    BY <2>1 DEF Good
  <2>2. CASE mem' = [mem EXCEPT ![i] =
                      [m EXCEPT !.keys = Append(@, Head(m.todo)), !.todo = Tail(@)]]
    <3> DEFINE n == [m EXCEPT !.keys = Append(@, Head(m.todo)), !.todo = Tail(@)]
    <3>1. /\ DOMAIN n = Fields
          /\ n.told = m.told /\ n.since = m.since /\ n.net = m.net
      BY DEF Good, Fields
    <3> QED BY <2>2, <3>1
  <2> QED BY <2>1, <2>2 DEF GoesOn
<1>4. mem'[i] = n
  BY <1>3 DEF FreshInv
<1>5. FreshOK(i)'
  BY <1>2, <1>3, <1>4 DEF FreshInv, FreshOK, Good
<1> QED BY <1>1, <1>3, <1>5, CallKeepsFresh

-----------------------------------------------------------------------------
LEMMA SectionFresh ==
  ASSUME FreshInv, NEW i \in Instances,
         \/ SetUuid(i) \/ LoadKeys(i) \/ LoadSession(i) \/ LoadTypes(i) \/ ReadId(i)
         \/ SaveId(i) \/ SaveSession(i)
  PROVE  FreshInv'
<1>1. /\ {"keys", "session", "types", "id"} \subseteq Fields \ {"told", "since"}
      /\ {"uuid", "keys", "session", "types", "netid", "saveId", "saveSession"}
           \cap Telling = {}
  BY DEF Fields, Telling
<1>2. CASE SetUuid(i)
  BY <1>1, <1>2, UntoldFresh DEF SetUuid, Relock, serverVars
<1>3. ASSUME NEW s, NEW field \in Fields \ {"told", "since"}, NEW next,
             Load(i, s, field, next), s \notin Telling
      PROVE  FreshInv'
  <2>1. at[i] = s /\ UNCHANGED server
    BY <1>3 DEF Load, In, serverVars
  <2>2. \/ EndLocked(i, "corrupt")
        \/ /\ \E r : Goto(i, r)
           /\ UNCHANGED mem \/ \E v : Learns(i, field, v)
    BY <1>3 DEF Load, Relock
  <2> QED BY <1>3, <2>1, <2>2, EndFresh, UntoldFresh
<1>4. CASE LoadKeys(i) \/ LoadSession(i) \/ LoadTypes(i)
  BY <1>1, <1>3, <1>4 DEF LoadKeys, LoadSession, LoadTypes
<1>5. CASE ReadId(i)
  <2>1. /\ at[i] = "netid" /\ UNCHANGED server
        /\ \/ EndLocked(i, "needOnline")
           \/ (\E r : Goto(i, r)) /\ \E v : Learns(i, "id", v)
    BY <1>5 DEF ReadId, In, Relock, Unlocked, serverVars
  <2> QED BY <1>1, <2>1, EndFresh, UntoldFresh
<1>6. CASE SaveId(i)
  <2>1. /\ at[i] = "saveId" /\ UNCHANGED server
        /\ \/ EndLocked(i, "corrupt")
           \/ (\E r : Goto(i, r)) /\ Learns(i, "id", TRUE)
    BY <1>6 DEF SaveId, In, Relock, Unlocked, Unwritable, serverVars
  <2> QED BY <1>1, <2>1, EndFresh, UntoldFresh
<1>7. CASE SaveSession(i)
  <2>1. /\ at[i] = "saveSession" /\ UNCHANGED server
        /\ \/ \E how : EndLocked(i, how)
           \/ (\E r : Goto(i, r)) /\ UNCHANGED mem
    BY <1>7 DEF SaveSession, In, Relock, Unwritable, serverVars
  <2> QED BY <1>1, <2>1, EndFresh, UntoldFresh
<1> QED BY <1>2, <1>4, <1>5, <1>6, <1>7

LEMMA RequestFresh ==
  ASSUME FreshInv, NEW i \in Instances, GetId(i) \/ Login(i) \/ Put(i) \/ FetchUnitInfo(i)
  PROVE  FreshInv'
<1>1. /\ {"session", "offline", "types"} \subseteq Fields \ {"told", "since"}
      /\ {"getId", "login", "put"} \cap Telling = {}
  BY DEF Fields, Telling
<1>2. UNCHANGED server
  BY DEF GetId, Login, Put, FetchUnitInfo, serverVars
<1>3. CASE GetId(i)
  <2>1. /\ at[i] = "getId"
        /\ \/ \E how : Breaks(i, how)
           \/ (\E r : Goto(i, r)) /\ UNCHANGED mem
    BY <1>3 DEF GetId, LogIn, Lock
  <2> QED BY <1>1, <1>2, <2>1, EndFresh, UntoldFresh
<1>4. CASE Login(i)
  <2>1. /\ at[i] = "login"
        /\ \/ \E how : End(i, how) \/ Breaks(i, how)
           \/ /\ \E r : Goto(i, r)
              /\ \E f \in {"session", "offline"} : \E v : Learns(i, f, v)
    BY <1>4 DEF Login, Lock
  <2> QED BY <1>1, <1>2, <2>1, EndFresh, UntoldFresh
<1>5. CASE Put(i)
  <2>1. /\ at[i] = "put"
        /\ \/ \E how : Breaks(i, how)
           \/ Lock(i, "invalidate") /\ UNCHANGED mem
           \/ /\ mem[i].net.rev = server.rev
              /\ GoesOn(i, Parsed(mem[i], mem[i].net, TRUE), lockQ)
           \/ GoesOn(i, Parsed(mem[i], mem[i].net, FALSE), lockQ)
           \/ /\ Lock(i, "saveNet")
              /\ mem' = [mem EXCEPT ![i] = Parsed(mem[i], server, TRUE)]
    BY <1>5 DEF Put, Answers, PutFails
  <2>2. CASE \E how : Breaks(i, how)
    BY <1>2, <2>2, EndFresh
  <2>3. CASE Lock(i, "invalidate") /\ UNCHANGED mem
    BY <1>1, <1>2, <2>1, <2>3, UntoldFresh DEF Lock
  <2>4. CASE \/ /\ mem[i].net.rev = server.rev
                /\ GoesOn(i, Parsed(mem[i], mem[i].net, TRUE), lockQ)
             \/ GoesOn(i, Parsed(mem[i], mem[i].net, FALSE), lockQ)
    BY <1>2, <2>4, ParsedGood, GoesFresh
  <2>5. CASE Lock(i, "saveNet") /\ mem' = [mem EXCEPT ![i] = Parsed(mem[i], server, TRUE)]
    <3>1. Goto(i, "saveNet") /\ at'[i] \in Telling
      BY <2>5 DEF Lock, Goto, FreshInv, Telling
    <3>2. mem'[i] = Parsed(mem[i], server, TRUE)
      BY <2>5 DEF FreshInv
    <3>3. Good(i, Parsed(mem[i], server, TRUE))
      BY ParsedGood
    <3>4. FreshOK(i)'
      BY <1>2, <3>1, <3>2, <3>3 DEF Good, FreshInv, FreshOK
    <3> QED BY <1>2, <2>5, <3>1, <3>4, CallKeepsFresh
  <2> QED BY <2>1, <2>2, <2>3, <2>4, <2>5
<1>6. CASE FetchUnitInfo(i)
  <2>1. \/ \E how : Breaks(i, how)
        \/ Goto(i, "saveTypes") /\ \E v : Learns(i, "types", v)
    BY <1>6 DEF FetchUnitInfo, Lock
  <2>2. CASE Goto(i, "saveTypes") /\ \E v : Learns(i, "types", v)
    <3>1. DOMAIN mem[i] = Fields /\ DOMAIN mem = Instances /\ FreshOK(i)
      BY DEF FreshInv, FreshOK
    <3>2. /\ DOMAIN mem'[i] = Fields /\ mem'[i].told = mem[i].told
          /\ mem'[i].since = mem[i].since /\ mem'[i].net = mem[i].net
          /\ \E m : mem' = [mem EXCEPT ![i] = m]
      BY <1>1, <2>2, <3>1, LearnsIs
    <3>3. at'[i] \in Telling
      BY <2>2 DEF Goto, FreshInv, Telling
    <3>4. FreshOK(i)'
      BY <1>2, <3>1, <3>2, <3>3 DEF FreshOK
    <3> QED BY <1>2, <2>2, <3>2, <3>4, CallKeepsFresh
  <2> QED BY <1>2, <2>1, <2>2, EndFresh
<1> QED BY <1>3, <1>4, <1>5, <1>6

LEMMA UpdateFresh ==
  ASSUME FreshInv, NEW i \in Instances,
         \/ ReadNet(i) \/ Invalidate(i) \/ SaveNet(i) \/ SaveKeys(i) \/ SaveTypes(i)
  PROVE  FreshInv'
<1>1. UNCHANGED server
  BY DEF ReadNet, Invalidate, SaveNet, SaveKeys, SaveTypes, serverVars
<1>2. "net" \in Fields \ {"told", "since"} /\ "net" \notin Telling
  BY DEF Fields, Telling
<1>3. \/ \E how : EndLocked(i, how)
      \/ GoesOn(i, mem[i], Tail(lockQ))
      \/ \E v : GoesOn(i, Parsed(mem[i], v, FALSE), Tail(lockQ))
      \/ /\ at[i] = "net" /\ \E s : Goto(i, s)
         /\ UNCHANGED mem \/ \E v : Learns(i, "net", v)
  BY DEF ReadNet, Invalidate, SaveNet, SaveKeys, SaveTypes, Unwritable, Unlocked, In
<1>4. CASE \E how : EndLocked(i, how)
  BY <1>1, <1>4, EndFresh
<1>5. CASE GoesOn(i, mem[i], Tail(lockQ))
  BY <1>1, <1>5, ParsedGood, GoesFresh
<1>6. CASE \E v : GoesOn(i, Parsed(mem[i], v, FALSE), Tail(lockQ))
  BY <1>1, <1>6, ParsedGood, GoesFresh
<1>7. CASE /\ at[i] = "net" /\ \E s : Goto(i, s)
           /\ UNCHANGED mem \/ \E v : Learns(i, "net", v)
  BY <1>1, <1>2, <1>7, UntoldFresh
<1> QED BY <1>3, <1>4, <1>5, <1>6, <1>7

LEMMA BeginFresh ==
  ASSUME FreshInv, NEW i \in Instances, NEW offline \in BOOLEAN, Begin(i, offline)
  PROVE  FreshInv'
<1>1. /\ Goto(i, "uuid") /\ UNCHANGED server
      /\ mem' = [mem EXCEPT ![i] = NewNetwork(offline, server.rev)]
  BY DEF Begin, Lock, serverVars
<1>2. mem'[i] = NewNetwork(offline, server.rev)
  BY <1>1 DEF FreshInv
<1>3. FreshOK(i)'
  BY <1>1, <1>2, NewIs DEF FreshInv, FreshOK
<1> QED BY <1>1, <1>3, CallKeepsFresh

LEMMA StopsFresh ==
  ASSUME FreshInv, NEW I \in SUBSET Instances, Stops(I)
  PROVE  FreshInv'
<1>1. /\ at' = [i \in Instances |-> IF i \in I THEN "idle" ELSE at[i]]
      /\ mem' = [i \in Instances |-> IF i \in I THEN NewNetwork(FALSE, 0) ELSE mem[i]]
      /\ UNCHANGED server
  BY DEF Stops, serverVars
<1>2. ASSUME NEW i \in I PROVE FreshOK(i)'
  <2>1. DOMAIN mem'[i] = Fields /\ mem'[i].since = 0 /\ ~mem'[i].told
    <3>1. mem'[i] = NewNetwork(FALSE, 0)
      BY <1>1
    <3> QED BY <3>1, IdleIs
  <2>2. server'.rev \in Nat
    BY <1>1 DEF FreshInv
  <2> QED BY <2>1, <2>2 DEF FreshOK
<1>3. ASSUME NEW i \in Instances \ I PROVE FreshOK(i)'
  BY <1>1 DEF FreshInv, FreshOK
<1> QED BY <1>1, <1>2, <1>3 DEF FreshInv

LEMMA WorldFresh ==
  ASSUME FreshInv, Renew \/ Expires
  PROVE  FreshInv'
<1>1. UNCHANGED at
  BY DEF Renew, Expires
<1>2. CASE Renew
  <2>1. /\ UNCHANGED mem
        /\ \/ server' = [rev |-> server.rev + 1, gen |-> server.gen + 1]
           \/ server' = [server EXCEPT !.rev = @ + 1]
    BY <1>2 DEF Renew
  <2>2. DOMAIN server' = {"rev", "gen"} /\ server'.rev = server.rev + 1
    BY <2>1 DEF FreshInv
  <2>3. ASSUME NEW i \in Instances PROVE FreshOK(i)'
    BY <1>1, <2>1, <2>2 DEF FreshInv, FreshOK
  <2> QED BY <1>1, <2>1, <2>2, <2>3 DEF FreshInv
<1>3. CASE Expires
  <2>1. /\ UNCHANGED server
        /\ \/ UNCHANGED mem
           \/ mem' = [i \in Instances |-> [mem[i] EXCEPT !.types = "unknown"]]
    BY <1>3 DEF Expires
  <2>2. ASSUME NEW i \in Instances
        PROVE  /\ DOMAIN mem'[i] = Fields /\ mem'[i].told = mem[i].told
               /\ mem'[i].since = mem[i].since /\ mem'[i].net = mem[i].net
    <3>1. DOMAIN mem[i] = Fields
      BY DEF FreshInv, FreshOK
    <3>2. mem'[i] = mem[i] \/ mem'[i] = [mem[i] EXCEPT !.types = "unknown"]
      BY <2>1
    <3> QED BY <3>1, <3>2 DEF Fields
  <2>3. DOMAIN mem' = Instances
    BY <2>1 DEF FreshInv
  <2>4. ASSUME NEW i \in Instances PROVE FreshOK(i)'
    BY <1>1, <2>1, <2>2 DEF FreshInv, FreshOK
  <2> QED BY <1>1, <2>1, <2>3, <2>4 DEF FreshInv
<1> QED BY <1>2, <1>3

LEMMA StillFresh ==
  ASSUME FreshInv, UNCHANGED <<at, mem, server>>
  PROVE  FreshInv'
BY DEF FreshInv, FreshOK

LEMMA FreshInit == Init => FreshInv
<1> SUFFICES ASSUME Init PROVE FreshInv
  OBVIOUS
<1>1. /\ at = [i \in Instances |-> "idle"] /\ server = [rev |-> 1, gen |-> 1]
      /\ mem = [i \in Instances |-> NewNetwork(FALSE, 0)]
  BY DEF Init
<1>2. DOMAIN server = {"rev", "gen"} /\ server.rev = 1
  BY <1>1
<1>3. ASSUME NEW i \in Instances PROVE FreshOK(i)
  <2>1. DOMAIN mem[i] = Fields /\ mem[i].since = 0 /\ ~mem[i].told
    <3>1. mem[i] = NewNetwork(FALSE, 0)
      BY <1>1
    <3> QED BY <3>1, IdleIs
  <2> QED BY <1>2, <2>1 DEF FreshOK
<1> QED BY <1>1, <1>2, <1>3 DEF FreshInv

LEMMA FreshNext == FreshInv /\ [Next]_vars => FreshInv'
<1> SUFFICES ASSUME FreshInv, [Next]_vars PROVE FreshInv'
  OBVIOUS
<1>1. ASSUME NEW i \in Instances, CallStep(i) PROVE FreshInv'
  <2>1. CASE Enter(i)
    BY <2>1, StillFresh DEF Enter, callVars, serverVars
  <2> QED BY <1>1, <2>1, SectionFresh, RequestFresh, UpdateFresh DEF CallStep
<1>2. ASSUME NEW i \in Instances, NEW offline \in BOOLEAN, Begin(i, offline)
      PROVE  FreshInv'
  BY <1>2, BeginFresh
<1>3. ASSUME NEW i \in Instances, Cancel(i) PROVE FreshInv'
  BY <1>3, StopsFresh DEF Cancel
<1>4. CASE Crash
  BY <1>4, StopsFresh DEF Crash
<1>5. CASE DeletionEnds \/ \E i \in Instances : EnterPassword(i)
  BY <1>5, StillFresh DEF DeletionEnds, EnterPassword, callVars, serverVars
<1>6. CASE Renew \/ Expires
  BY <1>6, WorldFresh
<1>7. CASE UNCHANGED vars
  BY <1>7, StillFresh DEF vars, callVars, serverVars
<1> QED BY <1>1, <1>2, <1>3, <1>4, <1>5, <1>6, <1>7 DEF Next

\* A call that the server answered ends with a network at least as new as the
\* server's when the call began, whatever the cache held and whoever else wrote
\* it meanwhile.
THEOREM AnswersAreFresh == Spec => []AnswerIsFresh
<1>1. FreshInv => AnswerIsFresh
  BY DEF FreshInv, FreshOK, AnswerIsFresh
<1> QED BY <1>1, FreshInit, FreshNext, PTL DEF Spec
-----------------------------------------------------------------------------
(* Types.  CacheInv has those of the points of calls and of the lock.      *)

Object == [offline : BOOLEAN, since : Nat, id : BOOLEAN, session : Nat,
           keys : Seq(Key), types : Fixture, net : Net, todo : Seq(Key), told : BOOLEAN]
Directory == [ver : {"absent", "none", "torn", "old", "ok"}, entry : BOOLEAN, data : Data]

Typed ==
  /\ mem \in [Instances -> Object] /\ files \in Directory
  /\ {ready, deleter, purged} \subseteq BOOLEAN
  /\ pw \in [Instances -> Nat] /\ server \in Net /\ granted \in Seq(Nat)
  /\ expired \subseteq 1..Len(granted)
  /\ failures \in [Instances -> Nat] /\ alone \in [Instances -> BOOLEAN]
  /\ calls \in 0..MaxCalls /\ events \in 0..MaxEvents

LEMMA NewTyped ==
  ASSUME NEW offline \in BOOLEAN, NEW rev \in Nat
  PROVE  NewNetwork(offline, rev) \in Object
BY DEF NewNetwork, Object, Fixture, Net, NoNet

LEMMA KeysTyped ==
  /\ OldKey \in Key
  /\ \A gen \in Nat : NewKey(gen) \in Key
BY DEF OldKey, NewKey, Key

LEMMA ParsedTyped ==
  ASSUME NEW m \in Object, NEW net \in Net, NEW told \in BOOLEAN
  PROVE  Parsed(m, net, told) \in Object
<1> DEFINE todo == Unstored(m, OldKey) \o Unstored(m, NewKey(net.gen))
<1>1. OldKey \in Key /\ NewKey(net.gen) \in Key
  BY KeysTyped DEF Net
<1>2. Unstored(m, OldKey) \in Seq(Key) /\ Unstored(m, NewKey(net.gen)) \in Seq(Key)
  BY <1>1 DEF Unstored
<1>3. todo \in Seq(Key)
  BY <1>2
<1>4. Parsed(m, net, told) = [m EXCEPT !.net = net, !.told = told, !.todo = todo]
  BY DEF Parsed
<1> HIDE DEF todo
<1> QED BY <1>3, <1>4 DEF Object

LEMMA SavedTyped ==
  ASSUME NEW m \in Object, m.todo # <<>>
  PROVE  [m EXCEPT !.keys = Append(@, Head(m.todo)), !.todo = Tail(@)] \in Object
<1>1. m.keys \in Seq(Key) /\ m.todo \in Seq(Key)
  BY DEF Object
<1>2. Append(m.keys, Head(m.todo)) \in Seq(Key) /\ Tail(m.todo) \in Seq(Key)
  BY <1>1
<1> QED BY <1>2 DEF Object

\* What a step does to the Network object of a call.
Sets(i) == \/ UNCHANGED mem
           \/ \E m \in Object : mem' = [mem EXCEPT ![i] = m]

LEMMA EndSets ==
  ASSUME NEW i \in Instances, NEW how, End(i, how) \/ EndLocked(i, how) \/ Breaks(i, how)
  PROVE  Sets(i)
BY NewTyped DEF Sets, End, EndLocked, Breaks

LEMMA GoesOnSets ==
  ASSUME NEW i \in Instances, NEW m \in Object, NEW q, GoesOn(i, m, q)
  PROVE  Sets(i)
BY SavedTyped DEF GoesOn, Sets

LEMMA LearnsSets ==
  ASSUME NEW i \in Instances, mem \in [Instances -> Object], NEW f, NEW v, Learns(i, f, v),
         \/ f \in {"offline", "id"} /\ v \in BOOLEAN
         \/ f = "session" /\ v \in Nat
         \/ f = "keys" /\ v \in Seq(Key)
         \/ f = "types" /\ v \in Fixture
         \/ f = "net" /\ v \in Net
  PROVE  Sets(i)
<1>1. mem[i] \in Object
  OBVIOUS
<1>2. mem' = [mem EXCEPT ![i] = [mem[i] EXCEPT ![f] = v]]
  BY DEF Learns
<1>3. [mem[i] EXCEPT ![f] = v] \in Object
  BY <1>1 DEF Object
<1> QED BY <1>2, <1>3 DEF Sets

\* What the files hold is of the type of what is learnt from them.
LEMMA FilesHold ==
  ASSUME files \in Directory
  PROVE  /\ files.data \in Data
         /\ files.data.keys \notin {None, Torn} => files.data.keys \in Seq(Key)
         /\ files.data.session \notin {None, Torn} => files.data.session \in Nat
         /\ files.data.types \notin {None, Torn} => files.data.types \in Fixture
         /\ files.data.net \notin {None, Torn} => files.data.net \in Net
BY DEF Directory, Data

LEMMA SectionSets ==
  ASSUME Typed, NEW i \in Instances,
         \/ SetUuid(i) \/ Enter(i) \/ LoadKeys(i) \/ LoadSession(i) \/ LoadTypes(i)
         \/ ReadId(i) \/ SaveId(i) \/ SaveSession(i)
  PROVE  Sets(i)
<1>1. mem \in [Instances -> Object] /\ files \in Directory
  BY DEF Typed
<1>2. CASE SetUuid(i) \/ Enter(i)
  BY <1>2 DEF SetUuid, Enter, callVars, Sets
<1>3. ASSUME NEW s, NEW field, NEW next, Load(i, s, field, next)
      PROVE  \/ Sets(i)
             \/ Learns(i, field, files.data[field]) /\ files.data[field] \notin {None, Torn}
  BY <1>3, EndSets DEF Load, Sets
<1>4. CASE LoadKeys(i)
  BY <1>1, <1>3, <1>4, FilesHold, LearnsSets DEF LoadKeys
<1>5. CASE LoadSession(i)
  BY <1>1, <1>3, <1>5, FilesHold, LearnsSets DEF LoadSession
<1>6. CASE LoadTypes(i)
  BY <1>1, <1>3, <1>6, FilesHold, LearnsSets DEF LoadTypes
<1>7. CASE ReadId(i)
  <2>1. \/ EndLocked(i, "needOnline")
        \/ \E v \in BOOLEAN : Learns(i, "id", v)
    BY <1>7 DEF ReadId
  <2> QED BY <1>1, <2>1, EndSets, LearnsSets
<1>8. CASE SaveId(i)
  <2>1. EndLocked(i, "corrupt") \/ Learns(i, "id", TRUE)
    BY <1>8 DEF SaveId, Unwritable
  <2> QED BY <1>1, <2>1, EndSets, LearnsSets
<1>9. CASE SaveSession(i)
  <2>1. (\E how : EndLocked(i, how)) \/ UNCHANGED mem
    BY <1>9 DEF SaveSession, Unwritable
  <2> QED BY <2>1, EndSets DEF Sets
<1> QED BY <1>2, <1>4, <1>5, <1>6, <1>7, <1>8, <1>9

LEMMA RequestSets ==
  ASSUME Typed, NEW i \in Instances, GetId(i) \/ Login(i) \/ Put(i) \/ FetchUnitInfo(i)
  PROVE  Sets(i)
<1>1. /\ mem \in [Instances -> Object] /\ mem[i] \in Object /\ mem[i].net \in Net
      /\ server \in Net /\ Len(granted) + 1 \in Nat
  BY DEF Typed, Object
<1>2. CASE GetId(i)
  <2>1. (\E how : Breaks(i, how)) \/ UNCHANGED mem
    BY <1>2 DEF GetId, LogIn
  <2> QED BY <2>1, EndSets DEF Sets
<1>3. CASE Login(i)
  <2>1. \/ \E how : End(i, how) \/ Breaks(i, how)
        \/ Learns(i, "session", Len(granted) + 1)
        \/ Learns(i, "offline", TRUE)
    BY <1>3 DEF Login
  <2> QED BY <1>1, <2>1, EndSets, LearnsSets
<1>4. CASE Put(i)
  <2>1. \/ \E how : Breaks(i, how)
        \/ UNCHANGED mem
        \/ \E told \in BOOLEAN : GoesOn(i, Parsed(mem[i], mem[i].net, told), lockQ)
        \/ mem' = [mem EXCEPT ![i] = Parsed(mem[i], server, TRUE)]
    BY <1>4 DEF Put, Answers, PutFails
  <2>2. /\ Parsed(mem[i], server, TRUE) \in Object
        /\ \A told \in BOOLEAN : Parsed(mem[i], mem[i].net, told) \in Object
    BY <1>1, ParsedTyped
  <2> QED BY <2>1, <2>2, EndSets, GoesOnSets DEF Sets
<1>5. CASE FetchUnitInfo(i)
  <2>1. \/ \E how : Breaks(i, how)
        \/ \E v \in {"fetched", "refused"} : Learns(i, "types", v)
    BY <1>5 DEF FetchUnitInfo
  <2>2. {"fetched", "refused"} \subseteq Fixture
    BY DEF Fixture
  <2> QED BY <1>1, <2>1, <2>2, EndSets, LearnsSets
<1> QED BY <1>2, <1>3, <1>4, <1>5

LEMMA UpdateSets ==
  ASSUME Typed, NEW i \in Instances,
         \/ ReadNet(i) \/ Invalidate(i) \/ SaveNet(i) \/ SaveKeys(i) \/ SaveTypes(i)
  PROVE  Sets(i)
<1>1. mem \in [Instances -> Object] /\ mem[i] \in Object /\ files \in Directory
  BY DEF Typed
<1>2. \/ \E how : EndLocked(i, how)
      \/ GoesOn(i, mem[i], Tail(lockQ))
      \/ UNCHANGED mem
      \/ /\ files.data.net \notin {None, Torn}
         /\ \/ GoesOn(i, Parsed(mem[i], files.data.net, FALSE), Tail(lockQ))
            \/ Learns(i, "net", files.data.net)
  BY DEF ReadNet, Invalidate, SaveNet, SaveKeys, SaveTypes, Unwritable
<1>3. files.data.net \notin {None, Torn} =>
        files.data.net \in Net /\ Parsed(mem[i], files.data.net, FALSE) \in Object
  BY <1>1, FilesHold, ParsedTyped
<1> QED BY <1>1, <1>2, <1>3, EndSets, GoesOnSets, LearnsSets DEF Sets
\* What a step does to the directory.
LEMMA WriteTyped ==
  ASSUME Typed, NEW i \in Instances, at[i] \in Writing, Write(i)
  PROVE  files' \in Directory
<1>1. /\ files \in Directory /\ files.data \in Data
      /\ mem[i] \in Object
  BY FilesHold DEF Typed
<1>2. FileOf[at[i]] \in {"id", "session", "net", "keys", "types"}
  BY DEF FileOf, Writing
<1> DEFINE d == [files.data EXCEPT ![FileOf[at[i]]] = Contents(i)[FileOf[at[i]]]]
<1>3. files' = [files EXCEPT !.data = d]
  BY DEF Write
<1>4. d \in Data
  BY <1>1, <1>2 DEF Contents, Data, Object
<1> HIDE DEF d
<1> QED BY <1>1, <1>3, <1>4 DEF Directory

LEMMA ValidTyped ==
  ASSUME files \in Directory
  PROVE  /\ EnsureCacheValid(files) \in Directory
         /\ \A b \in BOOLEAN : [EnsureCacheValid(files) EXCEPT !.entry = b] \in Directory
         /\ HalfValid(files) \subseteq Directory
         /\ Deleted(files) \in Directory
<1>1. NoEntry \in Data
  BY DEF NoEntry, Data
<1>2. EnsureCacheValid(files) \in Directory
  BY <1>1 DEF EnsureCacheValid, Directory
<1>3. \A b \in BOOLEAN : [EnsureCacheValid(files) EXCEPT !.entry = b] \in Directory
  BY <1>2 DEF Directory
<1>4. HalfValid(files) \subseteq Directory
  BY <1>1 DEF HalfValid, Directory
<1>5. Deleted(files) \in Directory
  BY <1>1 DEF Deleted, Directory
<1> QED BY <1>2, <1>3, <1>4, <1>5

LEMMA TornTyped ==
  ASSUME files \in Directory, NEW s \in Writing
  PROVE  [files EXCEPT !.data[FileOf[s]] = Torn] \in Directory
<1>1. files.data \in Data
  BY FilesHold
<1>2. FileOf[s] \in {"id", "session", "net", "keys", "types"}
  BY DEF FileOf, Writing
<1>3. [files.data EXCEPT ![FileOf[s]] = Torn] \in Data
  BY <1>1, <1>2 DEF Data
<1> QED BY <1>3 DEF Directory

LEMMA CallFiles ==
  ASSUME Typed, NEW i \in Instances, CallStep(i)
  PROVE  files' \in Directory
<1>1. files \in Directory
  BY DEF Typed
<1>2. CASE \/ SetUuid(i) \/ LoadKeys(i) \/ LoadSession(i) \/ LoadTypes(i) \/ ReadId(i)
           \/ GetId(i) \/ Login(i) \/ ReadNet(i) \/ Put(i) \/ FetchUnitInfo(i)
  BY <1>1, <1>2 DEF SetUuid, LoadKeys, LoadSession, LoadTypes, Load, ReadId, GetId, Login,
                    ReadNet, Put, FetchUnitInfo, diskVars
<1>3. CASE Enter(i)
  BY <1>1, <1>3, ValidTyped DEF Enter, Directory
<1>4. CASE SaveId(i) \/ SaveSession(i) \/ SaveNet(i) \/ SaveKeys(i) \/ SaveTypes(i)
  <2>1. at[i] \in Writing /\ (Write(i) \/ UNCHANGED files)
    BY <1>4 DEF SaveId, SaveSession, SaveNet, SaveKeys, SaveTypes, In, Unwritable, Writing
  <2> QED BY <1>1, <2>1, WriteTyped
<1>5. CASE Invalidate(i)
  BY <1>1, <1>5, ValidTyped DEF Invalidate
<1> QED BY <1>2, <1>3, <1>4, <1>5 DEF CallStep

LEMMA OtherFiles ==
  ASSUME Typed,
         \/ \E i \in Instances : \/ Cancel(i) \/ EnterPassword(i)
                                 \/ \E offline \in BOOLEAN : Begin(i, offline)
         \/ DeletionEnds \/ Crash \/ Renew \/ Expires
  PROVE  files' \in Directory
<1>1. files \in Directory
  BY DEF Typed
<1>2. CASE \/ \E i \in Instances : \/ EnterPassword(i)
                                   \/ \E offline \in BOOLEAN : Begin(i, offline)
           \/ Renew
  BY <1>1, <1>2 DEF EnterPassword, Begin, Renew, diskVars
<1>3. CASE DeletionEnds
  BY <1>1, <1>3, ValidTyped DEF DeletionEnds
<1>4. ASSUME NEW i \in Instances, Cancel(i) PROVE files' \in Directory
  <2>1. \/ files' \in HalfValid(files) \/ files' = files
        \/ at[i] \in Writing /\ Write(i)
    BY <1>4 DEF Cancel
  <2> QED BY <1>1, <2>1, ValidTyped, WriteTyped
<1>5. CASE Crash
  <2>1. \/ files' = files \/ files' \in HalfValid(files)
        \/ \E s \in Writing : files' = [files EXCEPT !.data[FileOf[s]] = Torn]
    BY <1>5 DEF Crash
  <2> QED BY <1>1, <2>1, ValidTyped, TornTyped
<1>6. CASE Expires
  <2>1. files' = files \/ files' = [files EXCEPT !.data.types = "unknown"]
    BY <1>6 DEF Expires
  <2>2. [files.data EXCEPT !.types = "unknown"] \in Data
    BY <1>1, FilesHold DEF Data, Fixture
  <2>3. [files EXCEPT !.data.types = "unknown"] \in Directory
    BY <1>1, <2>2 DEF Directory
  <2> QED BY <1>1, <2>1, <2>3
<1> QED BY <1>2, <1>3, <1>4, <1>5, <1>6

-----------------------------------------------------------------------------
(* The rest of the types.                                                  *)

World ==
  /\ pw \in [Instances -> Nat] /\ server \in Net /\ granted \in Seq(Nat)
  /\ expired \subseteq 1..Len(granted)
Counted ==
  /\ {ready, deleter, purged} \subseteq BOOLEAN
  /\ failures \in [Instances -> Nat] /\ alone \in [Instances -> BOOLEAN]
  /\ calls \in 0..MaxCalls /\ events \in 0..MaxEvents

LEMMA TypedParts ==
  Typed <=> /\ mem \in [Instances -> Object] /\ files \in Directory
            /\ World /\ Counted
BY DEF Typed, World, Counted

LEMMA WorldNext ==
  ASSUME World, Next
  PROVE  World'
<1>1. ASSUME NEW i \in Instances, CallStep(i), ~Login(i) PROVE World'
  BY <1>1 DEF CallStep, SetUuid, Enter, LoadKeys, LoadSession, LoadTypes, Load, ReadId,
              GetId, SaveId, SaveSession, ReadNet, Put, Invalidate, SaveNet, SaveKeys,
              FetchUnitInfo, SaveTypes, serverVars, World
<1>2. ASSUME NEW i \in Instances, Login(i) PROVE World'
  <2>1. UNCHANGED <<pw, server, expired>>
    BY <1>2 DEF Login
  <2>2. granted' = granted \/ granted' = Append(granted, server.gen)
    BY <1>2 DEF Login
  <2>3. granted \in Seq(Nat) /\ server.gen \in Nat
    BY DEF World, Net
  <2>4. granted' \in Seq(Nat) /\ Len(granted') >= Len(granted)
    BY <2>2, <2>3
  <2>5. Len(granted) \in Nat /\ Len(granted') \in Nat
    BY <2>3, <2>4
  <2> QED BY <2>1, <2>4, <2>5 DEF World
<1>3. ASSUME NEW i \in Instances,
             \/ Cancel(i) \/ EnterPassword(i) \/ \E offline \in BOOLEAN : Begin(i, offline)
      PROVE  World'
  BY <1>3 DEF Cancel, Stops, EnterPassword, Begin, serverVars, World, Net
<1>4. CASE DeletionEnds \/ Crash
  BY <1>4 DEF DeletionEnds, Crash, Stops, serverVars, World
<1>5. CASE Renew
  BY <1>5 DEF Renew, World, Net
<1>6. CASE Expires
  <2>1. UNCHANGED <<pw, server, granted>>
    BY <1>6 DEF Expires
  <2>2. expired' \subseteq 1..Len(granted)
    BY <1>6 DEF Expires, World
  <2> QED BY <2>1, <2>2 DEF World
<1> QED BY <1>1, <1>2, <1>3, <1>4, <1>5, <1>6 DEF Next
\* What a step of call i does to the history of failures.
Records(i) ==
  /\ alone' = alone \/ alone' = [alone EXCEPT ![i] = FALSE]
     \/ alone' = [j \in Instances |-> FALSE]
  /\ failures' = failures \/ \E n \in {0, failures[i] + 1} : failures' = [failures EXCEPT ![i] = n]
  /\ events' \in {events, events + 1} /\ events' <= MaxEvents
  /\ UNCHANGED calls

LEMMA EndRecords ==
  ASSUME Counted, NEW i \in Instances, NEW how, UNCHANGED calls,
         \/ End(i, how) /\ UNCHANGED events
         \/ EndLocked(i, how) /\ UNCHANGED events
         \/ Breaks(i, how)
  PROVE  Records(i)
<1>1. events \in Nat /\ events <= MaxEvents /\ MaxEvents \in Nat
  BY BoundsAssumption DEF Counted
<1>2. CASE UNCHANGED events /\ End(i, how)
  BY <1>1, <1>2 DEF End, Records
<1>3. CASE Breaks(i, how)
  BY <1>1, <1>3 DEF Breaks, Records
<1> QED BY <1>2, <1>3 DEF EndLocked

LEMMA GoesRecords ==
  ASSUME Counted, NEW i \in Instances, UNCHANGED calls, (Goes /\ UNCHANGED events) \/ Event
  PROVE  Records(i)
<1>1. events \in Nat /\ events <= MaxEvents /\ MaxEvents \in Nat
  BY BoundsAssumption DEF Counted
<1> QED BY <1>1 DEF Goes, Event, Disturb, Records

LEMMA CallRecords ==
  ASSUME Counted, NEW i \in Instances, CallStep(i)
  PROVE  Records(i)
<1>1. UNCHANGED calls
  BY DEF CallStep, SetUuid, Enter, LoadKeys, LoadSession, LoadTypes, Load, ReadId, GetId,
         SaveId, Login, SaveSession, ReadNet, Put, Invalidate, SaveNet, SaveKeys,
         FetchUnitInfo, SaveTypes
<1>2. CASE SetUuid(i) \/ Enter(i)
  BY <1>1, <1>2, GoesRecords DEF SetUuid, Enter, callVars, Goes
<1>3. CASE LoadKeys(i) \/ LoadSession(i) \/ LoadTypes(i) \/ ReadId(i)
  <2>1. UNCHANGED events /\ (Goes \/ \E how : EndLocked(i, how))
    BY <1>3 DEF LoadKeys, LoadSession, LoadTypes, Load, ReadId
  <2> QED BY <1>1, <2>1, GoesRecords, EndRecords
<1>4. CASE SaveId(i) \/ SaveSession(i) \/ SaveNet(i) \/ SaveKeys(i) \/ SaveTypes(i)
  <2>1. UNCHANGED events /\ (Goes \/ \E how : EndLocked(i, how))
    BY <1>4 DEF SaveId, SaveSession, SaveNet, SaveKeys, SaveTypes, Unwritable
  <2> QED BY <1>1, <2>1, GoesRecords, EndRecords
<1>5. CASE ReadNet(i) \/ Invalidate(i)
  <2>1. UNCHANGED events /\ (Goes \/ \E how : EndLocked(i, how))
    BY <1>5 DEF ReadNet, Invalidate
  <2> QED BY <1>1, <2>1, GoesRecords, EndRecords
<1>6. CASE GetId(i) \/ Login(i) \/ Put(i) \/ FetchUnitInfo(i)
  <2>1. \/ NoEvent \/ Event
        \/ \E how : Breaks(i, how) \/ (End(i, how) /\ UNCHANGED events)
    <3>1. CASE GetId(i)
      BY <3>1 DEF GetId
    <3>2. CASE Login(i)
      BY <3>2 DEF Login
    <3>3. CASE Put(i)
      BY <3>3 DEF Put, Answers, PutFails
    <3>4. CASE FetchUnitInfo(i)
      BY <3>4 DEF FetchUnitInfo
    <3> QED BY <1>6, <3>1, <3>2, <3>3, <3>4
  <2> QED BY <1>1, <2>1, GoesRecords, EndRecords DEF NoEvent
<1> QED BY <1>2, <1>3, <1>4, <1>5, <1>6 DEF CallStep

\* A lock that is entered or held stays so, and is otherwise free for the next.
LEMMA CallFlags ==
  ASSUME Counted, NEW i \in Instances, CallStep(i)
  PROVE  {ready, deleter, purged}' \subseteq BOOLEAN
<1>1. ready \in BOOLEAN /\ deleter \in BOOLEAN /\ purged \in BOOLEAN
  BY DEF Counted
<1>2. UNCHANGED deleter
  BY DEF CallStep, SetUuid, Enter, LoadKeys, LoadSession, LoadTypes, Load, ReadId, GetId,
         SaveId, Login, SaveSession, ReadNet, Put, Invalidate, SaveNet, SaveKeys,
         FetchUnitInfo, SaveTypes, diskVars
<1>3. purged' \in BOOLEAN
  BY <1>1 DEF CallStep, SetUuid, Enter, LoadKeys, LoadSession, LoadTypes, Load, ReadId,
         GetId, SaveId, Login, SaveSession, ReadNet, Put, Invalidate, SaveNet, SaveKeys,
         FetchUnitInfo, SaveTypes
<1>4. ready' \in BOOLEAN
  <2>1. CASE SetUuid(i) \/ Enter(i)
    BY <2>1 DEF SetUuid, Relock, Enter
  <2>2. CASE LoadKeys(i) \/ LoadSession(i) \/ LoadTypes(i) \/ ReadId(i)
    BY <2>2 DEF LoadKeys, LoadSession, LoadTypes, Load, ReadId, EndLocked, Release, Relock,
                Unlocked
  <2>3. CASE SaveId(i) \/ SaveSession(i) \/ SaveTypes(i) \/ Invalidate(i)
    BY <2>3 DEF SaveId, SaveSession, SaveTypes, Invalidate, Unwritable, EndLocked, Release,
                Relock, Unlocked
  <2>4. CASE SaveNet(i) \/ SaveKeys(i) \/ ReadNet(i)
    BY <2>4 DEF SaveNet, SaveKeys, ReadNet, Unwritable, EndLocked, Release, Unlocked, GoesOn
  <2>5. CASE GetId(i) \/ Login(i) \/ Put(i) \/ FetchUnitInfo(i)
    <3>1. ready' = ready \/ \E m : GoesOn(i, m, lockQ)
      BY <2>5 DEF GetId, LogIn, Login, Put, Answers, PutFails, FetchUnitInfo, Breaks, Lock,
                  lockVars
    <3> QED BY <1>1, <3>1 DEF GoesOn
  <2> QED BY <2>1, <2>2, <2>3, <2>4, <2>5 DEF CallStep
<1> QED BY <1>1, <1>2, <1>3, <1>4

LEMMA CountedNext ==
  ASSUME Counted, Next
  PROVE  Counted'
<1>1. /\ ready \in BOOLEAN /\ deleter \in BOOLEAN /\ purged \in BOOLEAN
      /\ failures \in [Instances -> Nat] /\ alone \in [Instances -> BOOLEAN]
      /\ calls \in Nat /\ calls <= MaxCalls /\ events \in Nat /\ events <= MaxEvents
      /\ MaxCalls \in Nat /\ MaxEvents \in Nat
  BY BoundsAssumption DEF Counted
<1>2. ASSUME NEW i \in Instances, CallStep(i) PROVE Counted'
  <2>1. Records(i) /\ {ready, deleter, purged}' \subseteq BOOLEAN
    BY <1>2, CallRecords, CallFlags
  <2>2. failures[i] \in Nat
    BY <1>1
  <2>3. failures' \in [Instances -> Nat]
    BY <1>1, <2>1, <2>2 DEF Records
  <2>5. alone' \in [Instances -> BOOLEAN]
    BY <1>1, <2>1 DEF Records
  <2>4. calls' \in 0..MaxCalls /\ events' \in 0..MaxEvents
    BY <1>1, <2>1 DEF Records
  <2> QED BY <2>1, <2>3, <2>4, <2>5 DEF Counted
<1>3. ASSUME NEW i \in Instances, NEW offline \in BOOLEAN, Begin(i, offline)
      PROVE  Counted'
  <2>1. UNCHANGED <<ready, deleter, purged, failures, events>> /\ calls' = calls + 1
        /\ calls' <= MaxCalls
    BY <1>1, <1>3 DEF Begin, Lock, diskVars
  <2>2. alone' \in [Instances -> BOOLEAN]
    <3>1. \A j \in Instances :
            (j = i /\ Undisturbed /\ ~offline /\ pw[i] = server.gen) \in BOOLEAN
      OBVIOUS
    <3> QED BY <1>3, <3>1 DEF Begin
  <2> QED BY <1>1, <2>1, <2>2 DEF Counted
<1>4. ASSUME NEW I \in SUBSET Instances, Stops(I)
      PROVE  /\ failures' \in [Instances -> Nat] /\ alone' \in [Instances -> BOOLEAN]
             /\ calls' \in 0..MaxCalls /\ events' \in 0..MaxEvents /\ UNCHANGED purged
  BY <1>1, <1>4 DEF Stops
<1>5. ASSUME NEW i \in Instances, Cancel(i) PROVE Counted'
  <2>1. Stops({i}) /\ ready' \in BOOLEAN /\ deleter' \in BOOLEAN
    BY <1>1, <1>5 DEF Cancel
  <2> QED BY <1>1, <1>4, <2>1 DEF Counted
<1>6. CASE Crash
  <2>1. Stops(Instances) /\ ready' \in BOOLEAN /\ deleter' \in BOOLEAN
    BY <1>6 DEF Crash
  <2> QED BY <1>1, <1>4, <2>1 DEF Counted
<1>7. CASE DeletionEnds \/ \E i \in Instances : EnterPassword(i)
  BY <1>1, <1>7 DEF DeletionEnds, EnterPassword, callVars, lockVars, diskVars, Counted
<1>8. CASE Renew \/ Expires
  <2>1. /\ UNCHANGED <<ready, deleter, calls>> /\ Disturb
        /\ purged' = FALSE \/ purged' = purged
        /\ failures' = failures \/ failures' = [i \in Instances |-> 0]
    BY <1>8 DEF Renew, Expires, Event, lockVars, diskVars
  <2>2. failures' \in [Instances -> Nat]
    BY <1>1, <2>1
  <2>4. purged' \in BOOLEAN
    <3>1. purged' = FALSE \/ purged' = purged
      BY <2>1
    <3> QED BY <1>1, <3>1
  <2>3. alone' \in [Instances -> BOOLEAN] /\ events' \in 0..MaxEvents
    BY <1>1, <2>1 DEF Disturb
  <2> QED BY <1>1, <2>1, <2>2, <2>3, <2>4 DEF Counted
<1> QED BY <1>2, <1>3, <1>5, <1>6, <1>7, <1>8 DEF Next

LEMMA MemNext ==
  ASSUME Typed, Next
  PROVE  mem' \in [Instances -> Object]
<1>1. mem \in [Instances -> Object]
  BY DEF Typed
<1>2. ASSUME NEW i \in Instances, Sets(i) PROVE mem' \in [Instances -> Object]
  BY <1>1, <1>2 DEF Sets
<1>3. ASSUME NEW i \in Instances, CallStep(i) PROVE Sets(i)
  BY <1>3, SectionSets, RequestSets, UpdateSets DEF CallStep
<1>4. ASSUME NEW i \in Instances, NEW offline \in BOOLEAN, Begin(i, offline)
      PROVE  Sets(i)
  BY <1>4, NewTyped DEF Begin, Sets, Typed, Net
<1>5. ASSUME NEW I \in SUBSET Instances, Stops(I) PROVE mem' \in [Instances -> Object]
  BY <1>1, <1>5, NewTyped DEF Stops
<1>6. CASE Crash \/ \E i \in Instances : Cancel(i)
  BY <1>5, <1>6 DEF Crash, Cancel
<1>7. CASE DeletionEnds \/ Renew \/ \E i \in Instances : EnterPassword(i)
  BY <1>1, <1>7 DEF DeletionEnds, Renew, EnterPassword, callVars
<1>8. CASE Expires
  <2>1. \A i \in Instances : [mem[i] EXCEPT !.types = "unknown"] \in Object
    BY <1>1 DEF Object, Fixture
  <2> QED BY <1>1, <1>8, <2>1 DEF Expires
<1> QED BY <1>2, <1>3, <1>4, <1>6, <1>7, <1>8 DEF Next

LEMMA TypedInit == Init => Typed
<1> SUFFICES ASSUME Init PROVE Typed
  OBVIOUS
<1>1. files \in Directory
  BY DEF Init, Directory, Data, NoEntry
<1>2. mem \in [Instances -> Object]
  BY NewTyped DEF Init
<1>3. World
  BY DEF Init, World, Net
<1>4. Counted
  <2>1. /\ failures \in [Instances -> Nat] /\ alone \in [Instances -> BOOLEAN]
        /\ calls \in 0..MaxCalls /\ events \in 0..MaxEvents
    BY BoundsAssumption DEF Init
  <2>2. {ready, deleter, purged} \subseteq BOOLEAN
    BY DEF Init
  <2> QED BY <2>1, <2>2 DEF Counted
<1> QED BY <1>1, <1>2, <1>3, <1>4, TypedParts

LEMMA TypedNext == Typed /\ [Next]_vars => Typed'
<1> SUFFICES ASSUME Typed, [Next]_vars PROVE Typed'
  OBVIOUS
<1>1. CASE Next
  <2>1. files' \in Directory
    BY <1>1, CallFiles, OtherFiles DEF Next
  <2>2. mem' \in [Instances -> Object]
    BY <1>1, MemNext
  <2>3. World'
    BY <1>1, TypedParts, WorldNext
  <2>4. Counted'
    BY <1>1, TypedParts, CountedNext
  <2> QED BY <2>1, <2>2, <2>3, <2>4 DEF Typed, World, Counted
<1>2. CASE UNCHANGED vars
  BY <1>2 DEF vars, callVars, lockVars, diskVars, serverVars, Typed
<1> QED BY <1>1, <1>2

LEMMA TypesAre == CacheInv /\ Typed => TypeOK
BY DEF CacheInv, Typed, TypeOK, Object, Directory, Outside, Claimants

\* However calls fail, are cancelled or crash, every variable keeps its type: no
\* step writes into a file, or learns from one, what is not of its kind.
THEOREM CacheTyped == Spec => []TypeOK
BY CacheInit, CacheNext, TypedInit, TypedNext, TypesAre, PTL DEF Spec
-----------------------------------------------------------------------------
(* Failures heal.  A call that is alone meets no error but the refusal of  *)
(* an old session, and leaves no such session behind.                      *)

Current(s) == s = 0 \/ granted[s] = server.gen
Whole(f) == \A x \in DOMAIN f.data : f.data[x] # Torn

\* What a call that is alone can rely on.
Solo(i) ==
  alone[i] =>
    /\ at[i] # "idle" /\ ~mem[i].offline /\ pw[i] = server.gen
    /\ \A j \in Instances \ {i} : at[j] = "idle"
    /\ ~deleter /\ Whole(files)
    /\ ready /\ at[i] \in Reading \cup Writing => files.entry
    /\ at[i] = "saveSession" => Authenticated(i)
    /\ at[i] = "invalidate" => ~Known(i)

Idles == \A i \in Instances : at[i] = "idle" => mem[i] = NewNetwork(FALSE, 0)

Sessions ==
  /\ \A i \in Instances : mem[i].session <= Len(granted)
  /\ files.data.session \notin {None, Torn} => files.data.session <= Len(granted)

Online ==
  \A i \in Instances : at[i] \in {"net", "put", "invalidate"} /\ ~mem[i].offline =>
    mem[i].session # 0

\* After a failure nobody has a session of an old password, and no file.
Healed ==
  (\E k \in Instances : failures[k] # 0) =>
    /\ \A i \in Instances : Current(mem[i].session)
    /\ files.data.session \notin {None, Torn} => Current(files.data.session)

HealInv == Idles /\ (\A i \in Instances : Solo(i)) /\ Sessions /\ Online /\ Healed /\ RetryHeals

LEMMA NewSession ==
  ASSUME NEW offline, NEW rev
  PROVE  NewNetwork(offline, rev).session = 0 /\ NewNetwork(offline, rev).offline = offline
BY DEF NewNetwork

\* A written file is whole, and its entry is there.
LEMMA Written ==
  ASSUME Typed, NEW i \in Instances, at[i] \in Writing, Write(i)
  PROVE  /\ files'.entry = files.entry /\ files.entry
         /\ Whole(files) => Whole(files')
         /\ files'.data.session \in {files.data.session, mem[i].session}
<1>1. /\ files \in Directory /\ files.data \in Data /\ mem[i] \in Object
  BY FilesHold DEF Typed
<1> DEFINE x == FileOf[at[i]]
<1> DEFINE v == Contents(i)[x]
<1>2. x \in {"id", "session", "net", "keys", "types"}
  BY DEF FileOf, Writing
<1>3. files.entry /\ files' = [files EXCEPT !.data[x] = v]
  BY DEF Write
<1>4. v # Torn
  <2>1. v \in Nat \cup Seq(Key) \cup Fixture \cup Net
    BY <1>1, <1>2 DEF Contents, Object
  <2> QED BY <2>1, FilesAssumption
<1>5. x = "session" => v = mem[i].session
  BY DEF Contents
<1> HIDE DEF x, v
<1>6. /\ DOMAIN files = {"ver", "entry", "data"}
      /\ DOMAIN files.data = {"id", "session", "net", "keys", "types"}
  BY <1>1 DEF Directory, Data
<1>7. /\ files'.entry = files.entry /\ files'.data = [files.data EXCEPT ![x] = v]
  BY <1>3, <1>6
<1>8. Whole(files) => Whole(files')
  BY <1>2, <1>4, <1>6, <1>7 DEF Whole
<1>9. files'.data.session \in {files.data.session, mem[i].session}
  BY <1>2, <1>5, <1>6, <1>7
<1> QED BY <1>3, <1>7, <1>8, <1>9

\* The lock is free while nobody is in a critical section.
LEMMA NotReady ==
  ASSUME CacheInv, NEW i \in Instances, at[i] \notin Locked,
         \A j \in Instances \ {i} : at[j] = "idle"
  PROVE  ~ready
<1>1. SUFFICES ASSUME ready PROVE FALSE
  BY Zenon
<1>2. lockQ # <<>> /\ Head(lockQ) \in Instances /\ lockQ \in Seq(Claimants)
  BY <1>1 DEF CacheInv, CacheExclusive
<1>3. InQ(lockQ, Head(lockQ))
  BY <1>2, TailQueue
<1>4. at[Head(lockQ)] \in Locked
  BY <1>2, <1>3 DEF CacheInv, CacheExclusive
<1> QED BY <1>2, <1>4, PointsAre

Steady == UNCHANGED <<pw, server, granted, expired, deleter>>

\* A call that goes on.
LEMMA GoesHeal ==
  ASSUME CacheInv, Typed, HealInv, NEW i \in Instances, at[i] # "idle",
         NEW s, NEW m \in Object,
         at' = [at EXCEPT ![i] = s], s \notin {"idle", "saveSession"},
         mem' = [mem EXCEPT ![i] = m], Steady, UNCHANGED failures,
         \A j \in Instances : alone'[j] => alone[j],
         \/ m.session = mem[i].session
         \/ m.session = files.data.session /\ m.session \notin {None, Torn},
         alone'[i] => /\ m.offline = mem[i].offline
                      /\ s = "invalidate" => granted[m.session] # server.gen,
         ~m.offline /\ s \in {"net", "put", "invalidate"} => m.session # 0,
         UNCHANGED files \/ (at[i] \in Writing /\ Write(i)),
         ready' => ready /\ at[i] \notin Locked
  PROVE  HealInv'
<1>1. /\ DOMAIN at = Instances /\ DOMAIN mem = Instances
      /\ at'[i] = s /\ mem'[i] = m
      /\ \A j \in Instances \ {i} : at'[j] = at[j] /\ mem'[j] = mem[j]
  BY DEF CacheInv, Typed
<1>2. /\ files'.entry = files.entry
      /\ Whole(files) => Whole(files')
      /\ files'.data.session \in {files.data.session, mem[i].session}
  BY Written
<1>3. Idles'
  BY <1>1 DEF HealInv, Idles
<1>4. Sessions'
  BY <1>1, <1>2 DEF HealInv, Sessions, Steady
<1>5. Online'
  BY <1>1 DEF HealInv, Online
<1>6. Healed' /\ RetryHeals'
  <2>1. RetryHeals'
    BY DEF HealInv, RetryHeals
  <2>2. ASSUME \E k \in Instances : failures'[k] # 0 PROVE Healed'
    <3>1. /\ \A j \in Instances : Current(mem[j].session)
          /\ files.data.session \notin {None, Torn} => Current(files.data.session)
      BY <2>2 DEF HealInv, Healed
    <3>2. \A v : Current(v)' <=> Current(v)
      BY DEF Current, Steady
    <3>3. \A j \in Instances : Current(mem'[j].session)
      BY <1>1, <3>1
    <3>4. files'.data.session \notin {None, Torn} => Current(files'.data.session)
      BY <1>2, <3>1
    <3> QED BY <3>2, <3>3, <3>4 DEF Healed, Current, Steady
  <2>3. ASSUME ~\E k \in Instances : failures'[k] # 0 PROVE Healed'
    BY <2>3 DEF Healed
  <2> QED BY <2>1, <2>2, <2>3
<1>7. ASSUME NEW k \in Instances PROVE Solo(k)'
  <2>1. SUFFICES ASSUME alone'[k] PROVE Solo(k)'
    BY DEF Solo
  <2>2. alone[k] /\ Solo(k)
    BY <2>1 DEF HealInv
  <2>3. k = i
    BY <2>2 DEF Solo
  <2>4. /\ at[i] # "idle" /\ ~mem[i].offline /\ pw[i] = server.gen
        /\ \A j \in Instances \ {i} : at[j] = "idle"
        /\ ~deleter /\ Whole(files)
    BY <2>2, <2>3 DEF Solo
  <2>5. ~ready'
    BY <2>4, NotReady
  <2>6. s = "invalidate" => ~Known(i)'
    BY <1>1, <2>1, <2>3 DEF Known, Steady
  <2> QED BY <1>1, <1>2, <2>1, <2>3, <2>4, <2>5, <2>6 DEF Solo, Steady
<1> QED BY <1>3, <1>4, <1>5, <1>6, <1>7 DEF HealInv

\* A call that ends, without failing all the same.
LEMMA EndHeal ==
  ASSUME CacheInv, Typed, HealInv, NEW i \in Instances, at[i] # "idle",
         at' = [at EXCEPT ![i] = "idle"],
         mem' = [mem EXCEPT ![i] = NewNetwork(FALSE, 0)], Steady,
         failures' = [failures EXCEPT ![i] = 0], ~alone'[i],
         \A j \in Instances : alone'[j] => alone[j],
         UNCHANGED files \/ (at[i] \in Writing /\ Write(i))
  PROVE  HealInv'
<1>1. /\ DOMAIN at = Instances /\ DOMAIN mem = Instances
      /\ at'[i] = "idle" /\ mem'[i] = NewNetwork(FALSE, 0) /\ mem'[i].session = 0
      /\ \A j \in Instances \ {i} : at'[j] = at[j] /\ mem'[j] = mem[j]
  BY NewSession DEF CacheInv, Typed
<1>2. files'.data.session \in {files.data.session, mem[i].session}
  BY Written
<1>3. Idles'
  BY <1>1 DEF HealInv, Idles
<1>4. Sessions'
  <2>1. Len(granted) \in Nat
    BY DEF Typed
  <2>2. 0 <= Len(granted)
    BY <2>1
  <2>3. \A j \in Instances : mem'[j].session <= Len(granted)
    BY <1>1, <2>2 DEF HealInv, Sessions
  <2>4. files'.data.session \notin {None, Torn} => files'.data.session <= Len(granted)
    BY <1>2, <1>1 DEF HealInv, Sessions
  <2> QED BY <2>3, <2>4 DEF Sessions, Steady
<1>5. Online'
  BY <1>1 DEF HealInv, Online
<1>6. /\ \A k \in Instances : failures'[k] # 0 => failures'[k] = failures[k]
      /\ \A k \in Instances : failures'[k] <= 1
  BY DEF HealInv, RetryHeals, Typed
<1>7. Healed'
  <2>1. SUFFICES ASSUME \E k \in Instances : failures'[k] # 0 PROVE Healed'
    BY DEF Healed
  <2>2. /\ \A j \in Instances : Current(mem[j].session)
        /\ files.data.session \notin {None, Torn} => Current(files.data.session)
    BY <1>6, <2>1 DEF HealInv, Healed
  <2>3. \A j \in Instances : Current(mem'[j].session)
    BY <1>1, <2>2 DEF Current
  <2>4. files'.data.session \notin {None, Torn} => Current(files'.data.session)
    BY <1>2, <2>2
  <2> QED BY <2>3, <2>4 DEF Healed, Current, Steady
<1>8. ASSUME NEW k \in Instances PROVE Solo(k)'
  <2>1. alone'[k] => k # i /\ Solo(k) /\ alone[k]
    BY DEF HealInv
  <2> QED BY <2>1 DEF Solo
<1> QED BY <1>3, <1>4, <1>5, <1>6, <1>7, <1>8 DEF HealInv, RetryHeals
-----------------------------------------------------------------------------
(* Each action goes on or ends in one of these ways.                       *)

\* The object keeps its session and whether it is offline.
Calm(i) == \E m \in Object : /\ mem' = [mem EXCEPT ![i] = m]
                             /\ m.session = mem[i].session /\ m.offline = mem[i].offline

LEMMA SameCalm ==
  ASSUME mem \in [Instances -> Object], NEW i \in Instances, UNCHANGED mem
  PROVE  Calm(i)
<1>1. mem[i] \in Object /\ mem' = [mem EXCEPT ![i] = mem[i]]
  OBVIOUS
<1> QED BY <1>1 DEF Calm

LEMMA LearnsCalm ==
  ASSUME mem \in [Instances -> Object], NEW i \in Instances, NEW f, NEW v, Learns(i, f, v),
         \/ f = "id" /\ v \in BOOLEAN
         \/ f = "keys" /\ v \in Seq(Key)
         \/ f = "types" /\ v \in Fixture
         \/ f = "net" /\ v \in Net
  PROVE  Calm(i)
<1> DEFINE m == [mem[i] EXCEPT ![f] = v]
<1>1. mem[i] \in Object
  OBVIOUS
<1>2. mem' = [mem EXCEPT ![i] = m]
  BY DEF Learns
<1>3. m \in Object /\ m.session = mem[i].session /\ m.offline = mem[i].offline
  BY <1>1 DEF Object
<1> HIDE DEF m
<1> QED BY <1>2, <1>3 DEF Calm

LEMMA ParsedCalm ==
  ASSUME NEW m \in Object, NEW net, NEW told
  PROVE  Parsed(m, net, told).session = m.session /\ Parsed(m, net, told).offline = m.offline
BY DEF Parsed, Object

LEMMA GoesOnCalm ==
  ASSUME NEW i \in Instances, NEW m \in Object, NEW q, GoesOn(i, m, q),
         m.session = mem[i].session, m.offline = mem[i].offline
  PROVE  Calm(i) /\ \E s \in {"saveKeys", "saveTypes", "fixture"} : Goto(i, s)
<1> DEFINE n == [m EXCEPT !.keys = Append(@, Head(m.todo)), !.todo = Tail(@)]
<1>1. m.todo # <<>> => n \in Object
  BY SavedTyped
<1>2. n.session = m.session /\ n.offline = m.offline
  BY DEF Object
<1>3. \/ mem' = [mem EXCEPT ![i] = m]
      \/ m.todo # <<>> /\ mem' = [mem EXCEPT ![i] = n]
  BY DEF GoesOn
<1>4. \E s \in {"saveKeys", "saveTypes", "fixture"} : Goto(i, s)
  BY DEF GoesOn
<1> HIDE DEF n
<1> QED BY <1>1, <1>2, <1>3, <1>4 DEF Calm

LEMMA ParsedGoesOnCalm ==
  ASSUME NEW i \in Instances, mem[i] \in Object, NEW net, NEW told, NEW q,
         Parsed(mem[i], net, told) \in Object,
         GoesOn(i, Parsed(mem[i], net, told), q)
  PROVE  Calm(i) /\ \E s \in {"saveKeys", "saveTypes", "fixture"} : Goto(i, s)
<1> DEFINE m == Parsed(mem[i], net, told)
<1>1. m.session = mem[i].session /\ m.offline = mem[i].offline
  BY ParsedCalm
<1>2. m \in Object /\ GoesOn(i, m, q)
  OBVIOUS
<1> HIDE DEF m
<1> QED BY <1>1, <1>2, GoesOnCalm

LEMMA CalmHeal ==
  ASSUME CacheInv, Typed, HealInv, NEW i \in Instances, at[i] # "idle",
         NEW s, Goto(i, s), s \notin {"idle", "saveSession"}, Calm(i), Steady,
         Goes \/ Event,
         s = "invalidate" => granted[mem[i].session] # server.gen,
         ~mem[i].offline /\ s \in {"net", "put", "invalidate"} => mem[i].session # 0,
         UNCHANGED files \/ (at[i] \in Writing /\ Write(i)),
         ready' => ready /\ at[i] \notin Locked
  PROVE  HealInv'
<1>1. PICK m \in Object : /\ mem' = [mem EXCEPT ![i] = m]
                          /\ m.session = mem[i].session /\ m.offline = mem[i].offline
  BY DEF Calm
<1>2. /\ at' = [at EXCEPT ![i] = s] /\ UNCHANGED failures
      /\ \A j \in Instances : alone'[j] => alone[j]
  BY DEF Goto, Goes, Event, Disturb
<1> QED BY <1>1, <1>2, GoesHeal

LEMMA EndsHeal ==
  ASSUME CacheInv, Typed, HealInv, NEW i \in Instances, at[i] # "idle", NEW how,
         \/ End(i, how) /\ (alone[i] => how = "done")
         \/ Breaks(i, how),
         Steady, UNCHANGED files \/ (at[i] \in Writing /\ Write(i))
  PROVE  HealInv'
<1>1. /\ at' = [at EXCEPT ![i] = "idle"]
      /\ mem' = [mem EXCEPT ![i] = NewNetwork(FALSE, 0)]
  BY DEF End, Breaks, Goto
<1>2. alone \in [Instances -> BOOLEAN]
  BY DEF Typed
<1>3. /\ failures' = [failures EXCEPT ![i] = 0]
      /\ ~alone'[i] /\ \A j \in Instances : alone'[j] => alone[j]
  BY <1>2 DEF End, Breaks
<1> QED BY <1>1, <1>3, EndHeal

-----------------------------------------------------------------------------
LEMMA LoadHeal ==
  ASSUME CacheInv, Typed, HealInv, NEW i \in Instances,
         LoadKeys(i) \/ LoadSession(i) \/ LoadTypes(i)
  PROVE  HealInv'
<1>1. /\ mem \in [Instances -> Object] /\ files \in Directory
      /\ DOMAIN files.data = {"id", "session", "net", "keys", "types"}
  BY DEF Typed, Directory, Data
<1>2. Steady /\ UNCHANGED files
  BY DEF LoadKeys, LoadSession, LoadTypes, Load, diskVars, serverVars, Steady
<1>3. ~ready' /\ at[i] \in {"keys", "session", "types"}
  BY SectionSteps DEF SectionStep, LoadKeys, LoadSession, LoadTypes, Load, In
<1>4. ASSUME NEW s, NEW field \in DOMAIN files.data, NEW next, Load(i, s, field, next)
      PROVE  \/ \E how : End(i, how) /\ ~alone[i]
             \/ Goto(i, next) /\ Goes /\ UNCHANGED mem
             \/ /\ Goto(i, next) /\ Goes /\ Learns(i, field, files.data[field])
                /\ files.data[field] \notin {None, Torn}
  <2>1. files.data[field] = Torn => ~alone[i]
    BY DEF HealInv, Solo, Whole
  <2> QED BY <1>4, <2>1 DEF Load, EndLocked, Relock
<1>5. CASE LoadKeys(i)
  <2>1. \/ \E how : End(i, how) /\ ~alone[i]
        \/ Goto(i, "session") /\ Goes /\ Calm(i)
    <3>1. CASE Goto(i, "session") /\ Goes /\ UNCHANGED mem
      BY <1>1, <3>1, SameCalm
    <3>2. CASE /\ Goto(i, "session") /\ Goes /\ Learns(i, "keys", files.data["keys"])
               /\ files.data["keys"] \notin {None, Torn}
      BY <1>1, <3>2, FilesHold, LearnsCalm
    <3>3. "keys" \in DOMAIN files.data
      BY <1>1
    <3> QED BY <1>4, <1>5, <3>1, <3>2, <3>3 DEF LoadKeys
  <2> QED BY <1>2, <1>3, <2>1, EndsHeal, CalmHeal
<1>6. CASE LoadTypes(i)
  <2>1. \/ \E how : End(i, how) /\ ~alone[i]
        \/ Goto(i, "netid") /\ Goes /\ Calm(i)
    <3>1. CASE Goto(i, "netid") /\ Goes /\ UNCHANGED mem
      BY <1>1, <3>1, SameCalm
    <3>2. CASE /\ Goto(i, "netid") /\ Goes /\ Learns(i, "types", files.data["types"])
               /\ files.data["types"] \notin {None, Torn}
      BY <1>1, <3>2, FilesHold, LearnsCalm
    <3>3. "types" \in DOMAIN files.data
      BY <1>1
    <3> QED BY <1>4, <1>6, <3>1, <3>2, <3>3 DEF LoadTypes
  <2> QED BY <1>2, <1>3, <2>1, EndsHeal, CalmHeal
<1>7. CASE LoadSession(i)
  <2>1. CASE Goto(i, "types") /\ Goes /\ UNCHANGED mem
    BY <1>1, <1>2, <1>3, <2>1, SameCalm, CalmHeal
  <2>2. CASE /\ Goto(i, "types") /\ Goes /\ Learns(i, "session", files.data["session"])
             /\ files.data["session"] \notin {None, Torn}
    <3> DEFINE m == [mem[i] EXCEPT !.session = files.data.session]
    <3>1. files.data.session \in Nat /\ mem[i] \in Object
      BY <1>1, <2>2, FilesHold
    <3>2. /\ m \in Object /\ m.session = files.data.session /\ m.offline = mem[i].offline
      BY <3>1 DEF Object
    <3>3. mem' = [mem EXCEPT ![i] = m] /\ at' = [at EXCEPT ![i] = "types"]
      BY <2>2 DEF Learns, Goto
    <3> HIDE DEF m
    <3>4. UNCHANGED failures /\ alone' = alone
      BY <2>2 DEF Goes
    <3>5. m.session \notin {None, Torn}
      BY <2>2, <3>2
    <3> QED BY <1>2, <1>3, <3>2, <3>3, <3>4, <3>5, GoesHeal
  <2>3. CASE \E how : End(i, how) /\ ~alone[i]
    BY <1>2, <1>3, <2>3, EndsHeal
  <2>4. "session" \in DOMAIN files.data
    BY <1>1
  <2> QED BY <1>4, <1>7, <2>1, <2>2, <2>3, <2>4 DEF LoadSession
<1> QED BY <1>5, <1>6, <1>7
LEMMA SaveHeal ==
  ASSUME CacheInv, Typed, HealInv, NEW i \in Instances,
         SaveId(i) \/ SaveSession(i) \/ SaveNet(i) \/ SaveKeys(i) \/ SaveTypes(i)
  PROVE  HealInv'
<1>1. mem \in [Instances -> Object] /\ mem[i] \in Object
  BY DEF Typed
<1>2. Steady
  BY DEF SaveId, SaveSession, SaveNet, SaveKeys, SaveTypes, serverVars, Steady
<1>3. ~ready' /\ at[i] # "idle" /\ at[i] \in Writing /\ ready
  BY SectionSteps DEF SectionStep, SaveId, SaveSession, SaveNet, SaveKeys, SaveTypes, In, Writing
<1>4. ASSUME Unwritable(i) PROVE HealInv'
  <2>1. ~alone[i]
    BY <1>3, <1>4 DEF Unwritable, HealInv, Solo
  <2> QED BY <1>2, <1>3, <1>4, <2>1, EndsHeal DEF Unwritable, EndLocked
<1>5. CASE SaveId(i) /\ ~Unwritable(i)
  <2>1. /\ Write(i) /\ Learns(i, "id", TRUE) /\ Goes
        /\ \/ Authenticated(i) /\ Goto(i, "net")
           \/ Goto(i, "login")
    BY <1>5 DEF SaveId, Relock, Unlocked
  <2>2. Calm(i)
    BY <1>1, <2>1, LearnsCalm
  <2>3. Authenticated(i) => mem[i].session # 0
    BY DEF Authenticated
  <2> QED BY <1>2, <1>3, <2>1, <2>2, <2>3, CalmHeal
<1>6. CASE SaveSession(i) /\ ~Unwritable(i)
  <2>1. /\ Write(i) /\ at[i] = "saveSession"
        /\ \/ Authenticated(i) /\ Goto(i, "net") /\ Goes /\ UNCHANGED mem
           \/ ~Authenticated(i) /\ End(i, "auth")
    BY <1>6 DEF SaveSession, In, Relock, EndLocked
  <2>2. CASE Authenticated(i) /\ Goto(i, "net") /\ Goes /\ UNCHANGED mem
    <3>1. Calm(i) /\ mem[i].session # 0
      BY <1>1, <2>2, SameCalm DEF Authenticated
    <3> QED BY <1>2, <1>3, <2>1, <2>2, <3>1, CalmHeal
  <2>3. CASE ~Authenticated(i) /\ End(i, "auth")
    <3>1. ~alone[i]
      BY <2>1, <2>3 DEF HealInv, Solo
    <3> QED BY <1>2, <1>3, <2>1, <2>3, <3>1, EndsHeal
  <2> QED BY <2>1, <2>2, <2>3
<1>7. CASE (SaveNet(i) \/ SaveKeys(i)) /\ ~Unwritable(i)
  <2>1. Write(i) /\ GoesOn(i, mem[i], Tail(lockQ)) /\ Goes
    BY <1>7 DEF SaveNet, SaveKeys
  <2>2. PICK s \in {"saveKeys", "saveTypes", "fixture"} : Goto(i, s)
    BY <1>1, <2>1, GoesOnCalm
  <2>3. Calm(i)
    BY <1>1, <2>1, GoesOnCalm
  <2> QED BY <1>2, <1>3, <2>1, <2>2, <2>3, CalmHeal
<1>8. CASE SaveTypes(i) /\ ~Unwritable(i)
  <2>1. Write(i) /\ End(i, "done")
    BY <1>8 DEF SaveTypes, EndLocked
  <2> QED BY <1>2, <1>3, <2>1, EndsHeal
<1> QED BY <1>4, <1>5, <1>6, <1>7, <1>8

LEMMA ReadHeal ==
  ASSUME CacheInv, Typed, HealInv, NEW i \in Instances, SetUuid(i) \/ ReadId(i) \/ ReadNet(i)
  PROVE  HealInv'
<1>1. /\ mem \in [Instances -> Object] /\ mem[i] \in Object /\ files \in Directory
      /\ DOMAIN files.data = {"id", "session", "net", "keys", "types"}
  BY DEF Typed, Directory, Data
<1>2. Steady /\ UNCHANGED files
  BY DEF SetUuid, ReadId, ReadNet, diskVars, serverVars, Steady
<1>3. ~ready' /\ at[i] # "idle"
  BY SectionSteps DEF SectionStep, SetUuid, ReadId, ReadNet, In
<1>4. alone[i] => ~mem[i].offline /\ files.data.net # Torn
  BY <1>1 DEF HealInv, Solo, Whole
<1>5. CASE SetUuid(i)
  <2>1. Goto(i, "keys") /\ Goes /\ Calm(i)
    BY <1>1, <1>5, SameCalm DEF SetUuid, Relock
  <2> QED BY <1>2, <1>3, <2>1, CalmHeal
<1>6. CASE ReadId(i)
  <2>1. \/ mem[i].offline /\ End(i, "needOnline")
        \/ mem[i].offline /\ Goto(i, "net") /\ Goes /\ Learns(i, "id", TRUE)
        \/ Goto(i, "getId") /\ Goes /\ \E v \in BOOLEAN : Learns(i, "id", v)
    BY <1>6 DEF ReadId, EndLocked, Relock, Unlocked
  <2>2. (\E v \in BOOLEAN : Learns(i, "id", v)) => Calm(i)
    BY <1>1, LearnsCalm
  <2>3. CASE mem[i].offline /\ End(i, "needOnline")
    BY <1>2, <1>3, <1>4, <2>3, EndsHeal
  <2>4. CASE mem[i].offline /\ Goto(i, "net") /\ Goes /\ Learns(i, "id", TRUE)
    BY <1>2, <1>3, <2>2, <2>4, CalmHeal
  <2>5. CASE Goto(i, "getId") /\ Goes /\ \E v \in BOOLEAN : Learns(i, "id", v)
    BY <1>2, <1>3, <2>2, <2>5, CalmHeal
  <2> QED BY <2>1, <2>3, <2>4, <2>5
<1>7. CASE ReadNet(i)
  <2> DEFINE v == files.data.net
  <2>1. at[i] = "net" /\ (~mem[i].offline => mem[i].session # 0)
    BY <1>7 DEF ReadNet, In, HealInv, Online
  <2>2. \/ v = Torn /\ End(i, "corrupt")
        \/ mem[i].offline /\ End(i, "needOnline")
        \/ Goto(i, "put") /\ Goes /\ UNCHANGED mem
        \/ v \notin {Torn, None} /\ Goes /\ GoesOn(i, Parsed(mem[i], v, FALSE), Tail(lockQ))
        \/ v \notin {Torn, None} /\ Goes /\ Goto(i, "put") /\ Learns(i, "net", v)
    BY <1>7 DEF ReadNet, EndLocked, Unlocked
  <2>3. v \notin {Torn, None} => v \in Net /\ Parsed(mem[i], v, FALSE) \in Object
    BY <1>1, FilesHold, ParsedTyped
  <2> HIDE DEF v
  <2>4. CASE v = Torn /\ End(i, "corrupt")
    BY <1>2, <1>3, <1>4, <2>4, EndsHeal DEF v
  <2>5. CASE mem[i].offline /\ End(i, "needOnline")
    BY <1>2, <1>3, <1>4, <2>5, EndsHeal
  <2>6. CASE Goto(i, "put") /\ Goes /\ UNCHANGED mem
    BY <1>1, <1>2, <1>3, <2>1, <2>6, SameCalm, CalmHeal
  <2>7. CASE v \notin {Torn, None} /\ Goes /\ GoesOn(i, Parsed(mem[i], v, FALSE), Tail(lockQ))
    <3>1. Calm(i) /\ \E s \in {"saveKeys", "saveTypes", "fixture"} : Goto(i, s)
      BY <1>1, <2>3, <2>7, ParsedGoesOnCalm
    <3> QED BY <1>2, <1>3, <2>7, <3>1, CalmHeal
  <2>8. CASE v \notin {Torn, None} /\ Goes /\ Goto(i, "put") /\ Learns(i, "net", v)
    BY <1>1, <1>2, <1>3, <2>1, <2>3, <2>8, LearnsCalm, CalmHeal
  <2> QED BY <2>2, <2>4, <2>5, <2>6, <2>7, <2>8
<1> QED BY <1>5, <1>6, <1>7

LEMMA RequestHeal ==
  ASSUME CacheInv, Typed, HealInv, NEW i \in Instances, GetId(i) \/ Put(i) \/ FetchUnitInfo(i)
  PROVE  HealInv'
<1>1. mem \in [Instances -> Object] /\ mem[i] \in Object /\ server \in Net
  BY DEF Typed
<1>2. Steady /\ UNCHANGED files
  BY DEF GetId, Put, FetchUnitInfo, diskVars, serverVars, Steady
<1>3. (ready' => ready) /\ at[i] \in {"getId", "put", "fixture"} /\ at[i] \notin Locked
  <2>1. at[i] \in {"getId", "put", "fixture"}
    BY DEF GetId, Put, FetchUnitInfo
  <2> QED BY <2>1, RequestSteps, PointsAre DEF RequestStep
<1>4. CASE \E how : Breaks(i, how)
  BY <1>2, <1>3, <1>4, EndsHeal
<1>5. CASE GetId(i) /\ ~\E how : Breaks(i, how)
  <2>1. /\ UNCHANGED mem /\ (Goes \/ Event)
        /\ \/ mem[i].session # 0 /\ Goto(i, "net")
           \/ Goto(i, "login")
           \/ Goto(i, "saveId")
    BY <1>5 DEF GetId, LogIn, Lock, NoEvent, Authenticated
  <2> QED BY <1>1, <1>2, <1>3, <2>1, SameCalm, CalmHeal
<1>6. CASE Put(i) /\ ~\E how : Breaks(i, how)
  <2>1. at[i] = "put" /\ (~mem[i].offline => mem[i].session # 0)
    BY <1>6 DEF Put, HealInv, Online
  <2>2. /\ Goes \/ Event
        /\ \/ granted[mem[i].session] # server.gen /\ Goto(i, "invalidate") /\ UNCHANGED mem
           \/ \E told \in BOOLEAN : GoesOn(i, Parsed(mem[i], mem[i].net, told), lockQ)
           \/ Goto(i, "saveNet") /\ mem' = [mem EXCEPT ![i] = Parsed(mem[i], server, TRUE)]
    BY <1>6 DEF Put, Answers, PutFails, Known, Lock, NoEvent
  <2>3. /\ Parsed(mem[i], server, TRUE) \in Object
        /\ \A told \in BOOLEAN : Parsed(mem[i], mem[i].net, told) \in Object
    BY <1>1, ParsedTyped DEF Object
  <2>4. CASE granted[mem[i].session] # server.gen /\ Goto(i, "invalidate") /\ UNCHANGED mem
    BY <1>1, <1>2, <1>3, <2>1, <2>2, <2>4, SameCalm, CalmHeal
  <2>5. CASE \E told \in BOOLEAN : GoesOn(i, Parsed(mem[i], mem[i].net, told), lockQ)
    <3>1. Calm(i) /\ \E s \in {"saveKeys", "saveTypes", "fixture"} : Goto(i, s)
      BY <1>1, <2>3, <2>5, ParsedGoesOnCalm
    <3> QED BY <1>2, <1>3, <2>2, <3>1, CalmHeal
  <2>6. CASE Goto(i, "saveNet") /\ mem' = [mem EXCEPT ![i] = Parsed(mem[i], server, TRUE)]
    <3> DEFINE m == Parsed(mem[i], server, TRUE)
    <3>3. m \in Object /\ mem' = [mem EXCEPT ![i] = m]
      BY <2>3, <2>6
    <3>2. m.session = mem[i].session /\ m.offline = mem[i].offline
      BY <1>1, ParsedCalm
    <3> HIDE DEF m
    <3>1. Calm(i)
      BY <3>2, <3>3 DEF Calm
    <3> QED BY <1>2, <1>3, <2>2, <2>6, <3>1, CalmHeal
  <2> QED BY <2>2, <2>4, <2>5, <2>6
<1>7. CASE FetchUnitInfo(i) /\ ~\E how : Breaks(i, how)
  <2>1. /\ Goto(i, "saveTypes") /\ (Goes \/ Event)
        /\ \E v \in {"fetched", "refused"} : Learns(i, "types", v)
    BY <1>7 DEF FetchUnitInfo, Lock, NoEvent
  <2>2. Calm(i)
    BY <1>1, <2>1, LearnsCalm DEF Fixture
  <2> QED BY <1>2, <1>3, <2>1, <2>2, CalmHeal
<1> QED BY <1>4, <1>5, <1>6, <1>7
\* A new session is of the password the server has now, and has not expired.
LEMMA LoginHeal ==
  ASSUME CacheInv, Typed, HealInv, NEW i \in Instances, Login(i)
  PROVE  HealInv'
<1>1. /\ mem \in [Instances -> Object] /\ mem[i] \in Object /\ at[i] = "login"
      /\ DOMAIN at = Instances /\ "login" \notin Locked
  BY PointsAre DEF Typed, Login, CacheInv, Locked, Reading, Writing
<1>2. /\ UNCHANGED <<pw, server, expired, deleter, files>> /\ (ready' => ready)
  BY RequestSteps DEF Login, diskVars, RequestStep
<1>3. CASE pw[i] # server.gen /\ End(i, "auth") /\ UNCHANGED granted
  <2>1. ~alone[i]
    BY <1>3 DEF HealInv, Solo
  <2> QED BY <1>1, <1>2, <1>3, <2>1, EndsHeal DEF Steady
<1>4. CASE Breaks(i, "auth") /\ UNCHANGED granted
  BY <1>1, <1>2, <1>4, EndsHeal DEF Steady
<1>5. CASE Event /\ Learns(i, "offline", TRUE) /\ Goto(i, "net") /\ UNCHANGED granted
  <2> DEFINE m == [mem[i] EXCEPT !.offline = TRUE]
  <2>1. m \in Object /\ m.session = mem[i].session /\ m.offline = TRUE
    BY <1>1 DEF Object
  <2>2. mem' = [mem EXCEPT ![i] = m] /\ at' = [at EXCEPT ![i] = "net"] /\ UNCHANGED failures
    BY <1>5 DEF Learns, Goto, Event
  <2>3. \A j \in Instances : ~alone'[j]
    BY <1>5 DEF Event, Disturb
  <2> HIDE DEF m
  <2>4. Steady
    BY <1>2, <1>5 DEF Steady
  <2>5. at[i] # "idle" /\ UNCHANGED files /\ (ready' => ready /\ at[i] \notin Locked)
    BY <1>1, <1>2
  <2>6. "net" \notin {"idle", "saveSession"} /\ m.session = mem[i].session
    BY <2>1
  <2>7. ~m.offline /\ "net" \in {"net", "put", "invalidate"} => m.session # 0
    BY <2>1
  <2> QED BY <2>1, <2>2, <2>3, <2>4, <2>5, <2>6, <2>7, GoesHeal
<1>6. CASE /\ granted' = Append(granted, server.gen) /\ Goto(i, "saveSession") /\ Goes
           /\ Learns(i, "session", Len(granted) + 1)
  <2> DEFINE n == Len(granted) + 1
  <2>1. /\ granted \in Seq(Nat) /\ server.gen \in Nat /\ n \in Nat \ {0}
        /\ expired \subseteq 1..Len(granted)
    BY DEF Typed, Net
  <2>2. /\ Len(granted') = n /\ granted'[n] = server.gen
        /\ \A k \in 1..Len(granted) : granted'[k] = granted[k]
    BY <1>6, <2>1
  <2>3. n \notin expired
    BY <2>1
  <2>4. /\ mem'[i].session = n /\ mem'[i].offline = mem[i].offline
        /\ \A j \in Instances \ {i} : mem'[j] = mem[j] /\ at'[j] = at[j]
        /\ at'[i] = "saveSession" /\ UNCHANGED <<failures, alone>>
    BY <1>1, <1>6 DEF Learns, Object, Goto, Goes
  <2> HIDE DEF n
  <2>5. Idles'
    BY <2>4 DEF HealInv, Idles
  <2>6. \A j \in Instances : mem[j].session \in 0..Len(granted)
    BY DEF HealInv, Sessions, Typed, Object
  <2>7. files.data.session \notin {None, Torn} => files.data.session \in 0..Len(granted)
    BY FilesHold DEF HealInv, Sessions, Typed
  <2>8. Sessions'
    <3>1. Len(granted') > Len(granted) /\ Len(granted) \in Nat /\ Len(granted') \in Nat
      BY <2>1, <2>2 DEF n
    <3>2. \A j \in Instances : mem'[j].session <= Len(granted')
      BY <2>1, <2>2, <2>4, <2>6, <3>1
    <3>3. files.data.session \notin {None, Torn} => files.data.session <= Len(granted')
      BY <2>7, <3>1
    <3> QED BY <1>2, <3>2, <3>3 DEF Sessions
  <2>9. Online'
    BY <2>4 DEF HealInv, Online
  <2>10. \A v \in 0..Len(granted) : Current(v) => v = 0 \/ granted'[v] = server.gen
    BY <2>1, <2>2 DEF Current
  <2>11. Healed'
    <3>1. SUFFICES ASSUME \E k \in Instances : failures'[k] # 0 PROVE Healed'
      BY DEF Healed
    <3>2. /\ \A j \in Instances : Current(mem[j].session)
          /\ files.data.session \notin {None, Torn} => Current(files.data.session)
      BY <2>4, <3>1 DEF HealInv, Healed
    <3>3. \A j \in Instances : mem'[j].session = 0 \/ granted'[mem'[j].session] = server.gen
      BY <2>2, <2>4, <2>6, <2>10, <3>2
    <3>4. files.data.session \notin {None, Torn} =>
            files.data.session = 0 \/ granted'[files.data.session] = server.gen
      BY <2>7, <2>10, <3>2
    <3> QED BY <1>2, <3>3, <3>4 DEF Healed, Current
  <2>12. RetryHeals'
    BY <2>4 DEF HealInv, RetryHeals
  <2>13. ASSUME NEW k \in Instances, alone'[k] PROVE Solo(k)'
    <3>1. alone[k] /\ Solo(k)
      BY <2>4, <2>13 DEF HealInv
    <3>2. k = i
      BY <1>1, <3>1 DEF Solo
    <3>3. /\ ~mem[i].offline /\ pw[i] = server.gen
          /\ \A j \in Instances \ {i} : at[j] = "idle"
          /\ ~deleter /\ Whole(files)
      BY <3>1, <3>2 DEF Solo
    <3>4. ~ready'
      BY <1>1, <1>2, <3>3, NotReady
    <3>5. Authenticated(i)'
      BY <1>2, <2>1, <2>3, <2>4 DEF Authenticated
    <3> QED BY <1>2, <2>4, <2>13, <3>2, <3>3, <3>4, <3>5 DEF Solo
  <2>14. \A k \in Instances : Solo(k)'
    BY <2>13 DEF Solo
  <2> QED BY <2>5, <2>8, <2>9, <2>11, <2>12, <2>14 DEF HealInv
<1> QED BY <1>3, <1>4, <1>5, <1>6 DEF Login, Lock, NoEvent

\* __aenter__ makes the entry of the network.
LEMMA EnterHeal ==
  ASSUME CacheInv, Typed, HealInv, NEW i \in Instances, Enter(i)
  PROVE  HealInv'
<1>1. /\ UNCHANGED <<at, mem, alone, failures, pw, server, granted, expired, deleter>>
      /\ at[i] # "idle" /\ files \in Directory
  BY PointsAre DEF Enter, callVars, serverVars, Typed
<1> DEFINE e == EnsureCacheValid(files)
<1>2. files' = [e EXCEPT !.entry = @ \/ at[i] # "invalidate"]
  BY DEF Enter
<1>3. /\ e \in Directory /\ (e.data = files.data \/ e.data = NoEntry)
  BY <1>1, ValidTyped DEF EnsureCacheValid
<1> HIDE DEF e
<1>4. /\ files'.data = e.data
      /\ at[i] # "invalidate" => files'.entry
  BY <1>2, <1>3 DEF Directory
<1>5. files'.data.session \in {files.data.session, None}
  BY <1>3, <1>4 DEF NoEntry
<1>6. Whole(files) => Whole(files')
  BY <1>3, <1>4, FilesAssumption DEF Whole, NoEntry
<1>7. Idles' /\ Sessions' /\ Online' /\ RetryHeals'
  BY <1>1, <1>5 DEF HealInv, Idles, Sessions, Online, RetryHeals
<1>8. Healed'
  BY <1>1, <1>5 DEF HealInv, Healed, Current
<1>9. ASSUME NEW k \in Instances PROVE Solo(k)'
  <2>1. alone[k] => k = i
    BY <1>1 DEF HealInv, Solo
  <2>2. Solo(k) /\ ("invalidate" \notin Reading \cup Writing)
    BY DEF HealInv, Reading, Writing
  <2>3. Authenticated(k)' = Authenticated(k) /\ Known(k)' = Known(k)
    BY <1>1 DEF Authenticated, Known
  <2> QED BY <1>1, <1>4, <1>6, <2>1, <2>2, <2>3 DEF Solo
<1> QED BY <1>7, <1>8, <1>9 DEF HealInv

\* The refusal of an old session is the one failure of a call that is alone, and
\* what it leaves has no session at all.
LEMMA InvalidateHeal ==
  ASSUME CacheInv, Typed, HealInv, NEW i \in Instances, Invalidate(i)
  PROVE  HealInv'
<1>1. /\ End(i, "update") /\ files' = Deleted(files) /\ at[i] = "invalidate" /\ at[i] # "idle"
      /\ UNCHANGED <<pw, server, granted, expired, deleter>>
      /\ files \in Directory /\ alone \in [Instances -> BOOLEAN]
  BY DEF Invalidate, In, EndLocked, serverVars, Typed
<1>2. files'.data = NoEntry
  BY <1>1 DEF Deleted, Directory
<1>3. /\ at'[i] = "idle" /\ mem'[i] = NewNetwork(FALSE, 0)
      /\ \A j \in Instances \ {i} : at'[j] = at[j] /\ mem'[j] = mem[j]
  BY <1>1 DEF End, Goto, CacheInv, Typed
<1>4. mem'[i].session = 0 /\ files'.data.session = None
  <2>1. NewNetwork(FALSE, 0).session = 0
    BY NewSession
  <2>2. NoEntry.session = None
    BY DEF NoEntry
  <2> QED BY <1>2, <1>3, <2>1, <2>2
<1>5. Idles' /\ Online'
  BY <1>3 DEF HealInv, Idles, Online
<1>6. Sessions'
  <2>1. 0 <= Len(granted)
    BY DEF Typed
  <2>2. \A j \in Instances : mem'[j].session <= Len(granted)
    BY <1>3, <1>4, <2>1 DEF HealInv, Sessions
  <2> QED BY <1>1, <1>4, <2>2 DEF Sessions
<1>7. ~alone'[i] /\ \A j \in Instances \ {i} : alone'[j] = alone[j]
  BY <1>1 DEF End
<1>8. \A k \in Instances : Solo(k)'
  <2>1. ASSUME NEW k \in Instances, alone'[k] PROVE FALSE
    BY <1>1, <1>7, <2>1 DEF HealInv, Solo
  <2> QED BY <2>1 DEF Solo
<1>9. CASE ~alone[i]
  <2>1. failures' = [failures EXCEPT ![i] = 0]
    BY <1>1, <1>9 DEF End
  <2>2. \A k \in Instances : failures'[k] # 0 => failures'[k] = failures[k]
    BY <2>1 DEF Typed
  <2>3. RetryHeals'
    BY <2>2 DEF HealInv, RetryHeals
  <2>4. Healed'
    <3>1. SUFFICES ASSUME \E k \in Instances : failures'[k] # 0 PROVE Healed'
      BY DEF Healed
    <3>2. \A j \in Instances : Current(mem[j].session)
      BY <2>2, <3>1 DEF HealInv, Healed
    <3>3. \A j \in Instances : Current(mem'[j].session)
      BY <1>3, <1>4, <3>2 DEF Current
    <3> QED BY <1>1, <1>4, <3>3 DEF Healed, Current
  <2> QED BY <1>5, <1>6, <1>8, <2>3, <2>4 DEF HealInv
<1>10. CASE alone[i]
  <2>1. ~mem[i].offline /\ ~Known(i) /\ \A j \in Instances \ {i} : at[j] = "idle"
    BY <1>1, <1>10 DEF HealInv, Solo
  <2>2. mem[i].session # 0
    BY <1>1, <2>1 DEF HealInv, Online
  <2>3. ~Current(mem[i].session)
    BY <2>1, <2>2 DEF Known, Current
  <2>4. \A k \in Instances : failures[k] = 0
    BY <2>3 DEF HealInv, Healed
  <2>5. failures' = [failures EXCEPT ![i] = failures[i] + 1]
    BY <1>1, <1>10 DEF End
  <2>6. RetryHeals'
    BY <2>4, <2>5 DEF RetryHeals, Typed
  <2>7. \A j \in Instances : mem'[j].session = 0
    BY <1>3, <1>4, <2>1, NewSession DEF HealInv, Idles
  <2>8. Healed'
    BY <1>4, <2>7 DEF Healed, Current
  <2> QED BY <1>5, <1>6, <1>8, <2>6, <2>8 DEF HealInv
<1> QED BY <1>9, <1>10
LEMMA BeginHeal ==
  ASSUME CacheInv, Typed, HealInv, NEW i \in Instances, NEW offline \in BOOLEAN,
         Begin(i, offline)
  PROVE  HealInv'
<1>1. /\ at[i] = "idle" /\ Steady /\ UNCHANGED <<failures, files, ready>>
      /\ at' = [at EXCEPT ![i] = "uuid"]
      /\ mem' = [mem EXCEPT ![i] = NewNetwork(offline, server.rev)]
      /\ alone' = [j \in Instances |->
                     j = i /\ Undisturbed /\ ~offline /\ pw[i] = server.gen]
  BY DEF Begin, Lock, Goto, Steady, diskVars, serverVars
<1>2. /\ at'[i] = "uuid" /\ \A j \in Instances \ {i} : at'[j] = at[j] /\ mem'[j] = mem[j]
      /\ mem'[i].session = 0 /\ mem'[i].offline = offline
  BY <1>1, NewSession DEF CacheInv, Typed
<1>3. Idles' /\ Online' /\ RetryHeals'
  BY <1>1, <1>2 DEF HealInv, Idles, Online, RetryHeals
<1>4. Sessions'
  <2>1. 0 <= Len(granted)
    BY DEF Typed
  <2>2. \A j \in Instances : mem'[j].session <= Len(granted)
    BY <1>2, <2>1 DEF HealInv, Sessions
  <2> QED BY <1>1, <2>2 DEF Sessions, HealInv, Steady
<1>5. Healed'
  <2>1. \A j \in Instances : Current(mem[j].session) => Current(mem'[j].session)
    BY <1>2 DEF Current
  <2> QED BY <1>1, <2>1 DEF HealInv, Healed, Current, Steady
<1>6. ASSUME NEW k \in Instances, alone'[k] PROVE Solo(k)'
  <2>1. k = i /\ Undisturbed /\ ~offline /\ pw[i] = server.gen
    BY <1>1, <1>6
  <2>2. /\ \A j \in Instances : at[j] = "idle"
        /\ ~deleter /\ Whole(files)
    BY <2>1 DEF Undisturbed, Whole
  <2>3. "uuid" \notin Reading \cup Writing
    BY DEF Reading, Writing
  <2> QED BY <1>1, <1>2, <1>6, <2>1, <2>2, <2>3 DEF Solo, Steady
<1>7. \A k \in Instances : Solo(k)'
  BY <1>6 DEF Solo
<1> QED BY <1>3, <1>4, <1>5, <1>7 DEF HealInv

\* Calls that are cut off: nobody is alone any more.
LEMMA StopsHeal ==
  ASSUME CacheInv, Typed, HealInv, NEW I \in SUBSET Instances, Stops(I),
         files'.data.session \in {files.data.session, None, Torn}
           \cup {mem[i].session : i \in Instances}
  PROVE  HealInv'
<1>1. /\ at' = [i \in Instances |-> IF i \in I THEN "idle" ELSE at[i]]
      /\ mem' = [i \in Instances |-> IF i \in I THEN NewNetwork(FALSE, 0) ELSE mem[i]]
      /\ failures' = [i \in Instances |-> IF i \in I THEN 0 ELSE failures[i]]
      /\ alone' = [i \in Instances |-> FALSE]
      /\ UNCHANGED <<server, granted, expired>>
  BY DEF Stops, serverVars
<1>2. \A k \in Instances : Solo(k)'
  BY <1>1 DEF Solo
<1>3. ASSUME NEW j \in Instances
      PROVE  /\ mem'[j].session \in {0, mem[j].session}
             /\ at'[j] \in {"idle", at[j]}
             /\ at'[j] = "idle" => mem'[j] = NewNetwork(FALSE, 0)
             /\ at'[j] # "idle" => mem'[j] = mem[j]
             /\ failures'[j] \in {0, failures[j]}
  BY <1>1, NewSession DEF HealInv, Idles
<1>8. Idles'
  BY <1>3 DEF Idles
<1>4. RetryHeals'
  <2>1. \A j \in Instances : failures'[j] \in {0, failures[j]} /\ failures[j] <= 1
    BY <1>3 DEF HealInv, RetryHeals
  <2> QED BY <2>1 DEF RetryHeals
<1>5. Online'
  BY <1>3 DEF HealInv, Online
<1>6. Sessions'
  <2>1. 0 <= Len(granted)
    BY DEF Typed
  <2> QED BY <1>1, <1>3, <2>1 DEF HealInv, Sessions
<1>7. Healed'
  <2>1. SUFFICES ASSUME \E k \in Instances : failures'[k] # 0 PROVE Healed'
    BY DEF Healed
  <2>2. /\ \A j \in Instances : Current(mem[j].session)
        /\ files.data.session \notin {None, Torn} => Current(files.data.session)
    BY <1>3, <2>1 DEF HealInv, Healed
  <2>3. \A j \in Instances : Current(mem'[j].session)
    BY <1>3, <2>2 DEF Current
  <2>4. files'.data.session \notin {None, Torn} => Current(files'.data.session)
    BY <2>2
  <2> QED BY <1>1, <2>3, <2>4 DEF Healed, Current
<1> QED BY <1>2, <1>4, <1>5, <1>6, <1>7, <1>8 DEF HealInv

LEMMA CutHeal ==
  ASSUME CacheInv, Typed, HealInv, Crash \/ \E i \in Instances : Cancel(i)
  PROVE  HealInv'
<1>1. files \in Directory /\ files.data \in Data
  BY FilesHold DEF Typed
<1>2. \A f \in HalfValid(files) : f.data.session \in {files.data.session, None}
  <2>1. NoEntry.session = None
    BY DEF NoEntry
  <2> QED BY <2>1 DEF HalfValid
<1>3. ASSUME NEW i \in Instances, Cancel(i) PROVE HealInv'
  <2>1. /\ Stops({i})
        /\ \/ files' \in HalfValid(files) \/ files' = files
           \/ at[i] \in Writing /\ Write(i)
    BY <1>3 DEF Cancel
  <2>2. files'.data.session \in {files.data.session, None, mem[i].session}
    BY <1>2, <2>1, Written
  <2> QED BY <2>1, <2>2, StopsHeal
<1>4. CASE Crash
  <2>1. /\ Stops(Instances)
        /\ \/ files' = files \/ files' \in HalfValid(files)
           \/ \E s \in Writing : files' = [files EXCEPT !.data[FileOf[s]] = Torn]
    BY <1>4 DEF Crash
  <2>2. ASSUME NEW s \in Writing, files' = [files EXCEPT !.data[FileOf[s]] = Torn]
        PROVE  files'.data.session \in {files.data.session, Torn}
    <3>1. FileOf[s] \in {"id", "session", "net", "keys", "types"}
      BY DEF FileOf, Writing
    <3>2. files'.data = [files.data EXCEPT ![FileOf[s]] = Torn]
      BY <1>1, <2>2 DEF Directory
    <3> QED BY <1>1, <3>1, <3>2 DEF Data
  <2>3. files'.data.session \in {files.data.session, None, Torn}
    BY <1>2, <2>1, <2>2
  <2> QED BY <2>1, <2>3, StopsHeal
<1> QED BY <1>3, <1>4

\* The world: a deletion that goes on, the server, time, the user.
LEMMA WorldHeal ==
  ASSUME CacheInv, Typed, HealInv,
         DeletionEnds \/ Renew \/ Expires \/ \E i \in Instances : EnterPassword(i)
  PROVE  HealInv'
<1>1. CASE DeletionEnds
  <2>1. /\ deleter /\ files' = Deleted(files) /\ files \in Directory
        /\ UNCHANGED <<at, mem, alone, failures, pw, server, granted, expired>>
    BY <1>1 DEF DeletionEnds, callVars, serverVars, Typed
  <2>2. files'.data.session = None
    <3>1. files'.data = NoEntry
      BY <2>1 DEF Deleted, Directory
    <3> QED BY <3>1 DEF NoEntry
  <2>3. \A k \in Instances : Solo(k)'
    BY <2>1 DEF HealInv, Solo
  <2>4. Idles' /\ Online' /\ RetryHeals' /\ Sessions' /\ Healed'
    BY <2>1, <2>2 DEF HealInv, Idles, Online, RetryHeals, Sessions, Healed, Current
  <2> QED BY <2>3, <2>4 DEF HealInv
<1>2. CASE Renew
  <2>1. /\ UNCHANGED <<at, mem, files, granted, expired, pw>>
        /\ \/ failures' = [i \in Instances |-> 0]
           \/ UNCHANGED failures /\ server' = [server EXCEPT !.rev = @ + 1]
        /\ alone' = [i \in Instances |-> FALSE]
    BY <1>2 DEF Renew, Disturb, diskVars
  <2>2. \A k \in Instances : Solo(k)'
    BY <2>1 DEF Solo
  <2>3. Idles' /\ Online' /\ Sessions'
    BY <2>1 DEF HealInv, Idles, Online, Sessions
  <2>6. RetryHeals'
    BY <2>1 DEF HealInv, RetryHeals
  <2>4. CASE failures' = [i \in Instances |-> 0]
    BY <2>2, <2>3, <2>4, <2>6 DEF HealInv, Healed
  <2>5. CASE UNCHANGED failures /\ server' = [server EXCEPT !.rev = @ + 1]
    <3>1. server'.gen = server.gen
      BY <2>5 DEF Typed, Net
    <3>2. Healed'
      BY <2>1, <2>5, <3>1 DEF HealInv, Healed, Current
    <3> QED BY <2>2, <2>3, <2>6, <3>2 DEF HealInv
  <2> QED BY <2>1, <2>4, <2>5
<1>3. CASE Expires
  <2>1. /\ UNCHANGED <<at, server, granted, pw, failures>>
        /\ \/ UNCHANGED <<mem, files>>
           \/ /\ files' = [files EXCEPT !.data.types = "unknown"]
              /\ mem' = [i \in Instances |-> [mem[i] EXCEPT !.types = "unknown"]]
        /\ alone' = [i \in Instances |-> FALSE]
    BY <1>3 DEF Expires, Event, Disturb
  <2>2. files'.data.session = files.data.session
    <3>1. files.data \in Data /\ files \in Directory
      BY FilesHold DEF Typed
    <3>2. CASE files' = [files EXCEPT !.data.types = "unknown"]
      <4>1. files'.data = [files.data EXCEPT !.types = "unknown"]
        BY <3>1, <3>2 DEF Directory
      <4> QED BY <3>1, <4>1 DEF Data
    <3> QED BY <2>1, <3>2
  <2>3. ASSUME NEW j \in Instances
        PROVE  /\ mem'[j].session = mem[j].session /\ mem'[j].offline = mem[j].offline
               /\ at[j] = "idle" => mem'[j] = NewNetwork(FALSE, 0)
    <3>1. mem[j] \in Object
      BY DEF Typed
    <3>2. mem'[j] = mem[j] \/ mem'[j] = [mem[j] EXCEPT !.types = "unknown"]
      BY <2>1
    <3>3. mem'[j].session = mem[j].session /\ mem'[j].offline = mem[j].offline
      BY <3>1, <3>2 DEF Object
    <3>4. [NewNetwork(FALSE, 0) EXCEPT !.types = "unknown"] = NewNetwork(FALSE, 0)
      <4>1. NewNetwork(FALSE, 0) \in Object
        BY NewTyped
      <4>2. NewNetwork(FALSE, 0).types = "unknown"
        BY DEF NewNetwork
      <4> QED BY <4>1, <4>2 DEF Object
    <3> QED BY <3>2, <3>3, <3>4 DEF HealInv, Idles
  <2>4. \A k \in Instances : Solo(k)'
    BY <2>1 DEF Solo
  <2>5. Idles' /\ Online' /\ RetryHeals'
    BY <2>1, <2>3 DEF HealInv, Idles, Online, RetryHeals
  <2>6. Sessions' /\ Healed'
    BY <2>1, <2>2, <2>3 DEF HealInv, Sessions, Healed, Current
  <2> QED BY <2>4, <2>5, <2>6 DEF HealInv
<1>4. ASSUME NEW i \in Instances, EnterPassword(i) PROVE HealInv'
  <2>1. /\ at[i] = "idle" /\ pw' = [pw EXCEPT ![i] = server.gen]
        /\ UNCHANGED <<at, mem, alone, failures, files, ready, deleter, server, granted, expired>>
    BY <1>4 DEF EnterPassword, callVars, lockVars, diskVars, serverVars
  <2>2. \A k \in Instances \ {i} : pw'[k] = pw[k]
    BY <2>1 DEF Typed
  <2>3. ASSUME NEW k \in Instances, alone'[k] PROVE Solo(k)'
    <3>1. alone[k] /\ Solo(k) /\ k # i
      BY <2>1, <2>3 DEF HealInv, Solo
    <3> QED BY <2>1, <2>2, <3>1 DEF Solo, Authenticated, Known
  <2>4. \A k \in Instances : Solo(k)'
    BY <2>3 DEF Solo
  <2>5. Idles' /\ Online' /\ RetryHeals' /\ Sessions' /\ Healed'
    BY <2>1 DEF HealInv, Idles, Online, RetryHeals, Sessions, Healed, Current
  <2> QED BY <2>4, <2>5 DEF HealInv
<1> QED BY <1>1, <1>2, <1>3, <1>4

LEMMA HealInit == Init => HealInv
<1> SUFFICES ASSUME Init PROVE HealInv
  OBVIOUS
<1>1. /\ mem = [i \in Instances |-> NewNetwork(FALSE, 0)]
      /\ at = [i \in Instances |-> "idle"] /\ granted = <<>>
      /\ files.data = NoEntry
      /\ alone = [i \in Instances |-> FALSE] /\ failures = [i \in Instances |-> 0]
  BY DEF Init
<1>5. \A i \in Instances : mem[i].session = 0
  BY <1>1, NewSession
<1>7. \A i \in Instances : mem[i] = NewNetwork(FALSE, 0)
  BY <1>1
<1>2. NoEntry.session = None
  BY DEF NoEntry
<1>3. Idles /\ Online /\ Healed /\ RetryHeals
  BY <1>1, <1>5, <1>7 DEF Idles, Online, Healed, RetryHeals
<1>6. Sessions
  <2>1. Len(granted) = 0
    BY <1>1
  <2>2. \A i \in Instances : mem[i].session <= Len(granted)
    <3>1. 0 <= Len(granted)
      BY <2>1
    <3> QED BY <1>5, <3>1
  <2> QED BY <1>1, <1>2, <2>2 DEF Sessions
<1>4. \A i \in Instances : Solo(i)
  BY <1>1 DEF Solo
<1> QED BY <1>3, <1>4, <1>6 DEF HealInv

LEMMA HealNext == CacheInv /\ Typed /\ HealInv /\ [Next]_vars => HealInv'
<1> SUFFICES ASSUME CacheInv, Typed, HealInv, [Next]_vars PROVE HealInv'
  OBVIOUS
<1>1. ASSUME NEW i \in Instances, CallStep(i) PROVE HealInv'
  BY <1>1, LoadHeal, SaveHeal, ReadHeal, RequestHeal, LoginHeal, EnterHeal, InvalidateHeal
     DEF CallStep
<1>2. ASSUME NEW i \in Instances, NEW offline \in BOOLEAN, Begin(i, offline)
      PROVE  HealInv'
  BY <1>2, BeginHeal
<1>3. CASE Crash \/ \E i \in Instances : Cancel(i)
  BY <1>3, CutHeal
<1>4. CASE DeletionEnds \/ Renew \/ Expires \/ \E i \in Instances : EnterPassword(i)
  BY <1>4, WorldHeal
<1>5. CASE UNCHANGED vars
  BY <1>5 DEF vars, callVars, lockVars, diskVars, serverVars, HealInv, Idles, Solo, Sessions,
              Online, Healed, RetryHeals, Current, Authenticated, Known, Whole
<1> QED BY <1>1, <1>2, <1>3, <1>4, <1>5 DEF Next

\* However many instances share the directory, a call with the right password that
\* is alone on whole files fails at most once in a row for each password: the
\* failure that invalidates the cache takes with it what caused it.
THEOREM FailuresHeal == Spec => []RetryHeals
<1>1. HealInv => RetryHeals
  BY DEF HealInv
<1> QED BY <1>1, CacheInit, CacheNext, TypedInit, TypedNext, HealInit, HealNext, PTL DEF Spec
-----------------------------------------------------------------------------
(* Renewed keys.  After a refusal that left nobody and nothing with a key  *)
(* from before the change of password, the only keys and networks anywhere *)
(* are those of the server, up to the next change.                         *)

Newest == NewKey(server.gen)
GoodKeys(keys, todo) ==
  /\ Distinct(keys) /\ Distinct(todo)
  /\ \A y : InQ(keys, y) => y \in {OldKey, Newest} /\ ~InQ(todo, y)
  /\ \A y : InQ(todo, y) => y \in {OldKey, Newest}
GoodNet(net) == net = NoNet \/ net.gen = server.gen

\* What the object of a call that is at s holds.
Fit(s, m) ==
  /\ GoodKeys(m.keys, m.todo) /\ GoodNet(m.net)
  /\ s = "saveNet" => m.net.gen = server.gen
  /\ s \in Telling => InQ(m.keys, Newest) \/ InQ(m.todo, Newest)
  /\ s \notin {"saveNet", "saveKeys"} => m.todo = <<>>
FilesFit ==
  /\ files.data.keys \notin {None, Torn} => GoodKeys(files.data.keys, <<>>)
  /\ files.data.net \notin {None, Torn} => files.data.net.gen = server.gen

PurgeInv ==
  /\ server.gen # 0 /\ server.rev # 0
  /\ purged => FilesFit /\ \A i \in Instances : Fit(at[i], mem[i])

LEMMA NoneIn == ASSUME NEW y PROVE ~InQ(<<>>, y) /\ Distinct(<<>>)
BY DEF InQ, Distinct

LEMMA NewFits ==
  ASSUME NEW offline, NEW rev, NEW s \in {"idle", "uuid"}
  PROVE  Fit(s, NewNetwork(offline, rev))
<1> DEFINE m == NewNetwork(offline, rev)
<1>1. m.keys = <<>> /\ m.todo = <<>> /\ m.net = NoNet
  BY DEF NewNetwork
<1>2. s \notin Telling /\ s # "saveNet"
  BY DEF Telling
<1> HIDE DEF m
<1>3. GoodKeys(m.keys, m.todo) /\ GoodNet(m.net)
  BY <1>1, NoneIn DEF GoodKeys, GoodNet
<1>4. Fit(s, m)
  BY <1>1, <1>2, <1>3 DEF Fit
<1> QED BY <1>4 DEF m

LEMMA KeysDiffer ==
  ASSUME Typed, server.gen # 0
  PROVE  Newest.id # OldKey.id /\ Newest \in Key /\ OldKey \in Key /\ Newest # OldKey
<1>1. server.gen \in Nat /\ server.gen + 1 # 1
  BY DEF Typed, Net
<1>2. Newest.id # OldKey.id
  BY <1>1 DEF Newest, NewKey, OldKey
<1> QED BY <1>1, <1>2, KeysTyped DEF Newest

\* addKey skips a key only when its id is in the store.
LEMMA UnstoredIs ==
  ASSUME NEW m \in Object, NEW k
  PROVE  \/ Unstored(m, k) = <<>> /\ \E y : InQ(m.keys, y) /\ y.id = k.id
         \/ Unstored(m, k) = <<k>> /\ ~InQ(m.keys, k)
<1>1. m.keys \in Seq(Key) /\ DOMAIN m.keys = 1..Len(m.keys)
  BY DEF Object
<1>2. CASE \E j \in DOMAIN m.keys : m.keys[j].id = k.id
  BY <1>1, <1>2 DEF Unstored, InQ
<1>3. CASE ~\E j \in DOMAIN m.keys : m.keys[j].id = k.id
  <2>1. ~InQ(m.keys, k)
    BY <1>1, <1>3 DEF InQ
  <2> QED BY <1>3, <2>1 DEF Unstored
<1> QED BY <1>2, <1>3

LEMMA PairIs ==
  ASSUME NEW a \in Key, NEW b \in Key, a # b,
         NEW p, p = <<>> \/ p = <<a>>, NEW q, q = <<>> \/ q = <<b>>
  PROVE  /\ Distinct(p \o q)
         /\ \A y : InQ(p \o q, y) <=> (y = a /\ p = <<a>>) \/ (y = b /\ q = <<b>>)
<1>1. CASE p = <<>> /\ q = <<>>
  BY <1>1 DEF InQ, Distinct
<1>2. CASE p = <<a>> /\ q = <<>>
  BY <1>2 DEF InQ, Distinct
<1>3. CASE p = <<>> /\ q = <<b>>
  BY <1>3 DEF InQ, Distinct
<1>4. CASE p = <<a>> /\ q = <<b>>
  <2>1. <<a>> \in Seq(Key) /\ <<b>> \in Seq(Key) /\ Len(<<a>>) = 1 /\ Len(<<b>>) = 1
    OBVIOUS
  <2>2. Len(p \o q) = 2 /\ (p \o q)[1] = a /\ (p \o q)[2] = b
    BY <1>4, <2>1, ConcatProperties
  <2> DEFINE r == p \o q
  <2>3. Len(r) = 2 /\ r[1] = a /\ r[2] = b
    BY <2>2
  <2> HIDE DEF r
  <2>4. Distinct(r) /\ \A y : InQ(r, y) <=> y = a \/ y = b
    BY <2>3 DEF InQ, Distinct
  <2> QED BY <1>4, <2>4 DEF r
<1> QED BY <1>1, <1>2, <1>3, <1>4

LEMMA ParsedFits ==
  ASSUME Typed, server.gen # 0, NEW m \in Object, GoodKeys(m.keys, m.todo),
         NEW net \in Net, net.gen = server.gen, NEW told \in BOOLEAN
  PROVE  LET n == Parsed(m, net, told)
         IN /\ n \in Object /\ GoodKeys(n.keys, n.todo) /\ n.net.gen = server.gen
            /\ InQ(n.keys, Newest) \/ InQ(n.todo, Newest)
<1> DEFINE p == Unstored(m, OldKey)
<1> DEFINE q == Unstored(m, Newest)
<1> DEFINE n == Parsed(m, net, told)
<1>1. n = [m EXCEPT !.net = net, !.told = told, !.todo = p \o q]
  BY DEF Parsed, Newest
<1>2. n.keys = m.keys /\ n.todo = p \o q /\ n.net = net
  BY <1>1 DEF Object
<1>3. n \in Object
  BY ParsedTyped
<1>4. /\ p = <<>> \/ (p = <<OldKey>> /\ ~InQ(m.keys, OldKey))
      /\ \/ q = <<>> /\ \E y : InQ(m.keys, y) /\ y.id = Newest.id
         \/ q = <<Newest>> /\ ~InQ(m.keys, Newest)
  BY UnstoredIs
<1> HIDE DEF p, q, n
<1>9. (p = <<>> \/ p = <<OldKey>>) /\ (q = <<>> \/ q = <<Newest>>)
  BY <1>4
<1>10. <<>> # <<OldKey>> /\ <<>> # <<Newest>>
  OBVIOUS
<1>5. /\ Distinct(p \o q)
      /\ \A y : InQ(p \o q, y) <=> (y = OldKey /\ p = <<OldKey>>) \/ (y = Newest /\ q = <<Newest>>)
  <2>1. OldKey \in Key /\ Newest \in Key /\ OldKey # Newest
    BY KeysDiffer
  <2> QED BY <1>9, <2>1, PairIs
<1>6. InQ(m.keys, Newest) \/ InQ(p \o q, Newest)
  BY <1>4, <1>5, KeysDiffer DEF GoodKeys
<1>7. GoodKeys(m.keys, p \o q)
  <2>3. p = <<OldKey>> => ~InQ(m.keys, OldKey)
    BY <1>4, <1>10
  <2>4. q = <<Newest>> => ~InQ(m.keys, Newest)
    BY <1>4, <1>10
  <2>1. ASSUME NEW y, InQ(m.keys, y) PROVE ~InQ(p \o q, y)
    BY <1>5, <2>1, <2>3, <2>4
  <2>2. \A y : InQ(p \o q, y) => y \in {OldKey, Newest}
    BY <1>5
  <2> QED BY <1>5, <2>1, <2>2 DEF GoodKeys
<1>8. /\ n \in Object /\ GoodKeys(n.keys, n.todo) /\ n.net.gen = server.gen
      /\ InQ(n.keys, Newest) \/ InQ(n.todo, Newest)
  BY <1>2, <1>3, <1>6, <1>7
<1> QED BY <1>8 DEF n

\* update() from the parsed network to the next suspension.
LEMMA GoesOnFits ==
  ASSUME Typed, NEW i \in Instances, NEW m \in Object, NEW q, GoesOn(i, m, q),
         GoodKeys(m.keys, m.todo), GoodNet(m.net), InQ(m.keys, Newest) \/ InQ(m.todo, Newest)
  PROVE  \E s, n : Goto(i, s) /\ mem' = [mem EXCEPT ![i] = n] /\ Fit(s, n)
<1>1. CASE m.todo # <<>>
  <2> DEFINE n == [m EXCEPT !.keys = Append(@, Head(m.todo)), !.todo = Tail(@)]
  <2>1. m.keys \in Seq(Key) /\ m.todo \in Seq(Key)
    BY DEF Object
  <2>2. /\ n.keys = Append(m.keys, Head(m.todo)) /\ n.todo = Tail(m.todo) /\ n.net = m.net
    BY DEF Object
  <2>3. mem' = [mem EXCEPT ![i] = n] /\ Goto(i, "saveKeys")
    BY <1>1 DEF GoesOn
  <2> HIDE DEF n
  <2> DEFINE h == Head(m.todo)
  <2> DEFINE r == Tail(m.todo)
  <2>4. /\ h \in Key /\ InQ(m.todo, h) /\ Distinct(r) /\ ~InQ(r, h)
        /\ \A y : InQ(r, y) => InQ(m.todo, y)
        /\ \A y : InQ(m.todo, y) /\ y # h => InQ(r, y)
    BY <1>1, <2>1, TailQueue DEF GoodKeys
  <2> HIDE DEF h, r
  <2>5. ~InQ(m.keys, h) /\ h \in {OldKey, Newest}
    BY <2>4 DEF GoodKeys
  <2>6. /\ \A y : InQ(Append(m.keys, h), y) <=> InQ(m.keys, y) \/ y = h
        /\ Distinct(Append(m.keys, h))
    BY <2>1, <2>4, <2>5, AppendQueue DEF GoodKeys
  <2>7. GoodKeys(Append(m.keys, h), r)
    BY <2>4, <2>5, <2>6 DEF GoodKeys
  <2>8. InQ(Append(m.keys, h), Newest) \/ InQ(r, Newest)
    BY <2>4, <2>6
  <2>9. n.keys = Append(m.keys, h) /\ n.todo = r
    BY <2>2 DEF h, r
  <2>10. Fit("saveKeys", n)
    BY <2>2, <2>7, <2>8, <2>9 DEF Fit
  <2> QED BY <2>3, <2>10
<1>2. CASE m.todo = <<>>
  <2>1. /\ mem' = [mem EXCEPT ![i] = m]
        /\ \E s \in {"saveTypes", "fixture"} : Goto(i, s)
    BY <1>2 DEF GoesOn
  <2>2. \A s \in {"saveTypes", "fixture"} : Fit(s, m)
    BY <1>2 DEF Fit
  <2> QED BY <2>1, <2>2
<1> QED BY <1>1, <1>2
LEMMA WrittenFits ==
  ASSUME Typed, NEW i \in Instances, at[i] \in Writing, Write(i)
  PROVE  /\ \/ files'.data.keys = files.data.keys
            \/ at[i] = "saveKeys" /\ files'.data.keys = mem[i].keys
         /\ \/ files'.data.net = files.data.net
            \/ at[i] = "saveNet" /\ files'.data.net = mem[i].net
<1>1. files \in Directory /\ files.data \in Data
  BY FilesHold DEF Typed
<1> DEFINE x == FileOf[at[i]]
<1> DEFINE v == Contents(i)[x]
<1>2. /\ x \in {"id", "session", "net", "keys", "types"}
      /\ x = "keys" => at[i] = "saveKeys"
      /\ x = "net" => at[i] = "saveNet"
  BY DEF FileOf, Writing
<1>3. files' = [files EXCEPT !.data[x] = v]
  BY DEF Write
<1>4. (x = "keys" => v = mem[i].keys) /\ (x = "net" => v = mem[i].net)
  BY DEF Contents
<1> HIDE DEF x, v
<1>5. files'.data = [files.data EXCEPT ![x] = v]
  BY <1>1, <1>3 DEF Directory
<1> QED BY <1>1, <1>2, <1>4, <1>5 DEF Data

LEMMA SameServer ==
  ASSUME server'.gen = server.gen
  PROVE  /\ \A s, m : Fit(s, m)' <=> Fit(s, m)
         /\ \A k : GoodKeys(k, <<>>)' <=> GoodKeys(k, <<>>)
BY DEF Fit, GoodKeys, GoodNet, Newest

LEMMA GoodAlone ==
  ASSUME NEW keys, NEW todo, GoodKeys(keys, todo)
  PROVE  GoodKeys(keys, <<>>)
BY NoneIn DEF GoodKeys

\* A call that goes on or ends with an object that fits.
LEMMA MovesFit ==
  ASSUME CacheInv, Typed, PurgeInv, NEW i \in Instances, UNCHANGED server, purged' => purged,
         NEW s, NEW m, Goto(i, s), mem' = [mem EXCEPT ![i] = m], purged => Fit(s, m),
         UNCHANGED files \/ (at[i] \in Writing /\ Write(i))
  PROVE  PurgeInv'
<1>1. SUFFICES ASSUME purged' PROVE FilesFit' /\ \A j \in Instances : Fit(at[j], mem[j])'
  BY DEF PurgeInv
<1>2. /\ purged /\ FilesFit /\ Fit(s, m) /\ server'.gen = server.gen
      /\ \A j \in Instances : Fit(at[j], mem[j])
  BY <1>1 DEF PurgeInv
<1>3. /\ at'[i] = s /\ mem'[i] = m
      /\ \A j \in Instances \ {i} : at'[j] = at[j] /\ mem'[j] = mem[j]
  BY DEF CacheInv, Typed, Goto
<1>4. ASSUME NEW j \in Instances PROVE Fit(at[j], mem[j])'
  <2>1. PICK t, n : t = at'[j] /\ n = mem'[j]
    OBVIOUS
  <2>2. Fit(t, n)
    BY <1>2, <1>3, <2>1
  <2>3. Fit(t, n)'
    BY <1>2, <2>2, SameServer
  <2> QED BY <2>1, <2>3 DEF Fit
<1>5. FilesFit'
  <2>1. /\ files'.data.keys \notin {None, Torn} => GoodKeys(files'.data.keys, <<>>)
        /\ files'.data.net \notin {None, Torn} => files'.data.net.gen = server.gen
    <3>1. CASE UNCHANGED files
      BY <1>2, <3>1 DEF FilesFit
    <3>2. CASE at[i] \in Writing /\ Write(i)
      <4>1. GoodKeys(mem[i].keys, <<>>) /\ (at[i] = "saveNet" => mem[i].net.gen = server.gen)
        BY <1>2, GoodAlone DEF Fit
      <4> QED BY <1>2, <3>2, <4>1, WrittenFits DEF FilesFit
    <3> QED BY <3>1, <3>2
  <2>2. PICK k : k = files'.data.keys
    OBVIOUS
  <2>3. k \notin {None, Torn} => GoodKeys(k, <<>>)'
    BY <1>2, <2>1, <2>2, SameServer
  <2> QED BY <1>2, <2>1, <2>2, <2>3 DEF FilesFit, GoodKeys
<1> QED BY <1>4, <1>5

LEMMA EndsFit ==
  ASSUME CacheInv, Typed, PurgeInv, NEW i \in Instances, UNCHANGED server, purged' => purged,
         NEW how, End(i, how) \/ EndLocked(i, how) \/ Breaks(i, how),
         UNCHANGED files \/ (at[i] \in Writing /\ Write(i))
  PROVE  PurgeInv'
<1>1. Goto(i, "idle") /\ mem' = [mem EXCEPT ![i] = NewNetwork(FALSE, 0)]
  BY DEF End, EndLocked, Breaks
<1> QED BY <1>1, NewFits, MovesFit

\* A call that changes neither keys nor network, before it has any, or past them.
LEMMA KeepsFit ==
  ASSUME CacheInv, Typed, PurgeInv, NEW i \in Instances, UNCHANGED server, purged' => purged,
         NEW s, Goto(i, s), at[i] \notin {"saveNet", "saveKeys"}, s # "saveNet",
         s \in Telling => at[i] \in Telling,
         \/ UNCHANGED mem
         \/ \E f \in {"id", "session", "types", "offline"} : \E v : Learns(i, f, v),
         UNCHANGED files \/ (at[i] \in Writing /\ Write(i))
  PROVE  PurgeInv'
<1>1. mem \in [Instances -> Object] /\ mem[i] \in Object
  BY DEF Typed
<1>2. PICK m : /\ mem' = [mem EXCEPT ![i] = m]
               /\ m.keys = mem[i].keys /\ m.todo = mem[i].todo /\ m.net = mem[i].net
  <2>1. CASE UNCHANGED mem
    BY <1>1, <2>1
  <2>2. ASSUME NEW f \in {"id", "session", "types", "offline"}, NEW v, Learns(i, f, v)
        PROVE  \E m : /\ mem' = [mem EXCEPT ![i] = m]
                      /\ m.keys = mem[i].keys /\ m.todo = mem[i].todo /\ m.net = mem[i].net
    <3> DEFINE m == [mem[i] EXCEPT ![f] = v]
    <3>1. mem' = [mem EXCEPT ![i] = m]
      BY <2>2 DEF Learns
    <3>2. m.keys = mem[i].keys /\ m.todo = mem[i].todo /\ m.net = mem[i].net
      BY <1>1 DEF Object
    <3> HIDE DEF m
    <3> QED BY <3>1, <3>2
  <2> QED BY <2>1, <2>2
<1>3. purged => Fit(at[i], mem[i])
  BY DEF PurgeInv
<1>4. purged => Fit(s, m)
  BY <1>2, <1>3 DEF Fit
<1> QED BY <1>2, <1>4, MovesFit
-----------------------------------------------------------------------------
LEMMA LoginFit ==
  ASSUME CacheInv, Typed, PurgeInv, NEW i \in Instances,
         \/ SetUuid(i) \/ LoadSession(i) \/ LoadTypes(i) \/ ReadId(i) \/ GetId(i) \/ SaveId(i)
         \/ Login(i) \/ SaveSession(i) \/ FetchUnitInfo(i) \/ SaveTypes(i)
  PROVE  PurgeInv'
<1>1. /\ UNCHANGED <<server, purged>>
      /\ {"uuid", "session", "types", "netid", "getId", "saveId", "login", "saveSession",
          "fixture", "saveTypes"} \cap {"saveNet", "saveKeys"} = {}
      /\ {"keys", "types", "netid", "net", "getId", "login", "saveId", "saveSession"}
           \cap Telling = {}
      /\ "fixture" \in Telling
  BY DEF SetUuid, LoadSession, LoadTypes, Load, ReadId, GetId, SaveId, Login, SaveSession,
         FetchUnitInfo, SaveTypes, serverVars, Telling
<1>2. CASE SetUuid(i)
  BY <1>1, <1>2, KeepsFit DEF SetUuid, Relock, diskVars
<1>3. ASSUME NEW s, NEW f \in {"session", "types"}, NEW next, Load(i, s, f, next)
      PROVE  /\ at[i] = s /\ UNCHANGED files
             /\ \/ EndLocked(i, "corrupt")
                \/ Goto(i, next) /\ (UNCHANGED mem \/ \E v : Learns(i, f, v))
  BY <1>3 DEF Load, In, Relock, diskVars
<1>4. CASE LoadSession(i) \/ LoadTypes(i)
  <2>1. /\ at[i] \in {"session", "types"} /\ UNCHANGED files
        /\ \/ EndLocked(i, "corrupt")
           \/ /\ \E s \in {"types", "netid"} : Goto(i, s)
              /\ UNCHANGED mem \/ \E f \in {"session", "types"} : \E v : Learns(i, f, v)
    BY <1>3, <1>4 DEF LoadSession, LoadTypes
  <2> QED BY <1>1, <2>1, EndsFit, KeepsFit
<1>5. CASE ReadId(i) \/ GetId(i)
  <2>1. /\ at[i] \in {"netid", "getId"} /\ UNCHANGED files
        /\ \/ \E how : EndLocked(i, how) \/ Breaks(i, how)
           \/ /\ \E s \in {"net", "getId", "login", "saveId"} : Goto(i, s)
              /\ UNCHANGED mem \/ \E v : Learns(i, "id", v)
    <3>1. CASE ReadId(i)
      BY <3>1 DEF ReadId, In, Relock, Unlocked, diskVars
    <3>2. CASE GetId(i)
      BY <3>2 DEF GetId, LogIn, Lock, diskVars
    <3> QED BY <1>5, <3>1, <3>2
  <2> QED BY <1>1, <2>1, EndsFit, KeepsFit
<1>6. CASE SaveId(i) \/ SaveSession(i)
  <2>1. /\ at[i] \in {"saveId", "saveSession"} /\ at[i] \in Writing
        /\ UNCHANGED files \/ Write(i)
        /\ \/ \E how : EndLocked(i, how)
           \/ /\ \E s \in {"net", "login"} : Goto(i, s)
              /\ UNCHANGED mem \/ \E v : Learns(i, "id", v)
    BY <1>6 DEF SaveId, SaveSession, In, Relock, Unlocked, Unwritable, Writing
  <2> QED BY <1>1, <2>1, EndsFit, KeepsFit
<1>7. CASE Login(i)
  <2>1. /\ at[i] = "login" /\ UNCHANGED files
        /\ \/ \E how : End(i, how) \/ Breaks(i, how)
           \/ /\ \E s \in {"saveSession", "net"} : Goto(i, s)
              /\ \E f \in {"session", "offline"} : \E v : Learns(i, f, v)
    BY <1>7 DEF Login, Lock, diskVars
  <2> QED BY <1>1, <2>1, EndsFit, KeepsFit
<1>8. CASE FetchUnitInfo(i)
  <2>1. /\ at[i] = "fixture" /\ UNCHANGED files
        /\ \/ \E how : Breaks(i, how)
           \/ Goto(i, "saveTypes") /\ \E v : Learns(i, "types", v)
    BY <1>8 DEF FetchUnitInfo, Lock, diskVars
  <2> QED BY <1>1, <2>1, EndsFit, KeepsFit
<1>9. CASE SaveTypes(i)
  <2>1. /\ at[i] \in Writing /\ (UNCHANGED files \/ Write(i))
        /\ \E how : EndLocked(i, how)
    BY <1>9 DEF SaveTypes, In, Unwritable, Writing
  <2> QED BY <1>1, <2>1, EndsFit
<1> QED BY <1>2, <1>4, <1>5, <1>6, <1>7, <1>8, <1>9

\* The keys of the file are good, and nothing is to do yet.
LEMMA LoadKeysFit ==
  ASSUME CacheInv, Typed, PurgeInv, NEW i \in Instances, LoadKeys(i)
  PROVE  PurgeInv'
<1>1. /\ mem \in [Instances -> Object] /\ mem[i] \in Object
      /\ at[i] = "keys" /\ UNCHANGED <<server, purged, files>>
  BY DEF Typed, LoadKeys, Load, In, diskVars, serverVars
<1>2. {"keys", "session"} \cap (Telling \cup {"saveNet", "saveKeys"}) = {}
  BY DEF Telling
<1>3. CASE EndLocked(i, "corrupt")
  BY <1>1, <1>3, EndsFit
<1>4. CASE Goto(i, "session") /\ UNCHANGED mem
  BY <1>1, <1>2, <1>4, KeepsFit
<1>5. CASE /\ Goto(i, "session") /\ Learns(i, "keys", files.data["keys"])
           /\ files.data["keys"] \notin {None, Torn}
  <2> DEFINE m == [mem[i] EXCEPT !.keys = files.data.keys]
  <2>1. m.keys = files.data.keys /\ m.todo = mem[i].todo /\ m.net = mem[i].net
    BY <1>1 DEF Object
  <2>2. mem' = [mem EXCEPT ![i] = m]
    BY <1>5 DEF Learns
  <2> HIDE DEF m
  <2>3. purged => Fit(at[i], mem[i]) /\ GoodKeys(files.data.keys, <<>>)
    BY <1>5 DEF PurgeInv, FilesFit
  <2>4. purged => Fit("session", m)
    BY <1>1, <1>2, <2>1, <2>3 DEF Fit
  <2> QED BY <1>1, <1>5, <2>2, <2>4, MovesFit
<1> QED BY <1>3, <1>4, <1>5 DEF LoadKeys, Load, Relock

\* The network of the file or of the server brings the server's keys.
LEMMA UpdateFit ==
  ASSUME CacheInv, Typed, PurgeInv, NEW i \in Instances,
         ReadNet(i) \/ Put(i) \/ SaveNet(i) \/ SaveKeys(i)
  PROVE  PurgeInv'
<1>1. /\ mem \in [Instances -> Object] /\ mem[i] \in Object /\ mem[i].net \in Net
      /\ server \in Net /\ files \in Directory
      /\ UNCHANGED <<server, purged>>
  BY DEF Typed, Object, ReadNet, Put, SaveNet, SaveKeys, serverVars
<1>2. server.gen # 0 /\ server.rev # 0 /\ (purged => Fit(at[i], mem[i]))
  BY DEF PurgeInv
<1>3. /\ {"net", "put", "invalidate"} \cap (Telling \cup {"saveNet", "saveKeys"}) = {}
      /\ {"saveNet", "saveKeys"} \subseteq Telling
  BY DEF Telling
<1>4. ASSUME NEW net \in Net, NEW told \in BOOLEAN, purged => net.gen = server.gen,
             NEW q, GoesOn(i, Parsed(mem[i], net, told), q), UNCHANGED files
      PROVE  PurgeInv'
  <2> DEFINE n == Parsed(mem[i], net, told)
  <2>1. purged => /\ GoodKeys(n.keys, n.todo) /\ n.net.gen = server.gen
                  /\ InQ(n.keys, Newest) \/ InQ(n.todo, Newest)
    BY <1>1, <1>2, <1>4, ParsedFits DEF Fit
  <2>2. n \in Object
    BY <1>1, ParsedTyped
  <2>3. GoesOn(i, n, q)
    BY <1>4
  <2> HIDE DEF n
  <2>4. purged => \E s, m : Goto(i, s) /\ mem' = [mem EXCEPT ![i] = m] /\ Fit(s, m)
    BY <2>1, <2>2, <2>3, GoesOnFits DEF GoodNet
  <2>5. \E s, m : Goto(i, s) /\ mem' = [mem EXCEPT ![i] = m]
    BY <2>3 DEF GoesOn
  <2>6. \E s, m : Goto(i, s) /\ mem' = [mem EXCEPT ![i] = m] /\ (purged => Fit(s, m))
    BY <2>4, <2>5
  <2> QED BY <1>1, <1>4, <2>6, MovesFit
<1>5. CASE SaveNet(i) \/ SaveKeys(i)
  <2>1. /\ at[i] \in {"saveNet", "saveKeys"} /\ at[i] \in Writing
        /\ \/ Write(i) /\ GoesOn(i, mem[i], Tail(lockQ))
           \/ EndLocked(i, "corrupt") /\ UNCHANGED files
    BY <1>5 DEF SaveNet, SaveKeys, In, Unwritable, Writing
  <2>2. CASE Write(i) /\ GoesOn(i, mem[i], Tail(lockQ))
    <3>1. purged => \E s, m : Goto(i, s) /\ mem' = [mem EXCEPT ![i] = m] /\ Fit(s, m)
      BY <1>1, <1>2, <1>3, <2>1, <2>2, GoesOnFits DEF Fit
    <3>2. \E s, m : Goto(i, s) /\ mem' = [mem EXCEPT ![i] = m]
      BY <2>2 DEF GoesOn
    <3>3. \E s, m : Goto(i, s) /\ mem' = [mem EXCEPT ![i] = m] /\ (purged => Fit(s, m))
      BY <3>1, <3>2
    <3> QED BY <1>1, <2>1, <2>2, <3>3, MovesFit
  <2> QED BY <1>1, <2>1, <2>2, EndsFit
<1>6. CASE Put(i)
  <2>1. /\ at[i] = "put" /\ UNCHANGED files
        /\ \/ \E how : Breaks(i, how)
           \/ Goto(i, "invalidate") /\ UNCHANGED mem
           \/ /\ mem[i].net.rev = server.rev
              /\ GoesOn(i, Parsed(mem[i], mem[i].net, TRUE), lockQ)
           \/ mem[i].net.rev # 0 /\ GoesOn(i, Parsed(mem[i], mem[i].net, FALSE), lockQ)
           \/ Goto(i, "saveNet") /\ mem' = [mem EXCEPT ![i] = Parsed(mem[i], server, TRUE)]
    BY <1>6 DEF Put, Answers, PutFails, Lock, diskVars
  <2>2. CASE \E how : Breaks(i, how)
    BY <1>1, <2>1, <2>2, EndsFit
  <2>3. CASE Goto(i, "invalidate") /\ UNCHANGED mem
    BY <1>1, <1>3, <2>1, <2>3, KeepsFit
  <2>4. CASE /\ mem[i].net.rev = server.rev
             /\ GoesOn(i, Parsed(mem[i], mem[i].net, TRUE), lockQ)
    <3>1. purged => mem[i].net.gen = server.gen
      BY <1>2, <2>4 DEF Fit, GoodNet, NoNet
    <3> QED BY <1>1, <1>4, <2>1, <2>4, <3>1
  <2>5. CASE mem[i].net.rev # 0 /\ GoesOn(i, Parsed(mem[i], mem[i].net, FALSE), lockQ)
    <3>1. purged => mem[i].net.gen = server.gen
      BY <1>2, <2>5 DEF Fit, GoodNet, NoNet
    <3> QED BY <1>1, <1>4, <2>1, <2>5, <3>1
  <2>6. CASE Goto(i, "saveNet") /\ mem' = [mem EXCEPT ![i] = Parsed(mem[i], server, TRUE)]
    <3> DEFINE n == Parsed(mem[i], server, TRUE)
    <3>1. purged => /\ GoodKeys(n.keys, n.todo) /\ n.net.gen = server.gen
                    /\ InQ(n.keys, Newest) \/ InQ(n.todo, Newest)
      BY <1>1, <1>2, ParsedFits DEF Fit
    <3>2. mem' = [mem EXCEPT ![i] = n]
      BY <2>6
    <3> HIDE DEF n
    <3>3. purged => Fit("saveNet", n)
      BY <3>1 DEF Fit, GoodNet
    <3> QED BY <1>1, <2>1, <2>6, <3>2, <3>3, MovesFit
  <2> QED BY <2>1, <2>2, <2>3, <2>4, <2>5, <2>6
<1>7. CASE ReadNet(i)
  <2> DEFINE v == files.data.net
  <2>1. /\ at[i] = "net" /\ UNCHANGED files
        /\ \/ \E how : EndLocked(i, how)
           \/ Goto(i, "put") /\ UNCHANGED mem
           \/ v \notin {Torn, None} /\ GoesOn(i, Parsed(mem[i], v, FALSE), Tail(lockQ))
           \/ v \notin {Torn, None} /\ Goto(i, "put") /\ Learns(i, "net", v)
    BY <1>7 DEF ReadNet, In, Unlocked, diskVars
  <2>2. v \notin {Torn, None} => v \in Net /\ (purged => v.gen = server.gen)
    BY <1>1, FilesHold DEF PurgeInv, FilesFit
  <2> HIDE DEF v
  <2>3. CASE \E how : EndLocked(i, how)
    BY <1>1, <2>1, <2>3, EndsFit
  <2>4. CASE Goto(i, "put") /\ UNCHANGED mem
    BY <1>1, <1>3, <2>1, <2>4, KeepsFit
  <2>5. CASE v \notin {Torn, None} /\ GoesOn(i, Parsed(mem[i], v, FALSE), Tail(lockQ))
    BY <1>4, <2>1, <2>2, <2>5
  <2>6. CASE v \notin {Torn, None} /\ Goto(i, "put") /\ Learns(i, "net", v)
    <3> DEFINE m == [mem[i] EXCEPT !.net = v]
    <3>1. m.keys = mem[i].keys /\ m.todo = mem[i].todo /\ m.net = v
      BY <1>1 DEF Object
    <3>2. mem' = [mem EXCEPT ![i] = m]
      BY <2>6 DEF Learns
    <3> HIDE DEF m
    <3>3. purged => Fit("put", m)
      BY <1>2, <1>3, <2>1, <2>2, <2>6, <3>1 DEF Fit, GoodNet
    <3> QED BY <1>1, <2>1, <2>6, <3>2, <3>3, MovesFit
  <2> QED BY <2>1, <2>3, <2>4, <2>5, <2>6
<1> QED BY <1>5, <1>6, <1>7

\* Steps that bring no key and no network: a call goes on with those it has or
\* ends, and a file keeps them, loses them or gets those of a call.
LEMMA StaysFit ==
  ASSUME PurgeInv, server'.gen = server.gen, server'.rev # 0 \/ server' = server, purged' => purged,
         \A j \in Instances :
           \/ /\ at'[j] = at[j] /\ mem'[j].keys = mem[j].keys
              /\ mem'[j].todo = mem[j].todo /\ mem'[j].net = mem[j].net
           \/ at'[j] = "idle" /\ mem'[j] = NewNetwork(FALSE, 0),
         \/ files'.data.keys \in {files.data.keys, None, Torn}
         \/ \E j \in Instances : files'.data.keys = mem[j].keys,
         \/ files'.data.net \in {files.data.net, None, Torn}
         \/ \E j \in Instances : at[j] = "saveNet" /\ files'.data.net = mem[j].net
  PROVE  PurgeInv'
<1>1. SUFFICES ASSUME purged' PROVE FilesFit' /\ \A j \in Instances : Fit(at[j], mem[j])'
  BY DEF PurgeInv
<1>2. purged /\ FilesFit /\ \A j \in Instances : Fit(at[j], mem[j])
  BY <1>1 DEF PurgeInv
<1>3. ASSUME NEW j \in Instances PROVE Fit(at[j], mem[j])'
  <2>1. PICK t, n : t = at'[j] /\ n = mem'[j]
    OBVIOUS
  <2>2. Fit(t, n)
    <3>1. CASE /\ t = at[j] /\ n.keys = mem[j].keys
               /\ n.todo = mem[j].todo /\ n.net = mem[j].net
      BY <1>2, <3>1 DEF Fit
    <3>2. CASE t = "idle" /\ n = NewNetwork(FALSE, 0)
      BY <3>2, NewFits
    <3> QED BY <2>1, <3>1, <3>2
  <2>3. Fit(t, n)'
    BY <2>2, SameServer
  <2> QED BY <2>1, <2>3 DEF Fit
<1>4. FilesFit'
  <2>1. PICK k : k = files'.data.keys
    OBVIOUS
  <2>2. \A j \in Instances : GoodKeys(mem[j].keys, <<>>)
    BY <1>2, GoodAlone DEF Fit
  <2>3. k \notin {None, Torn} => GoodKeys(k, <<>>)
    BY <1>2, <2>1, <2>2 DEF FilesFit
  <2>4. k \notin {None, Torn} => GoodKeys(k, <<>>)'
    BY <2>3, SameServer
  <2>5. files'.data.net \notin {None, Torn} => files'.data.net.gen = server.gen
    BY <1>2 DEF FilesFit, Fit
  <2> QED BY <2>1, <2>4, <2>5 DEF FilesFit, GoodKeys
<1> QED BY <1>3, <1>4

LEMMA NoEntryIs == NoEntry.keys = None /\ NoEntry.net = None
BY DEF NoEntry

LEMMA EnterFit ==
  ASSUME CacheInv, Typed, PurgeInv, NEW i \in Instances, Enter(i)
  PROVE  PurgeInv'
<1>1. UNCHANGED <<at, mem, server, purged>> /\ files \in Directory
  BY DEF Enter, callVars, serverVars, Typed
<1> DEFINE e == EnsureCacheValid(files)
<1>2. files' = [e EXCEPT !.entry = @ \/ at[i] # "invalidate"]
  BY DEF Enter
<1>3. e \in Directory /\ (e.data = files.data \/ e.data = NoEntry)
  BY <1>1, ValidTyped DEF EnsureCacheValid
<1> HIDE DEF e
<1>4. files'.data = e.data
  BY <1>2, <1>3 DEF Directory
<1>5. /\ files'.data.keys \in {files.data.keys, None}
      /\ files'.data.net \in {files.data.net, None}
  BY <1>3, <1>4, NoEntryIs
<1> QED BY <1>1, <1>5, StaysFit

\* The refusal: nobody else has anything, and the files are gone.
LEMMA InvalidateFit ==
  ASSUME CacheInv, Typed, HealInv, PurgeInv, NEW i \in Instances, Invalidate(i)
  PROVE  PurgeInv'
<1>1. /\ End(i, "update") /\ files' = Deleted(files) /\ UNCHANGED server
      /\ purged' = \A j \in Instances \ {i} : at[j] = "idle"
      /\ files \in Directory
  BY DEF Invalidate, EndLocked, serverVars, Typed
<1>2. files'.data = NoEntry
  BY <1>1 DEF Deleted, Directory
<1>3. /\ at'[i] = "idle" /\ mem'[i] = NewNetwork(FALSE, 0)
      /\ \A j \in Instances \ {i} : at'[j] = at[j] /\ mem'[j] = mem[j]
  BY <1>1 DEF End, Goto, CacheInv, Typed
<1>4. purged' => \A j \in Instances : at'[j] = "idle" /\ mem'[j] = NewNetwork(FALSE, 0)
  BY <1>1, <1>3 DEF HealInv, Idles
<1>5. SUFFICES ASSUME purged' PROVE FilesFit' /\ \A j \in Instances : Fit(at[j], mem[j])'
  BY <1>1 DEF PurgeInv
<1>6. FilesFit'
  <2>1. files'.data.keys = None /\ files'.data.net = None
    BY <1>2, NoEntryIs
  <2> QED BY <2>1 DEF FilesFit
<1>7. ASSUME NEW j \in Instances PROVE Fit(at[j], mem[j])'
  <2>1. PICK t, n : t = at'[j] /\ n = mem'[j]
    OBVIOUS
  <2>2. Fit(t, n)
    BY <1>4, <1>5, <2>1, NewFits
  <2>3. Fit(t, n)'
    BY <1>1, <2>2, SameServer
  <2> QED BY <2>1, <2>3 DEF Fit
<1> QED BY <1>6, <1>7

LEMMA BeginFit ==
  ASSUME CacheInv, Typed, PurgeInv, NEW i \in Instances, NEW offline \in BOOLEAN,
         Begin(i, offline)
  PROVE  PurgeInv'
<1>1. /\ Goto(i, "uuid") /\ mem' = [mem EXCEPT ![i] = NewNetwork(offline, server.rev)]
      /\ UNCHANGED <<server, purged, files>>
  BY DEF Begin, Lock, diskVars, serverVars
<1> QED BY <1>1, NewFits, MovesFit

\* A call that is cut off leaves its file written, torn or as it was.
LEMMA CutFit ==
  ASSUME CacheInv, Typed, PurgeInv, Crash \/ \E i \in Instances : Cancel(i)
  PROVE  PurgeInv'
<1>1. files \in Directory /\ files.data \in Data
  BY FilesHold DEF Typed
<1>2. \A f \in HalfValid(files) : /\ f.data.keys \in {files.data.keys, None}
                                  /\ f.data.net \in {files.data.net, None}
  BY NoEntryIs DEF HalfValid
<1>3. ASSUME NEW I, Stops(I)
      PROVE  /\ server' = server /\ (purged' => purged)
             /\ \A j \in Instances :
                  \/ /\ at'[j] = at[j] /\ mem'[j].keys = mem[j].keys
                     /\ mem'[j].todo = mem[j].todo /\ mem'[j].net = mem[j].net
                  \/ at'[j] = "idle" /\ mem'[j] = NewNetwork(FALSE, 0)
  BY <1>3 DEF Stops, serverVars
<1>4. ASSUME NEW i \in Instances, Cancel(i) PROVE PurgeInv'
  <2>1. /\ Stops({i})
        /\ \/ files' \in HalfValid(files) \/ files' = files
           \/ at[i] \in Writing /\ Write(i)
    BY <1>4 DEF Cancel
  <2>2. /\ \/ files'.data.keys \in {files.data.keys, None}
           \/ \E j \in Instances : files'.data.keys = mem[j].keys
        /\ \/ files'.data.net \in {files.data.net, None}
           \/ \E j \in Instances : at[j] = "saveNet" /\ files'.data.net = mem[j].net
    <3>1. CASE files' \in HalfValid(files) \/ files' = files
      BY <1>2, <3>1
    <3>2. CASE at[i] \in Writing /\ Write(i)
      BY <3>2, WrittenFits
    <3> QED BY <2>1, <3>1, <3>2
  <2> QED BY <1>3, <2>1, <2>2, StaysFit
<1>5. CASE Crash
  <2>1. /\ Stops(Instances)
        /\ \/ files' = files \/ files' \in HalfValid(files)
           \/ \E s \in Writing : files' = [files EXCEPT !.data[FileOf[s]] = Torn]
    BY <1>5 DEF Crash
  <2>2. ASSUME NEW s \in Writing, files' = [files EXCEPT !.data[FileOf[s]] = Torn]
        PROVE  /\ files'.data.keys \in {files.data.keys, Torn}
               /\ files'.data.net \in {files.data.net, Torn}
    <3>1. FileOf[s] \in {"id", "session", "net", "keys", "types"}
      BY DEF FileOf, Writing
    <3>2. files'.data = [files.data EXCEPT ![FileOf[s]] = Torn]
      BY <1>1, <2>2 DEF Directory
    <3> QED BY <1>1, <3>1, <3>2 DEF Data
  <2>3. /\ files'.data.keys \in {files.data.keys, None, Torn}
        /\ files'.data.net \in {files.data.net, None, Torn}
    BY <1>2, <2>1, <2>2
  <2> QED BY <1>3, <2>1, <2>3, StaysFit
<1> QED BY <1>4, <1>5

LEMMA WorldFit ==
  ASSUME CacheInv, Typed, PurgeInv,
         DeletionEnds \/ Renew \/ Expires \/ \E i \in Instances : EnterPassword(i)
  PROVE  PurgeInv'
<1>1. CASE DeletionEnds
  <2>1. /\ files' = Deleted(files) /\ files \in Directory
        /\ UNCHANGED <<at, mem, server, purged>>
    BY <1>1 DEF DeletionEnds, callVars, serverVars, Typed
  <2>2. files'.data = NoEntry
    BY <2>1 DEF Deleted, Directory
  <2> QED BY <2>1, <2>2, NoEntryIs, StaysFit
<1>2. CASE Renew
  <2>1. /\ UNCHANGED <<at, mem, files>> /\ server \in Net
        /\ \/ server' = [rev |-> server.rev + 1, gen |-> server.gen + 1] /\ purged' = FALSE
           \/ server' = [server EXCEPT !.rev = @ + 1] /\ UNCHANGED purged
    BY <1>2 DEF Renew, diskVars, Typed
  <2>2. CASE server' = [rev |-> server.rev + 1, gen |-> server.gen + 1] /\ purged' = FALSE
    <3>1. /\ server'.gen = server.gen + 1 /\ server.gen \in Nat
          /\ server'.rev = server.rev + 1 /\ server.rev \in Nat
      BY <2>1, <2>2 DEF Net
    <3>2. server'.gen # 0 /\ server'.rev # 0
      BY <3>1
    <3> QED BY <2>2, <3>2 DEF PurgeInv
  <2>3. CASE server' = [server EXCEPT !.rev = @ + 1] /\ UNCHANGED purged
    <3>1. server'.gen = server.gen /\ server'.rev = server.rev + 1 /\ server.rev \in Nat
      BY <2>1, <2>3 DEF Net
    <3>2. server'.rev # 0
      BY <3>1
    <3> QED BY <2>1, <2>3, <3>1, <3>2, StaysFit
  <2> QED BY <2>1, <2>2, <2>3
<1>3. CASE Expires
  <2>1. /\ UNCHANGED <<at, server, purged>>
        /\ \/ UNCHANGED <<mem, files>>
           \/ /\ files' = [files EXCEPT !.data.types = "unknown"]
              /\ mem' = [i \in Instances |-> [mem[i] EXCEPT !.types = "unknown"]]
    BY <1>3 DEF Expires
  <2>2. CASE UNCHANGED <<mem, files>>
    BY <2>1, <2>2, StaysFit
  <2>3. CASE /\ files' = [files EXCEPT !.data.types = "unknown"]
             /\ mem' = [i \in Instances |-> [mem[i] EXCEPT !.types = "unknown"]]
    <3>1. files \in Directory /\ files.data \in Data
      BY FilesHold DEF Typed
    <3>2. files'.data = [files.data EXCEPT !.types = "unknown"]
      BY <2>3, <3>1 DEF Directory
    <3>3. files'.data.keys = files.data.keys /\ files'.data.net = files.data.net
      BY <3>1, <3>2 DEF Data
    <3>4. ASSUME NEW j \in Instances
          PROVE  /\ mem'[j].keys = mem[j].keys /\ mem'[j].todo = mem[j].todo
                 /\ mem'[j].net = mem[j].net
      <4>1. mem[j] \in Object /\ mem'[j] = [mem[j] EXCEPT !.types = "unknown"]
        BY <2>3 DEF Typed
      <4> QED BY <4>1 DEF Object
    <3> QED BY <2>1, <3>3, <3>4, StaysFit
  <2> QED BY <2>1, <2>2, <2>3
<1>4. ASSUME NEW i \in Instances, EnterPassword(i) PROVE PurgeInv'
  <2>1. UNCHANGED <<at, mem, files, server, purged>>
    BY <1>4 DEF EnterPassword, callVars, diskVars, serverVars
  <2> QED BY <2>1, StaysFit
<1> QED BY <1>1, <1>2, <1>3, <1>4

LEMMA PurgeInit == Init => PurgeInv
<1> SUFFICES ASSUME Init PROVE PurgeInv
  OBVIOUS
<1>1. server = [rev |-> 1, gen |-> 1] /\ purged = FALSE
  BY DEF Init
<1> QED BY <1>1 DEF PurgeInv

LEMMA PurgeNext == CacheInv /\ Typed /\ HealInv /\ PurgeInv /\ [Next]_vars => PurgeInv'
<1> SUFFICES ASSUME CacheInv, Typed, HealInv, PurgeInv, [Next]_vars PROVE PurgeInv'
  OBVIOUS
<1>1. ASSUME NEW i \in Instances, CallStep(i) PROVE PurgeInv'
  BY <1>1, LoginFit, LoadKeysFit, UpdateFit, EnterFit, InvalidateFit DEF CallStep
<1>2. ASSUME NEW i \in Instances, NEW offline \in BOOLEAN, Begin(i, offline)
      PROVE  PurgeInv'
  BY <1>2, BeginFit
<1>3. CASE Crash \/ \E i \in Instances : Cancel(i)
  BY <1>3, CutFit
<1>4. CASE DeletionEnds \/ Renew \/ Expires \/ \E i \in Instances : EnterPassword(i)
  BY <1>4, WorldFit
<1>5. CASE UNCHANGED vars
  <2>1. UNCHANGED <<at, mem, files, server, purged>>
    BY <1>5 DEF vars, callVars, diskVars, serverVars
  <2> QED BY <2>1, StaysFit
<1> QED BY <1>1, <1>2, <1>3, <1>4, <1>5 DEF Next

\* getKey finds the key of the highest role: the renewed one, if it is there.
LEMMA NewestChosen ==
  ASSUME Typed, server.gen # 0, NEW keys \in Seq(Key), NEW todo, GoodKeys(keys, todo),
         InQ(keys, Newest)
  PROVE  GetKey(keys).gen = server.gen
<1> DEFINE Best(a) == \A b \in DOMAIN keys :
                        \/ keys[b].role < keys[a].role
                        \/ keys[b].role = keys[a].role /\ a <= b
<1>1. DOMAIN keys = 1..Len(keys)
  OBVIOUS
<1>2. PICK r \in 1..Len(keys) : keys[r] = Newest
  BY DEF InQ
<1>3. /\ OldKey.role = 1 /\ Newest.role = 3 /\ Newest.gen = server.gen
  BY DEF OldKey, Newest, NewKey
<1>4. \A b \in 1..Len(keys) : keys[b] = OldKey \/ (keys[b] = Newest /\ b = r)
  BY <1>2 DEF GoodKeys, InQ, Distinct
<1>5. Best(r)
  BY <1>1, <1>2, <1>3, <1>4
<1>6. PICK c : c \in DOMAIN keys /\ Best(c) /\ GetKey(keys) = keys[c]
  <2> DEFINE c == CHOOSE a \in DOMAIN keys : Best(a)
  <2>1. c \in DOMAIN keys /\ Best(c)
    BY <1>1, <1>2, <1>5
  <2>2. GetKey(keys) = keys[c]
    BY DEF GetKey
  <2> QED BY <2>1, <2>2
<1>7. keys[r].role < keys[c].role \/ keys[r].role = keys[c].role
  BY <1>1, <1>2, <1>6
<1>8. keys[c] = Newest
  BY <1>1, <1>2, <1>3, <1>4, <1>6, <1>7
<1> QED BY <1>3, <1>6, <1>8

\* Once the cache was invalidated after a change of password, with no other call
\* under way, a call that the server answered goes on with a key of the new
\* password, even if the renewed key keeps the id of the old one.
THEOREM KeysRenewed == Spec => []RenewedKey
<1>1. Typed /\ PurgeInv => RenewedKey
  <2>1. SUFFICES ASSUME Typed, PurgeInv, NEW i \in Instances, at[i] = "saveTypes", purged
                 PROVE  GetKey(mem[i].keys).gen = server.gen
    BY DEF RenewedKey
  <2>2. "saveTypes" \in Telling
    BY DEF Telling
  <2>3. server.gen # 0 /\ Fit("saveTypes", mem[i]) /\ mem[i].keys \in Seq(Key)
    BY <2>1 DEF PurgeInv, Typed, Object
  <2>4. GoodKeys(mem[i].keys, mem[i].todo) /\ InQ(mem[i].keys, Newest)
    BY <2>2, <2>3, NoneIn DEF Fit
  <2> QED BY <2>1, <2>3, <2>4, NewestChosen
<1> QED BY <1>1, CacheInit, CacheNext, TypedInit, TypedNext, HealInit, HealNext,
           PurgeInit, PurgeNext, PTL DEF Spec
=============================================================================

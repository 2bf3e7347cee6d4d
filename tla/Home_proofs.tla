---------------------------- MODULE Home_proofs ----------------------------
(***************************************************************************)
(* Proofs about Home: what the codec writes and the packets carry is what  *)
(* the library reads, so that its units hold values its setters accept,    *)
(* agree with fixtures that are quiet, and show sensors that are real;     *)
(* entities show the units as they are; every press of a button is one     *)
(* event; and a motor that is told a position takes it and keeps the rest. *)
(***************************************************************************)
EXTENDS Home, UnitCodec_proofs

-----------------------------------------------------------------------------
(* Reports.                                                                *)

\* The recursion of _parseUnitStates, from the end of the packet.
States(f, data) ==
  f = [pos \in 1..(Len(data) + 25) |->
         IF pos > Len(data) - 3 THEN <<>>
         ELSE <<StateAt(data, pos)>> \o f[NextState(data, pos)]]

\* A state takes at least four bytes and at most 25.
LEMMA NextStateIs ==
  ASSUME NEW data \in Seq(Nat), NEW pos \in 1..Len(data), pos <= Len(data) - 3
  PROVE  NextState(data, pos) \in (pos + 4)..(pos + 25)
<1>1. data[pos + 1] \in Nat /\ data[pos + 2] \in Nat
  BY SMTT(40), ElementOfSeq
<1>2. \A b \in Nat : Bit(b, 2) \in {0, 1} /\ Bit(b, 3) \in {0, 1} /\ Bit(b, 4) \in {0, 1}
  <2>1. 2 ^ 2 = 4 /\ 2 ^ 3 = 8 /\ 2 ^ 4 = 16
    OBVIOUS
  <2> QED BY <2>1 DEF Bit
<1>3. \A b \in Nat : Size(b) \in 1..16 /\ Padding(b) \in 0..3
  BY DEF Size, Padding
<1>4. PICK a, b \in Nat : a = data[pos + 1] /\ b = data[pos + 2]
  BY <1>1
<1>5. PICK x, y, z \in {0, 1} : x = Bit(a, 2) /\ y = Bit(a, 3) /\ z = Bit(a, 4)
  BY <1>2
<1>6. PICK m \in 1..16, p \in 0..3 : m = Size(b) /\ p = Padding(a)
  BY <1>3
<1>7. StateEnd(data, pos) = pos + 3 + x + y + z + m - 1
  BY <1>4, <1>5, <1>6 DEF StateEnd, StateStart
<1>8. NextState(data, pos) = StateEnd(data, pos) + 1 + p
  BY <1>4, <1>6 DEF NextState
<1> QED BY <1>7, <1>8

LEMMA StatesExist ==
  ASSUME NEW data \in Seq(Nat)
  PROVE  \E f : States(f, data)
<1> DEFINE N == Len(data) + 25
           S(f, lo) == f = [pos \in lo..N |->
                          IF pos > Len(data) - 3 THEN <<>>
                          ELSE <<StateAt(data, pos)>> \o f[NextState(data, pos)]]
           T == {k \in Nat : k < N => \E f : S(f, N - k)}
<1>0. Len(data) \in Nat /\ N \in Nat
  BY LenProperties
<1>1. 0 \in T
  <2> DEFINE h == [pos \in (N - 0)..N |-> <<>>]
  <2>1. S(h, N - 0)
    BY <1>0
  <2> HIDE DEF h
  <2> QED BY <2>1
<1>2. ASSUME NEW k \in Nat, k \in T PROVE k + 1 \in T
  <2> SUFFICES ASSUME k + 1 < N PROVE \E f : S(f, N - (k + 1))
    <3>1. k + 1 \in Nat
      OBVIOUS
    <3> HIDE DEF S
    <3> QED BY <3>1
  <2> DEFINE lo == N - (k + 1)
  <2>1. PICK g : S(g, lo + 1)
    <3>1. N - k = lo + 1
      BY <1>0
    <3> QED BY SMTT(40), <1>0, <1>2, <3>1
  <2>2. lo \in 1..N
    BY <1>0
  <2> HIDE DEF lo
  <2> DEFINE h == [pos \in lo..N |->
                IF pos # lo THEN g[pos]
                ELSE IF pos > Len(data) - 3 THEN <<>>
                ELSE <<StateAt(data, pos)>> \o g[NextState(data, pos)]]
  <2>3. ASSUME NEW pos \in lo..N, ~(pos > Len(data) - 3)
        PROVE  NextState(data, pos) \in (lo + 1)..N
    <3>1. pos \in 1..Len(data) /\ pos <= Len(data) - 3
      BY <1>0, <2>2, <2>3
    <3>2. NextState(data, pos) \in (pos + 4)..(pos + 25)
      BY <3>1, NextStateIs
    <3> QED BY SMTT(40), <1>0, <2>2, <3>1, <3>2
  <2>4. ASSUME NEW pos \in lo..N
        PROVE  h[pos] = IF pos > Len(data) - 3 THEN <<>>
                        ELSE <<StateAt(data, pos)>> \o h[NextState(data, pos)]
    <3>1. CASE pos > Len(data) - 3
      BY <1>0, <2>1, <2>2, <3>1
    <3>2. CASE ~(pos > Len(data) - 3)
      <4>1. NextState(data, pos) \in lo..N /\ NextState(data, pos) # lo
        BY SMTT(40), <1>0, <2>2, <2>3, <3>2
      <4>2. h[NextState(data, pos)] = g[NextState(data, pos)]
        BY <4>1
      <4>3. CASE pos = lo
        BY <3>2, <4>2, <4>3
      <4>4. CASE pos # lo
        <5>1. pos \in (lo + 1)..N
          BY <1>0, <2>2, <4>4
        <5> QED BY <2>1, <3>2, <4>2, <4>4, <5>1
      <4> QED BY <4>3, <4>4
    <3> QED BY <3>1, <3>2
  <2>5. S(h, lo)
    BY <2>4
  <2> HIDE DEF h
  <2> QED BY <2>5 DEF lo
<1> HIDE DEF T
<1>3. Len(data) + 24 \in T
  BY <1>0, <1>1, <1>2, Induction
<1>4. Len(data) + 24 < N /\ N - (Len(data) + 24) = 1
  BY <1>0
<1>5. PICK f : S(f, N - (Len(data) + 24))
  BY <1>3, <1>4 DEF T
<1> QED BY <1>4, <1>5 DEF States

LEMMA ParseIs ==
  ASSUME NEW data \in Seq(Nat)
  PROVE  \E f : States(f, data) /\ parseUnitStates(data) = f[1]
<1> DEFINE from[pos \in 1..(Len(data) + 25)] ==
             IF pos > Len(data) - 3 THEN <<>>
             ELSE <<StateAt(data, pos)>> \o from[NextState(data, pos)]
<1>1. parseUnitStates(data) = from[1]
  BY SMTT(40) DEF parseUnitStates
<1>2. States(from, data)
  <2>1. PICK f : States(f, data)
    BY StatesExist
  <2> QED BY <2>1 DEF States
<1> HIDE DEF from
<1> QED BY <1>1, <1>2
-----------------------------------------------------------------------------
(* What _parseUnitStates yields is a sequence of states.                   *)
StateRecords == [id : Nat, on : BOOLEAN, online : BOOLEAN, state : Seq(Nat)]

LEMMA StateAtTyped ==
  ASSUME NEW data \in Seq(Nat), NEW pos \in 1..Len(data), pos <= Len(data) - 3
  PROVE  StateAt(data, pos) \in StateRecords
<1>1. PICK n \in Nat : n = Len(data)
  BY LenProperties
<1>2. data[pos] \in Nat /\ data[pos + 1] \in Nat /\ data[pos + 2] \in Nat
  BY <1>1, ElementOfSeq
<1>3. StateStart(data, pos) \in Nat /\ StateEnd(data, pos) \in Nat /\ StateStart(data, pos) >= 1
  <2>1. PICK a, b \in Nat : a = data[pos + 1] /\ b = data[pos + 2]
    BY <1>2
  <2>2. \A k \in Nat : Bit(k, 2) \in Nat /\ Bit(k, 3) \in Nat /\ Bit(k, 4) \in Nat
    <3>1. 2 ^ 2 = 4 /\ 2 ^ 3 = 8 /\ 2 ^ 4 = 16
      OBVIOUS
    <3> QED BY <3>1 DEF Bit
  <2>3. PICK x, y, z \in Nat : x = Bit(a, 2) /\ y = Bit(a, 3) /\ z = Bit(a, 4)
    BY <2>2
  <2>4. PICK s \in 1..16 : s = Size(b)
    BY DEF Size
  <2>5. StateStart(data, pos) = pos + 3 + x + y + z
    BY <2>1, <2>3 DEF StateStart
  <2>6. StateEnd(data, pos) = pos + 3 + x + y + z + s - 1
    BY <2>1, <2>4, <2>5 DEF StateEnd
  <2> QED BY <2>5, <2>6
<1>4. PICK a, e \in Nat : a = StateStart(data, pos) /\ e = StateEnd(data, pos) /\ a >= 1
  BY <1>3
<1>5. PICK m \in Nat : m = Min({e, Len(data)}) /\ m <= n
  <2>1. Min({e, n}) \in {e, n} /\ \A k \in {e, n} : Min({e, n}) <= k
    BY MinIs
  <2> QED BY <1>1, <2>1
<1>6. SubSeq(data, a, m) \in Seq(Nat)
  <2>1. \A i \in a..m : data[i] \in Nat
    <3> SUFFICES ASSUME NEW i \in a..m PROVE data[i] \in Nat
      OBVIOUS
    <3>1. i \in 1..Len(data)
      BY <1>1, <1>4, <1>5
    <3> QED BY <3>1, ElementOfSeq
  <2> QED BY <2>1, SubSeqProperties
<1> QED BY <1>2, <1>4, <1>5, <1>6 DEF StateAt, StateRecords

LEMMA StatesTyped ==
  ASSUME NEW data \in Seq(Nat), NEW f, States(f, data),
         NEW from \in 1..(Len(data) + 25)
  PROVE  f[from] \in Seq(StateRecords)
<1>1. States(f, data)
  OBVIOUS
<1>2. PICK n \in Nat : n = Len(data)
  BY LenProperties
<1> DEFINE N == n + 25
           T == {k \in Nat : k < N => f[N - k] \in Seq(StateRecords)}
           L == {k \in Nat : \A j \in 0..k : j \in T}
<1>3. ASSUME NEW k \in Nat, \A j \in Nat : j < k => j \in T PROVE k \in T
  <2> SUFFICES ASSUME k < N PROVE f[N - k] \in Seq(StateRecords)
    OBVIOUS
  <2> DEFINE pos == N - k
  <2>1. pos \in 1..N /\ pos \in 1..(Len(data) + 25)
    BY <1>2
  <2>2. f[pos] = IF pos > Len(data) - 3 THEN <<>>
                 ELSE <<StateAt(data, pos)>> \o f[NextState(data, pos)]
    BY <1>1, <2>1 DEF States
  <2>3. CASE pos > Len(data) - 3
    BY <2>2, <2>3, EmptySeq
  <2>4. CASE ~(pos > Len(data) - 3)
    <3>1. pos \in 1..Len(data) /\ pos <= Len(data) - 3
      BY <1>2, <2>1, <2>4
    <3> HIDE DEF pos
    <3>2. NextState(data, pos) \in (pos + 4)..(pos + 25)
      BY <3>1, NextStateIs
    <3>3. StateAt(data, pos) \in StateRecords
      BY <3>1, StateAtTyped
    <3>4. PICK x \in (pos + 4)..(pos + 25) : x = NextState(data, pos)
      BY <3>2
    <3>5. f[x] \in Seq(StateRecords)
      <4>1. N - x \in Nat /\ N - x < k /\ N - x < N /\ N - (N - x) = x
        BY <1>2, <2>1, <3>1 DEF pos
      <4>2. N - x \in T
        BY <1>3, <4>1
      <4> QED BY <4>1, <4>2
    <3>6. <<StateAt(data, pos)>> \in Seq(StateRecords)
      BY <3>3
    <3>7. <<StateAt(data, pos)>> \o f[x] \in Seq(StateRecords)
      BY <3>5, <3>6, ConcatProperties
    <3> QED BY <2>2, <2>4, <3>4, <3>7 DEF pos
  <2> QED BY <2>3, <2>4
<1> HIDE DEF T
<1>4. 0 \in L
  <2>1. 0 \in T
    BY <1>3
  <2> QED BY <2>1
<1>5. ASSUME NEW k \in Nat, k \in L PROVE k + 1 \in L
  <2>1. k + 1 \in T
    <3>1. \A j \in Nat : j < k + 1 => j \in T
      BY <1>5
    <3> QED BY <1>3, <3>1
  <2> QED BY <1>5, <2>1
<1>6. PICK k \in Nat : k < N /\ N - k = from
  <2>1. N - from \in Nat /\ N - from < N /\ N - (N - from) = from
    BY <1>2
  <2> QED BY <2>1
<1>7. k \in T
  <2> HIDE DEF L
  <2>1. k \in L
    BY <1>4, <1>5, Induction
  <2> QED BY <2>1 DEF L
<1> QED BY <1>6, <1>7 DEF T

LEMMA ParseTyped ==
  ASSUME NEW data \in Seq(Nat)
  PROVE  parseUnitStates(data) \in Seq(StateRecords)
<1>1. PICK f : States(f, data) /\ parseUnitStates(data) = f[1]
  BY ParseIs
<1>2. 1 \in 1..(Len(data) + 25)
  BY LenProperties
<1> QED BY <1>1, <1>2, StatesTyped

-----------------------------------------------------------------------------
(* Taking reports.                                                         *)

\* The fold of TakeReports.
Takes(f, reports, n) ==
  f = [i \in 0..n |->
         IF i = 0 THEN [ok |-> TRUE, told |-> FALSE, unit |-> unit]
         ELSE TakeReport(f[i - 1], reports[i])]

LEMMA TakesExist ==
  ASSUME NEW reports, NEW n \in Nat
  PROVE  \E f : Takes(f, reports, n)
<1> DEFINE T == {m \in Nat : \E f : Takes(f, reports, m)}
           first == [ok |-> TRUE, told |-> FALSE, unit |-> unit]
<1>1. 0 \in T
  <2> DEFINE h == [i \in 0..0 |-> first]
  <2>1. Takes(h, reports, 0)
    BY DEF Takes
  <2> HIDE DEF h
  <2> QED BY <2>1
<1>2. ASSUME NEW m \in Nat, m \in T PROVE m + 1 \in T
  <2>1. PICK g : Takes(g, reports, m)
    BY <1>2
  <2> DEFINE h == [i \in 0..(m + 1) |->
                IF i <= m THEN g[i] ELSE TakeReport(g[m], reports[m + 1])]
  <2>2. ASSUME NEW i \in 0..(m + 1)
        PROVE  h[i] = IF i = 0 THEN first ELSE TakeReport(h[i - 1], reports[i])
    <3>1. CASE i = 0
      BY <2>1, <3>1 DEF Takes
    <3>2. CASE i # 0 /\ i <= m
      <4>1. i \in 0..m /\ i - 1 \in 0..m
        BY <3>2
      <4>2. g[i] = TakeReport(g[i - 1], reports[i])
        BY <2>1, <3>2, <4>1 DEF Takes
      <4> QED BY <3>2, <4>1, <4>2
    <3>3. CASE i = m + 1
      BY <3>3
    <3> QED BY <3>1, <3>2, <3>3
  <2>3. Takes(h, reports, m + 1)
    BY <2>2 DEF Takes
  <2> HIDE DEF h
  <2> QED BY <2>3
<1> HIDE DEF T
<1>3. n \in T
  BY <1>1, <1>2, Induction
<1> QED BY <1>3 DEF T

LEMMA TakeReportsIs ==
  ASSUME NEW S, NEW reports \in Seq(S)
  PROVE  \E f : Takes(f, reports, Len(reports)) /\ TakeReports(reports) = f[Len(reports)]
<1> DEFINE after[i \in 0..Len(reports)] ==
             IF i = 0 THEN [ok |-> TRUE, told |-> FALSE, unit |-> unit]
             ELSE LET before == after[i - 1] IN TakeReport(before, reports[i])
<1>1. TakeReports(reports) = after[Len(reports)]
  BY DEF TakeReports
<1>2. Takes(after, reports, Len(reports))
  <2>1. Len(reports) \in Nat
    BY LenProperties
  <2>2. PICK f : Takes(f, reports, Len(reports))
    BY <2>1, TakesExist
  <2> QED BY <2>2 DEF Takes
<1> HIDE DEF after
<1> QED BY <1>1, <1>2
-----------------------------------------------------------------------------
(* What a packet leaves of a unit.                                         *)

\* A value the setters accept is all that decoding leaves in a field, also when it
\* ends with an exception.
LEMMA DecodeKeeps ==
  ASSUME NEW u \in Units, NEW st, StateOK(st), NEW bits
  PROVE  StateOK(Decode(Type[u], st, bits).state)
<1> DEFINE ty == Type[u]
           l == Len(ty.controls)
<1>1. DOMAIN ty.controls = 1..l /\ l \in Nat
  BY TypesAssumption
<1> HIDE DEF l, ty
<1>2. PICK n \in 0..l : \E f : Decodes(f, n, ty, st, bits)
  <2>1. Len(ty.controls) = l
    BY DEF l
  <2> QED BY <1>1, <2>1, DecodeIs
<1>a. PICK f : /\ Folds(f, ty, st, bits, n)
               /\ Decode(ty, st, bits).state = f[n]
               /\ \A i \in 1..n : ~Refused(ty.controls[i], bits)
  BY <1>2 DEF Decodes
<1> DEFINE T == {i \in Nat : i <= n => StateOK(f[i])}
<1>3. 0 \in T
  <2>1. f[0] = st
    BY <1>a DEF Folds
  <2> QED BY <2>1
<1>4. ASSUME NEW i \in Nat, i \in T PROVE i + 1 \in T
  <2> SUFFICES ASSUME i + 1 <= n PROVE StateOK(f[i + 1])
    OBVIOUS
  <2> DEFINE c == ty.controls[i + 1]
  <2>1. i + 1 \in 0..n /\ i + 1 # 0 /\ (i + 1) - 1 = i /\ i + 1 \in 1..n /\ i <= n
    OBVIOUS
  <2>2. f[i + 1] = ReadControl(ty, bits, f[i], c)
    BY <1>a, <2>1 DEF Folds
  <2>3. StateOK(f[i]) /\ ~Refused(c, bits)
    BY <1>a, <1>4, <2>1
  <2> HIDE DEF c
  <2> DEFINE s == f[i]
  <2>4. DOMAIN s = DOMAIN NoState /\ \A k \in Range(Field) : s[k] # None => InRange(k, s[k])
    BY <2>3 DEF StateOK
  <2> HIDE DEF s
  <2>5. CASE c.type = "SENSOR" /\ c.length = 0
    <3>1. ReadControl(ty, bits, s, c) = [s EXCEPT !.sensors = Tagged(ty, c, bits, @)]
      BY <2>5 DEF ReadControl
    <3>2. \A k \in Range(Field) : k # "sensors"
      BY FieldIs
    <3> DEFINE v == Tagged(ty, c, bits, s.sensors)
    <3>3. ReadControl(ty, bits, s, c) = [s EXCEPT !["sensors"] = v]
      BY <3>1
    <3> HIDE DEF v
    <3>4. StateOK([s EXCEPT !["sensors"] = v])
      BY <2>4, <3>2 DEF StateOK
    <3> QED BY <2>2, <3>3, <3>4 DEF s
  <2>6. CASE Reads(c) /\ ~(c.type = "SENSOR" /\ c.length = 0)
    <3> DEFINE v == Reading(c, Extract(c, bits))
               k == Field[c.type]
    <3>1. ReadControl(ty, bits, s, c) = [s EXCEPT ![k] = v]
      BY <2>6 DEF ReadControl
    <3>2. InRange(k, v)
      BY <2>3, <2>6 DEF Refused
    <3> HIDE DEF k, v
    <3>3. StateOK([s EXCEPT ![k] = v])
      BY <2>4, <3>2 DEF StateOK
    <3> QED BY <2>2, <3>1, <3>3 DEF s
  <2>7. CASE ~(Reads(c) /\ ~(c.type = "SENSOR" /\ c.length = 0)) /\ ~(c.type = "SENSOR" /\ c.length = 0)
    <3>1. ReadControl(ty, bits, s, c) = s
      BY <2>7 DEF ReadControl
    <3> QED BY <2>2, <2>3, <3>1 DEF s
  <2> QED BY <2>5, <2>6, <2>7
<1> HIDE DEF T
<1>5. n \in T
  BY <1>3, <1>4, Induction
<1> QED BY <1>a, <1>5 DEF T, ty

LEMMA NoStateOK == StateOK(NoState)
<1>1. \A k \in Range(Field) : NoState[k] = None
  <2> SUFFICES ASSUME NEW k \in Range(Field) PROVE NoState[k] = None
    OBVIOUS
  <2>1. k # "sensors"
    BY FieldIs
  <2> QED BY <2>1 DEF NoState
<1> QED BY <1>1 DEF StateOK

\* What holds of each of the library's units.
UnitOK(x) ==
  /\ x = [state |-> x.state, on |-> x.on, online |-> x.online]
  /\ x.state # None => StateOK(x.state)
  /\ x.on \in BOOLEAN /\ x.online \in BOOLEAN

UnitsOK(us) == us = [u \in Units |-> us[u]] /\ \A u \in Units : UnitOK(us[u])

LEMMA TakeReportKeeps ==
  ASSUME NEW acc, UnitsOK(acc.unit), NEW r \in StateRecords
  PROVE  UnitsOK(TakeReport(acc, r).unit)
<1> DEFINE u    == CHOOSE v \in Units : Id[v] = r.id
           bits == UNION {{8 * (i - 1) + j : j \in BitsOf(r.state[i])} : i \in DOMAIN r.state}
           old  == acc.unit[u]
           d    == Decode(Type[u], IF old.state = None THEN NoState ELSE old.state, bits)
           new  == IF d.ok THEN [state |-> d.state, on |-> r.on, online |-> r.online]
                   ELSE [old EXCEPT !.state = d.state]
<1>1. TakeReport(acc, r) =
        IF ~acc.ok \/ \A v \in Units : Id[v] # r.id THEN acc
        ELSE [ok |-> d.ok, told |-> acc.told \/ d.ok, unit |-> [acc.unit EXCEPT ![u] = new]]
  BY SMTT(40) DEF TakeReport
<1>2. CASE ~acc.ok \/ \A v \in Units : Id[v] # r.id
  BY <1>1, <1>2
<1>3. CASE ~(~acc.ok \/ \A v \in Units : Id[v] # r.id)
  <2>1. u \in Units
    BY <1>3
  <2> HIDE DEF u, bits
  <2>2. UnitOK(old)
    BY <2>1 DEF UnitsOK
  <2>3. StateOK(d.state)
    <3>1. StateOK(IF old.state = None THEN NoState ELSE old.state)
      BY <2>2, NoStateOK DEF UnitOK
    <3> HIDE DEF old
    <3> QED BY <2>1, <3>1, DecodeKeeps
  <2>4. TakeReport(acc, r).unit = [acc.unit EXCEPT ![u] = new]
    BY <1>1, <1>3
  <2> HIDE DEF d, old
  <2>5. UnitOK(new)
    <3>1. CASE d.ok
      <4>1. new = [state |-> d.state, on |-> r.on, online |-> r.online]
        BY <3>1
      <4>2. r.on \in BOOLEAN /\ r.online \in BOOLEAN
        BY DEF StateRecords
      <4> HIDE DEF new
      <4> QED BY <2>3, <4>1, <4>2 DEF UnitOK
    <3>2. CASE ~d.ok
      <4>1. new = [old EXCEPT !.state = d.state]
        BY <3>2
      <4>2. old = [state |-> old.state, on |-> old.on, online |-> old.online]
            /\ old.on \in BOOLEAN /\ old.online \in BOOLEAN
        BY <2>2 DEF UnitOK
      <4>3. new = [state |-> d.state, on |-> old.on, online |-> old.online]
        BY <4>1, <4>2
      <4> HIDE DEF new
      <4> QED BY <2>3, <4>2, <4>3 DEF UnitOK
    <3> QED BY <3>1, <3>2
  <2> HIDE DEF new
  <2>6. UnitsOK([acc.unit EXCEPT ![u] = new])
    BY <2>5 DEF UnitsOK
  <2> QED BY <2>4, <2>6
<1> QED BY <1>2, <1>3

LEMMA TakeReportsKeeps ==
  ASSUME UnitsOK(unit), NEW reports \in Seq(StateRecords)
  PROVE  UnitsOK(TakeReports(reports).unit)
<1>1. PICK f : Takes(f, reports, Len(reports)) /\ TakeReports(reports) = f[Len(reports)]
  BY TakeReportsIs
<1>2. PICK n \in Nat : n = Len(reports)
  BY LenProperties
<1> DEFINE T == {i \in Nat : i <= n => UnitsOK(f[i].unit)}
<1>3. 0 \in T
  <2>1. f[0].unit = unit
    BY <1>1, <1>2 DEF Takes
  <2> QED BY <2>1
<1>4. ASSUME NEW i \in Nat, i \in T PROVE i + 1 \in T
  <2> SUFFICES ASSUME i + 1 <= n PROVE UnitsOK(f[i + 1].unit)
    OBVIOUS
  <2>1. i + 1 \in 0..Len(reports) /\ i + 1 # 0 /\ (i + 1) - 1 = i /\ i + 1 \in 1..Len(reports)
    BY <1>2
  <2>2. f[i + 1] = TakeReport(f[i], reports[i + 1])
    BY <1>1, <2>1 DEF Takes
  <2>3. reports[i + 1] \in StateRecords /\ UnitsOK(f[i].unit)
    BY <1>4, <2>1, ElementOfSeq
  <2> QED BY <2>2, <2>3, TakeReportKeeps
<1> HIDE DEF T
<1>5. n \in T
  BY <1>3, <1>4, Induction
<1> QED BY <1>1, <1>2, <1>5 DEF T
-----------------------------------------------------------------------------
(* Reports.                                                                *)

FitsIn(u, bits) == bits \in SUBSET (0..(8 * Type[u].stateLength - 1))

StateByteOf(bits, i) == IntOf({j \in 0..7 : 8 * (i - 1) + j \in bits})

\* What a report says of a unit, as the bytes of its entry.
Says0(e, u, bits, x) ==
  /\ e \in Seq(Nat) /\ x \in 0..3 /\ Padding(e[2]) \in 0..3
  /\ Len(e) = 3 + x + Type[u].stateLength + Padding(e[2])
  /\ e[1] = Id[u]
  /\ x = Bit(e[2], 2) + Bit(e[2], 3) + Bit(e[2], 4)
  /\ Bit(e[2], 0) = 1 <=> On(u, bits)
  /\ Bit(e[2], 1) = 1
  /\ Size(e[3]) = Type[u].stateLength
  /\ \A i \in 1..Type[u].stateLength : e[3 + x + i] = StateByteOf(bits, i)

LEMMA StateByteTyped ==
  ASSUME NEW bits, NEW i
  PROVE  StateByteOf(bits, i) \in Nat
<1> DEFINE b == {j \in 0..7 : 8 * (i - 1) + j \in bits}
<1>1. b \in SUBSET (0..30)
  OBVIOUS
<1> HIDE DEF b
<1>2. IntOf(b) \in Nat
  BY <1>1, BitsOfIntOf
<1> QED BY <1>2 DEF StateByteOf, b

LEMMA FlagBits ==
  ASSUME NEW k \in 0..63, NEW b \in {0, 1}
  PROVE  /\ 4 * k + 2 + b \in Nat
         /\ Bit(4 * k + 2 + b, 0) = b /\ Bit(4 * k + 2 + b, 1) = 1
         /\ Bit(4 * k + 2 + b, 2) + Bit(4 * k + 2 + b, 3) + Bit(4 * k + 2 + b, 4) \in 0..3
         /\ Padding(4 * k + 2 + b) \in 0..3
<1>1. 2 ^ 0 = 1 /\ 2 ^ 1 = 2 /\ 2 ^ 2 = 4 /\ 2 ^ 3 = 8 /\ 2 ^ 4 = 16
  OBVIOUS
<1>2. Bit(4 * k + 2 + b, 0) = b /\ Bit(4 * k + 2 + b, 1) = 1
  BY <1>1 DEF Bit
<1>3. \A f \in Nat : Bit(f, 2) \in 0..1 /\ Bit(f, 3) \in 0..1 /\ Bit(f, 4) \in 0..1
  BY <1>1 DEF Bit
<1>4. \A f \in Nat : Padding(f) \in 0..3
  BY DEF Padding
<1>5. PICK f \in Nat : f = 4 * k + 2 + b
  OBVIOUS
<1>6. PICK x, y, z \in 0..1 : x = Bit(f, 2) /\ y = Bit(f, 3) /\ z = Bit(f, 4)
  BY <1>3
<1>7. x + y + z \in 0..3
  OBVIOUS
<1> QED BY <1>2, <1>4, <1>5, <1>6, <1>7

LEMMA EntryIs ==
  ASSUME NEW u \in Units, NEW bits
  PROVE  \E x : Says0(Entry(u, bits), u, bits, x)
<1> DEFINE b     == IF On(u, bits) THEN 1 ELSE 0
           flags == Flags[u] + 2 + b
           extra == Bit(flags, 2) + Bit(flags, 3) + Bit(flags, 4)
<1>1. PICK n \in 1..16 : n = Type[u].stateLength
  BY TypesAssumption
<1>2. PICK k \in 0..63 : Flags[u] = 4 * k
  BY HomeAssumption
<1>3. b \in {0, 1} /\ (b = 1 <=> On(u, bits))
  OBVIOUS
<1> HIDE DEF b
<1>4. /\ flags \in Nat /\ Bit(flags, 0) = b /\ Bit(flags, 1) = 1
      /\ extra \in 0..3 /\ Padding(flags) \in 0..3
  BY <1>2, <1>3, FlagBits
<1> HIDE DEF flags, extra
<1>5. PICK p \in 0..3 : p = Padding(flags)
  BY <1>4
<1> DEFINE h  == <<Id[u], flags, (n - 1) * 16>>
           st == [i \in 1..n |-> StateByteOf(bits, i)]
           e  == ((h \o Zeros(extra)) \o st) \o Zeros(p)
<1>6. h \in Seq(Nat) /\ Len(h) = 3 /\ h[1] = Id[u] /\ h[2] = flags /\ h[3] = (n - 1) * 16
  <2>1. Id[u] \in 1..255
    BY HomeAssumption
  <2>2. (n - 1) * 16 \in Nat
    OBVIOUS
  <2> QED BY <1>4, <2>1, <2>2
<1>7. \A m \in Nat : Zeros(m) \in Seq(Nat) /\ Len(Zeros(m)) = m
  BY DEF Zeros
<1>8. st \in Seq(Nat) /\ Len(st) = n /\ \A i \in 1..n : st[i] = StateByteOf(bits, i)
  BY StateByteTyped
<1>9. Entry(u, bits) = e
  <2>1. Entry(u, bits) = ((<<Id[u], flags, (n - 1) * 16>> \o Zeros(extra))
          \o [i \in 1..n |-> IntOf({j \in 0..7 : 8 * (i - 1) + j \in bits})])
          \o Zeros(Padding(flags))
    BY <1>1 DEF Entry, b, flags, extra
  <2> QED BY <1>5, <2>1 DEF StateByteOf
<1> HIDE DEF h, st, e
<1> DEFINE h1 == h \o Zeros(extra)
           h2 == h1 \o st
<1>10. /\ h1 \in Seq(Nat) /\ Len(h1) = 3 + extra
       /\ h1[1] = Id[u] /\ h1[2] = flags /\ h1[3] = (n - 1) * 16
  <2>1. PICK y \in 0..3 : y = extra
    BY <1>4
  <2>2. PICK z \in Seq(Nat) : z = Zeros(y) /\ Len(z) = y
    BY <1>7
  <2>3. /\ h \o z \in Seq(Nat) /\ Len(h \o z) = Len(h) + Len(z)
        /\ \A i \in 1..(Len(h) + Len(z)) : (h \o z)[i] = IF i <= Len(h) THEN h[i] ELSE z[i - Len(h)]
    BY <1>6, ConcatProperties
  <2> QED BY <1>6, <2>1, <2>2, <2>3
<1> HIDE DEF h1
<1>11. /\ h2 \in Seq(Nat) /\ Len(h2) = 3 + extra + n
       /\ h2[1] = Id[u] /\ h2[2] = flags /\ h2[3] = (n - 1) * 16
       /\ \A i \in 1..n : h2[3 + extra + i] = StateByteOf(bits, i)
  <2>1. PICK y \in 0..3 : y = extra
    BY <1>4
  <2>2. /\ h2 \in Seq(Nat) /\ Len(h2) = Len(h1) + Len(st)
        /\ \A i \in 1..(Len(h1) + Len(st)) : h2[i] = IF i <= Len(h1) THEN h1[i] ELSE st[i - Len(h1)]
    BY <1>8, <1>10, ConcatProperties
  <2>3. ASSUME NEW i \in 1..n PROVE h2[3 + y + i] = st[i]
    <3>1. 3 + y + i \in 1..(3 + y + n) /\ ~(3 + y + i <= 3 + y) /\ 3 + y + i - (3 + y) = i
      OBVIOUS
    <3>2. Len(h1) = 3 + y /\ Len(st) = n
      BY <1>8, <1>10, <2>1
    <3> QED BY SMTT(40), <2>2, <3>1, <3>2
  <2>4. Len(h1) = 3 + y /\ Len(st) = n
    BY <1>8, <1>10, <2>1
  <2>5. h2 \in Seq(Nat) /\ Len(h2) = 3 + y + n
    BY <2>2, <2>4
  <2>6. h2[1] = h1[1] /\ h2[2] = h1[2] /\ h2[3] = h1[3]
    <3>1. ASSUME NEW i \in 1..3 PROVE h2[i] = h1[i]
      <4>1. i \in 1..((3 + y) + n) /\ i <= 3 + y
        OBVIOUS
      <4> QED BY <2>2, <2>4, <4>1
    <3>2. 1 \in 1..3 /\ 2 \in 1..3 /\ 3 \in 1..3
      OBVIOUS
    <3> QED BY <3>1, <3>2
  <2>7. \A i \in 1..n : h2[3 + y + i] = StateByteOf(bits, i)
    BY <1>8, <2>3
  <2>8. Len(h2) = 3 + extra + n
    BY <2>1, <2>5
  <2>9. \A i \in 1..n : h2[3 + extra + i] = StateByteOf(bits, i)
    BY <2>1, <2>7
  <2> HIDE DEF h2
  <2> QED BY <1>10, <2>5, <2>6, <2>8, <2>9
<1> HIDE DEF h2
<1>12. /\ e \in Seq(Nat) /\ Len(e) = 3 + extra + n + p
       /\ e[1] = Id[u] /\ e[2] = flags /\ e[3] = (n - 1) * 16
       /\ \A i \in 1..n : e[3 + extra + i] = StateByteOf(bits, i)
  <2>1. PICK y \in 0..3 : y = extra
    BY <1>4
  <2>2. PICK z \in Seq(Nat) : z = Zeros(p) /\ Len(z) = p
    BY <1>7
  <2>3. e = h2 \o z
    BY <2>2 DEF e, h1, h2
  <2>4. /\ h2 \o z \in Seq(Nat) /\ Len(h2 \o z) = Len(h2) + Len(z)
        /\ \A i \in 1..(Len(h2) + Len(z)) :
             (h2 \o z)[i] = IF i <= Len(h2) THEN h2[i] ELSE z[i - Len(h2)]
    BY <1>11, ConcatProperties
  <2>5. \A i \in 1..n : e[3 + y + i] = h2[3 + y + i]
    BY SMTT(40), <1>11, <2>1, <2>2, <2>3, <2>4
  <2>6. Len(h2) = 3 + y + n /\ Len(z) = p
    BY <1>11, <2>1, <2>2
  <2>7. e \in Seq(Nat) /\ Len(e) = 3 + y + n + p
    BY <2>3, <2>4, <2>6
  <2>8. e[1] = h2[1] /\ e[2] = h2[2] /\ e[3] = h2[3]
    <3>1. \A i \in 1..3 : i \in 1..(Len(h2) + Len(z)) /\ i <= Len(h2)
      BY <2>6
    <3>2. \A i \in 1..3 : e[i] = h2[i]
      BY <2>3, <2>4, <3>1
    <3> QED BY <3>2
  <2> QED BY <1>11, <2>1, <2>5, <2>7, <2>8
<1>13. Size((n - 1) * 16) = n
  BY DEF Size
<1>14. Says0(e, u, bits, extra)
  BY <1>1, <1>3, <1>4, <1>5, <1>12, <1>13 DEF Says0, extra
<1> QED BY <1>9, <1>14

Entries(us, fs) ==
  [i \in DOMAIN Order |-> IF Order[i] \in us THEN Entry(Order[i], fs[Order[i]].bits) ELSE <<>>]

LEMMA EntriesTyped ==
  ASSUME NEW us, NEW fs
  PROVE  /\ Entries(us, fs) \in Seq(Seq(Nat)) /\ Len(Entries(us, fs)) = Len(Order)
         /\ Report(us, fs).type = "states" /\ Report(us, fs).data = FlattenSeq(Entries(us, fs))
         /\ Report(us, fs).data \in Seq(Nat)
<1>1. PICK n \in Nat : n = Len(Order) /\ DOMAIN Order = 1..n
  BY HomeAssumption
<1>2. ASSUME NEW i \in 1..n PROVE Entries(us, fs)[i] \in Seq(Nat)
  <2>1. Order[i] \in Units
    BY <1>1, HomeAssumption
  <2>2. Entry(Order[i], fs[Order[i]].bits) \in Seq(Nat)
    BY <2>1, EntryIs DEF Says0
  <2> QED BY <1>1, <2>2, EmptySeq DEF Entries
<1>3. Entries(us, fs) \in [1..n -> Seq(Nat)]
  BY <1>1, <1>2 DEF Entries
<1>4. Entries(us, fs) \in Seq(Seq(Nat)) /\ Len(Entries(us, fs)) = n
  BY <1>3
<1>5. FlattenSeq(Entries(us, fs)) \in Seq(Nat)
  BY <1>4, FlattenSeqHolds
<1> QED BY <1>1, <1>4, <1>5 DEF Report, Entries

\* A report depends on the units of the network only.
LEMMA ReportOf ==
  ASSUME NEW us, NEW fs
  PROVE  Report(us, fs) = Report(us \cap Units, fs)
<1>1. \A i \in DOMAIN Order : Order[i] \in Units
  BY HomeAssumption
<1>2. Entries(us, fs) = Entries(us \cap Units, fs)
  BY <1>1 DEF Entries
<1> QED BY <1>2 DEF Report, Entries

-----------------------------------------------------------------------------
(* Fixtures.                                                               *)

\* A control of a unit, as its type lists it.
Of(u, c) == \E i \in DOMAIN Type[u].controls : c = Type[u].controls[i]

LEMMA OfIs ==
  ASSUME NEW u \in Units, NEW c, Of(u, c)
  PROVE  /\ c.offset \in Nat /\ c.length \in 0..31
         /\ FitsIn(u, Place(c))
         /\ c.default \in Nat /\ c.default < Pow[c.length]
         /\ c \in Range(Type[u].controls)
<1>1. /\ c.offset \in Nat /\ c.length \in 0..31
      /\ c.offset + c.length <= 8 * Type[u].stateLength
      /\ c.default \in 0..(2 ^ c.length - 1)
      /\ Type[u].stateLength \in 1..16
      /\ c \in Range(Type[u].controls)
  BY TypesAssumption DEF Of, Range
<1>2. FitsIn(u, Place(c))
  <2>1. PICK o \in Nat, l \in 0..31, n \in 1..16 :
          o = c.offset /\ l = c.length /\ n = Type[u].stateLength
    BY <1>1
  <2>2. o..(o + l - 1) \in SUBSET (0..(8 * n - 1))
    BY <1>1, <2>1
  <2> QED BY <2>1, <2>2 DEF FitsIn, Place
<1>3. Pow[c.length] = 2 ^ c.length /\ Pow[c.length] \in Nat
  <2>1. c.length \in 0..32
    BY <1>1
  <2> QED BY <2>1, PowTyped DEF Pow
<1>4. c.default \in 0..(Pow[c.length] - 1)
  BY <1>1, <1>3
<1> QED BY <1>1, <1>2, <1>3, <1>4

LEMMA ControlOf ==
  ASSUME NEW u \in Units, NEW t, Control(Type[u], t) # None
  PROVE  Of(u, Control(Type[u], t)) /\ Control(Type[u], t).type = t
<1>1. PICK n \in Nat : DOMAIN Type[u].controls = 1..n
  BY TypesAssumption
<1>2. \E i \in 1..n : /\ Control(Type[u], t) = Type[u].controls[i]
                      /\ Type[u].controls[i].type = t
  BY <1>1, ControlIs
<1> QED BY <1>1, <1>2 DEF Of

LEMMA WrittenFits ==
  ASSUME NEW u \in Units, NEW bits, FitsIn(u, bits), NEW c, Of(u, c), NEW n
  PROVE  FitsIn(u, Overwritten(bits, c, n))
BY OfIs DEF FitsIn, Overwritten

LEMMA PutFits ==
  ASSUME NEW u \in Units, FitsIn(u, fixture[u].bits), NEW t, NEW n
  PROVE  FitsIn(u, Put(u, t, n))
<1>1. CASE Control(Type[u], t) = None
  BY <1>1 DEF Put
<1>2. CASE Control(Type[u], t) # None
  BY <1>2, ControlOf, WrittenFits DEF Put
<1> QED BY <1>1, <1>2

LEMMA WritableFits ==
  ASSUME NEW u \in Units
  PROVE  FitsIn(u, Writable(u))
<1>1. \A c \in Range(Type[u].controls) : Of(u, c)
  BY DEF Range, Of
<1>2. \A c \in Range(Type[u].controls) : Place(c) \in SUBSET (0..(8 * Type[u].stateLength - 1))
  BY <1>1, OfIs DEF FitsIn
<1> QED BY <1>2 DEF FitsIn, Writable

Ops == {"SetState", "SetLevel", "RestoreLevel", "SetVertical", "SetWhite", "SetSlider",
        "SetTemperature", "SetColorXY", "SetColor"}

LEMMA AppliedFits ==
  ASSUME NEW u \in Units, FitsIn(u, fixture[u].bits), NEW op \in Ops, NEW payload
  PROVE  FitsIn(u, Applied(u, op, payload))
<1>0. \A t, n : FitsIn(u, Put(u, t, n))
  BY PutFits
<1>1. CASE op = "SetState"
  BY <1>1, WritableFits DEF Applied, FitsIn
<1>2. CASE op = "SetLevel"
  BY <1>0, <1>2 DEF Applied
<1>3. CASE op = "RestoreLevel"
  BY <1>0, <1>3 DEF Applied
<1>4. CASE op = "SetVertical"
  BY <1>0, <1>4 DEF Applied
<1>5. CASE op = "SetWhite"
  BY <1>0, <1>5 DEF Applied
<1>6. CASE op = "SetSlider"
  BY <1>0, <1>6 DEF Applied
<1>7. CASE op = "SetTemperature"
  <2>1. CASE Control(Type[u], "TEMPERATURE") = None
    BY <1>7, <2>1 DEF Applied
  <2>2. CASE Control(Type[u], "TEMPERATURE") # None
    BY <1>0, <1>7, <2>2 DEF Applied
  <2> QED BY <2>1, <2>2
<1>8. CASE op = "SetColorXY"
  BY <1>0, <1>8 DEF Applied
<1>9. CASE op = "SetColor"
  BY <1>0, <1>9 DEF Applied
<1> QED BY <1>1, <1>2, <1>3, <1>4, <1>5, <1>6, <1>7, <1>8, <1>9 DEF Ops

\* Of a state in which nothing is known the defaults are written.
LEMMA FreshCode ==
  ASSUME NEW c
  PROVE  Code(c, NoState) = c.default
<1>1. ASSUME NEW t \in DOMAIN Field PROVE NoState[Field[t]] = None
  BY FieldIs DEF NoState, Range
<1>2. ~Writes(c, NoState)
  <2>1. ASSUME c.type \in Levels \cup {"TEMPERATURE", "SENSOR", "SLIDER", "COLORSOURCE",
                                       "RGB", "XY", "ONOFF"}
        PROVE  c.type \in DOMAIN Field
    BY <2>1, FieldIs DEF Levels
  <2> QED BY <1>1, <2>1 DEF Writes
<1> QED BY <1>2 DEF Code

LEMMA FreshFits ==
  ASSUME NEW u \in Units
  PROVE  FitsIn(u, Fresh(u).bits)
<1>1. ASSUME NEW c \in Range(Type[u].controls)
      PROVE  Placed(c, Code(c, NoState)) \in SUBSET (0..(8 * Type[u].stateLength - 1))
  <2>1. Of(u, c)
    BY DEF Range, Of
  <2>2. Code(c, NoState) = c.default
    BY FreshCode
  <2>3. Placed(c, c.default) \subseteq Place(c)
    BY <2>1, OfIs, PlacedFits
  <2> QED BY <2>1, <2>2, <2>3, OfIs DEF FitsIn
<1> QED BY <1>1 DEF Fresh, Encode, FitsIn

LEMMA WithIs ==
  ASSUME NEW u, NEW bits
  PROVE  With(u, bits).bits = bits
BY DEF With
-----------------------------------------------------------------------------
(* Type correctness. It needs what is in the air: reports of states the    *)
(* fixtures could have, and packets of switches.                           *)

Fixtures == {fs \in [Units -> [bits : SUBSET Nat, last : Nat]] :
               \A u \in Units : FitsIn(u, fs[u].bits)}

Packets == {Report(us, fs) : us \in SUBSET Units, fs \in Fixtures}
           \cup {Switches(ms) : ms \in Presses}

CallOK(k) ==
  /\ k.pc \in {"idle", "wait", "sending"}
  /\ k.pc = "sending" => k.packet.op \in Ops

Typed ==
  /\ UnitsOK(unit)
  /\ due \in BOOLEAN /\ listening \in BOOLEAN
  /\ call = [c \in Callers |-> call[c]] /\ \A c \in Callers : CallOK(call[c])
  /\ origin \in Nat /\ begun \in 0..MaxCommands /\ moved \in 0..MaxMoves
  /\ fixture \in Fixtures
  /\ air \in Seq(Packets)

LEMMA WithTyped ==
  ASSUME fixture \in Fixtures, NEW u \in Units, NEW bits, FitsIn(u, bits)
  PROVE  With(u, bits) \in [bits : SUBSET Nat, last : Nat]
<1>1. fixture[u].last \in Nat
  BY DEF Fixtures
<1>2. bits \in SUBSET Nat
  <2>1. PICK n \in 1..16 : n = Type[u].stateLength
    BY TypesAssumption
  <2> QED BY <2>1 DEF FitsIn
<1>3. Level(u, bits) \in Nat
  <2>1. CASE Control(Type[u], "DIMMER") = None
    BY <2>1 DEF Level
  <2>2. CASE Control(Type[u], "DIMMER") # None
    BY <2>2, ControlOf, OfIs, ExtractBound DEF Level
  <2> QED BY <2>1, <2>2
<1> QED BY <1>1, <1>2, <1>3 DEF With

LEMMA FixtureTyped ==
  ASSUME fixture \in Fixtures, NEW fs, fs = [u \in Units |-> fs[u]],
         \A u \in Units : \/ fs[u] = fixture[u]
                          \/ \E bits : FitsIn(u, bits) /\ fs[u] = With(u, bits)
  PROVE  fs \in Fixtures
<1>1. ASSUME NEW u \in Units
      PROVE  fs[u] \in [bits : SUBSET Nat, last : Nat] /\ FitsIn(u, fs[u].bits)
  BY WithTyped, WithIs DEF Fixtures
<1> QED BY <1>1 DEF Fixtures

LEMMA ReportTyped ==
  ASSUME NEW us, NEW fs \in Fixtures
  PROVE  Report(us, fs) \in Packets
<1>1. us \cap Units \in SUBSET Units /\ Report(us, fs) = Report(us \cap Units, fs)
  BY ReportOf
<1>2. Report(us \cap Units, fs) \in Packets
  BY <1>1 DEF Packets
<1> QED BY <1>1, <1>2

LEMMA TypedInit == Init => Typed
<1> SUFFICES ASSUME Init PROVE Typed
  OBVIOUS
<1>1. UnitsOK(unit)
  BY DEF Init, UnitsOK, UnitOK
<1>2. fixture \in Fixtures
  <2>1. ASSUME NEW u \in Units
        PROVE  fixture[u] \in [bits : SUBSET Nat, last : Nat] /\ FitsIn(u, fixture[u].bits)
    <3>1. fixture[u] = Fresh(u)
      BY DEF Init
    <3>2. FitsIn(u, Fresh(u).bits)
      BY FreshFits
    <3>3. PICK n \in 1..16 : n = Type[u].stateLength
      BY TypesAssumption
    <3>4. Fresh(u).bits \in SUBSET Nat
      BY <3>2, <3>3 DEF FitsIn
    <3>5. Fresh(u) = [bits |-> Fresh(u).bits, last |-> 255]
      BY DEF Fresh
    <3> QED BY <3>1, <3>2, <3>4, <3>5
  <2>2. fixture = [u \in Units |-> fixture[u]]
    BY DEF Init
  <2> QED BY <2>1, <2>2 DEF Fixtures
<1>3. air \in Seq(Packets)
  BY DEF Init
<1>4. /\ due \in BOOLEAN /\ listening \in BOOLEAN
      /\ call = [c \in Callers |-> call[c]] /\ \A c \in Callers : CallOK(call[c])
  BY DEF Init, Idle, CallOK
<1>5. origin \in Nat /\ begun \in 0..MaxCommands /\ moved \in 0..MaxMoves
  BY HomeAssumption DEF Init
<1> QED BY <1>1, <1>2, <1>3, <1>4, <1>5 DEF Typed

\* The packets of the facade.
LEMMA PacketOps ==
  ASSUME NEW op \in Ops, NEW target, NEW v
  PROVE  /\ Packet(op, target, v).op \in Ops
         /\ setByte(op, target, v) # None => setByte(op, target, v).op \in Ops
BY DEF Packet, setByte

LEMMA SetControlOp ==
  ASSUME NEW target, NEW t, NEW v, setControl(target, t, v) # None
  PROVE  setControl(target, t, v).op \in Ops
<1>1. /\ "SetState" \in Ops /\ "SetLevel" \in Ops /\ "RestoreLevel" \in Ops
      /\ "SetVertical" \in Ops /\ "SetWhite" \in Ops /\ "SetSlider" \in Ops
      /\ "SetTemperature" \in Ops /\ "SetColorXY" \in Ops /\ "SetColor" \in Ops
  BY DEF Ops
<1>2. \A x : setColorXY(target, x).op \in Ops
  BY <1>1, PacketOps DEF setColorXY
<1>3. \A x : setUnitState(target, x) # None => setUnitState(target, x).op \in Ops
  BY <1>1, PacketOps DEF setUnitState
<1>4. \A x : setTemperature(target, x) # None => setTemperature(target, x).op \in Ops
  BY <1>1, PacketOps DEF setTemperature
<1>5. ~ReadOnly(target, t)
  BY DEF setControl
<1>6. CASE t = "DIMMER"
  BY <1>1, <1>5, <1>6, PacketOps DEF setControl
<1>7. CASE t = "VERTICAL"
  BY <1>1, <1>5, <1>7, PacketOps DEF setControl
<1>8. CASE t = "WHITE"
  BY <1>1, <1>5, <1>8, PacketOps DEF setControl
<1>9. CASE t = "SLIDER"
  BY <1>1, <1>5, <1>9, PacketOps DEF setControl
<1>10. CASE t = "TEMPERATURE"
  BY <1>4, <1>5, <1>10 DEF setControl
<1>11. CASE t = "XY"
  BY <1>2, <1>5, <1>11 DEF setControl
<1>12. CASE t = "ONOFF"
  BY <1>1, <1>3, <1>5, <1>12, PacketOps DEF setControl
<1>13. CASE t \notin {"DIMMER", "VERTICAL", "WHITE", "SLIDER", "TEMPERATURE", "RGB", "XY",
                      "ONOFF"}
  BY <1>5, <1>13 DEF setControl
<1>14. CASE t = "RGB"
  <2>1. \A x : setColor(target, x) # None => setColor(target, x).op \in Ops
    BY <1>1, PacketOps DEF setColor
  <2> QED BY <1>5, <1>14, <2>1 DEF setControl
<1> QED BY <1>6, <1>7, <1>8, <1>9, <1>10, <1>11, <1>12, <1>13, <1>14

\* A report of what the fixtures are after a step that changed some of them.
LEMMA TypedReport ==
  ASSUME Typed, fixture' = [u \in Units |-> fixture'[u]],
         \A u \in Units : \/ fixture'[u] = fixture[u]
                          \/ \E bits : FitsIn(u, bits) /\ fixture'[u] = With(u, bits),
         NEW us, air' = Append(air, Report(us, fixture'))
  PROVE  fixture' \in Fixtures /\ air' \in Seq(Packets)
<1>1. PICK fs : fs = fixture'
  OBVIOUS
<1>2. fs \in Fixtures
  BY <1>1, FixtureTyped DEF Typed
<1>3. Report(us, fs) \in Packets
  BY <1>2, ReportTyped
<1>4. air \in Seq(Packets)
  BY DEF Typed
<1>5. Append(air, Report(us, fs)) \in Seq(Packets)
  BY <1>3, <1>4, AppendProperties
<1> QED BY <1>1, <1>2, <1>5

LEMMA TypedBegin ==
  ASSUME Typed, NEW c \in Callers, NEW target, NEW todo, CanBegin(c), Begin(c, target, todo)
  PROVE  Typed'
<1>1. CallOK([pc |-> "wait", target |-> target, todo |-> todo])
  BY DEF CallOK
<1>2. call' = [d \in Callers |-> call'[d]] /\ \A d \in Callers : CallOK(call'[d])
  BY <1>1 DEF Begin, Typed
<1>3. begun' \in 0..MaxCommands
  BY HomeAssumption DEF CanBegin, Begin, Typed
<1> QED BY <1>2, <1>3 DEF Begin, Typed, UnitsOK
LEMMA TypedBuild ==
  ASSUME Typed, NEW c \in Callers, Build(c)
  PROVE  Typed'
<1> DEFINE step   == Head(call[c].todo)
           packet == IF step.type = "STATE" THEN setUnitState(call[c].target, step.value)
                     ELSE IF step.type = "SCENE" THEN switchToScene(call[c].target, step.value)
                     ELSE setControl(call[c].target, step.type, step.value)
           base   == IF step.type = "STATE" THEN step.base
                     ELSE IF call[c].target.kind = "unit" THEN unit[call[c].target.unit].state
                     ELSE None
           sends  == [pc |-> "sending", target |-> call[c].target, todo |-> call[c].todo,
                      packet |-> packet, base |-> base]
<1>1. packet # None => packet.op \in Ops
  <2>1. CASE step.type = "STATE"
    <3>1. \A x, v : setUnitState(x, v) # None => setUnitState(x, v).op \in Ops
      BY PacketOps DEF setUnitState, Ops
    <3> QED BY <2>1, <3>1
  <2>2. CASE step.type = "SCENE"
    <3>1. \A x, v : setByte("SetLevel", x, v) # None => setByte("SetLevel", x, v).op \in Ops
      BY PacketOps DEF Ops
    <3> QED BY <2>2, <3>1 DEF switchToScene
  <2>3. CASE step.type \notin {"STATE", "SCENE"}
    BY <2>3, SetControlOp
  <2> QED BY <2>1, <2>2, <2>3
<1>2. \/ packet = None /\ call' = [call EXCEPT ![c] = Idle] /\ origin' = origin
      \/ packet # None /\ call' = [call EXCEPT ![c] = sends] /\ origin' = origin + 1
  <2>1. IF packet = None
        THEN call' = [call EXCEPT ![c] = Idle] /\ UNCHANGED origin
        ELSE /\ call' = [call EXCEPT ![c] =
                  [pc |-> "sending", target |-> @.target, todo |-> @.todo, packet |-> packet,
                   base |-> IF step.type = "STATE" THEN step.base
                            ELSE IF @.target.kind = "unit" THEN unit[@.target.unit].state
                            ELSE None]]
             /\ origin' = origin + 1
    BY DEF Build
  <2> HIDE DEF packet
  <2> QED BY <2>1
<1> HIDE DEF packet, base, step
<1>3. CallOK(Idle) /\ (packet # None => CallOK(sends))
  BY <1>1 DEF CallOK, Idle
<1> HIDE DEF sends
<1>4. call' = [d \in Callers |-> call'[d]] /\ \A d \in Callers : CallOK(call'[d])
  BY <1>2, <1>3 DEF Typed
<1>5. origin' \in Nat
  BY <1>2 DEF Typed
<1> QED BY <1>4, <1>5 DEF Build, Typed, UnitsOK

LEMMA TypedTransmit ==
  ASSUME Typed, NEW c \in Callers, Transmit(c)
  PROVE  Typed'
<1> DEFINE us == Addressed(call[c].target)
           p  == call[c].packet
<1>1. p.op \in Ops
  BY DEF Transmit, Transmitting, Typed, CallOK
<1>2. /\ fixture' = [u \in Units |->
           IF u \in us THEN With(u, Applied(u, p.op, p.payload)) ELSE fixture[u]]
      /\ air' = Append(air, Report(us, fixture'))
  BY DEF Transmit
<1> HIDE DEF us, p
<1>3. \A u \in Units : \/ fixture'[u] = fixture[u]
                       \/ \E bits : FitsIn(u, bits) /\ fixture'[u] = With(u, bits)
  <2> SUFFICES ASSUME NEW u \in Units, u \in us
               PROVE  \E bits : FitsIn(u, bits) /\ fixture'[u] = With(u, bits)
    BY <1>2
  <2>1. FitsIn(u, fixture[u].bits)
    BY DEF Typed, Fixtures
  <2>2. FitsIn(u, Applied(u, p.op, p.payload))
    BY <1>1, <2>1, AppliedFits
  <2> QED BY <1>2, <2>2
<1>4. fixture' \in Fixtures /\ air' \in Seq(Packets)
  <2>1. fixture' = [u \in Units |-> fixture'[u]]
    BY <1>2
  <2> QED BY <1>2, <1>3, <2>1, TypedReport
<1>5. call' = [d \in Callers |-> call'[d]] /\ \A d \in Callers : CallOK(call'[d])
  <2> DEFINE new == IF Len(call[c].todo) = 1 THEN Idle
                    ELSE [pc |-> "wait", target |-> call[c].target, todo |-> Tail(call[c].todo)]
  <2>1. call' = [call EXCEPT ![c] = new]
    BY DEF Transmit
  <2>2. CallOK(new)
    BY DEF CallOK, Idle
  <2> HIDE DEF new
  <2> QED BY <2>1, <2>2 DEF Typed
<1> QED BY <1>4, <1>5 DEF Transmit, Typed, UnitsOK

LEMMA TypedSendFails ==
  ASSUME Typed, NEW c \in Callers, SendFails(c)
  PROVE  Typed'
<1>1. CallOK(Idle)
  BY DEF CallOK, Idle
<1>2. call' = [d \in Callers |-> call'[d]] /\ \A d \in Callers : CallOK(call'[d])
  BY <1>1 DEF SendFails, Typed
<1> QED BY <1>2 DEF SendFails, Typed, UnitsOK

LEMMA TypedMoves ==
  ASSUME Typed, Environment, NEW u \in Units, NEW bits, FitsIn(u, bits), Moves(u, bits)
  PROVE  Typed'
<1>1. fixture' = [fixture EXCEPT ![u] = With(u, bits)] /\ air' = Append(air, Report({u}, fixture'))
  BY DEF Moves
<1>2. fixture = [v \in Units |-> fixture[v]]
  BY DEF Typed, Fixtures
<1>3. \A v \in Units : \/ fixture'[v] = fixture[v]
                       \/ \E b : FitsIn(v, b) /\ fixture'[v] = With(v, b)
  BY <1>1, <1>2
<1>4. fixture' \in Fixtures /\ air' \in Seq(Packets)
  <2>1. fixture' = [v \in Units |-> fixture'[v]]
    BY <1>1, <1>2
  <2> QED BY <1>1, <1>3, <2>1, TypedReport
<1>5. moved' \in 0..MaxMoves
  BY HomeAssumption DEF Environment, Typed
<1> QED BY <1>4, <1>5 DEF Environment, Typed, UnitsOK

LEMMA SenseFits ==
  ASSUME NEW u \in Units, FitsIn(u, fixture[u].bits), NEW m, NEW n,
         Control(Type[u], "SENSORGROUP") # None, Control(Type[u], "SENSORGROUPVALUE") # None
  PROVE  FitsIn(u, Overwritten(Overwritten(fixture[u].bits, Control(Type[u], "SENSORGROUP"), m),
                               Control(Type[u], "SENSORGROUPVALUE"), n))
<1>1. FitsIn(u, Overwritten(fixture[u].bits, Control(Type[u], "SENSORGROUP"), m))
  BY ControlOf, WrittenFits
<1> QED BY <1>1, ControlOf, WrittenFits

LEMMA TypedPress ==
  ASSUME Typed, NEW ms \in Presses, Press(ms)
  PROVE  Typed'
<1>1. Switches(ms) \in Packets
  BY DEF Packets
<1>2. Append(air, Switches(ms)) \in Seq(Packets)
  BY <1>1, AppendProperties DEF Typed
<1>3. moved' \in 0..MaxMoves
  BY HomeAssumption DEF Press, Environment, Typed
<1> QED BY <1>2, <1>3 DEF Press, Environment, Says, Typed, UnitsOK

LEMMA PacketIs ==
  ASSUME NEW n \in Packets
  PROVE  \/ n.type = "states" /\ n.data \in Seq(Nat)
         \/ n.type = "switch"
<1>1. CASE \E us \in SUBSET Units, fs \in Fixtures : n = Report(us, fs)
  BY <1>1, EntriesTyped
<1>2. CASE \E ms \in Presses : n = Switches(ms)
  BY <1>2 DEF Switches
<1> QED BY <1>1, <1>2 DEF Packets

LEMMA ReportsTyped ==
  ASSUME NEW n \in Packets
  PROVE  (IF n.type = "states" THEN parseUnitStates(n.data) ELSE <<>>) \in Seq(StateRecords)
<1>1. CASE n.type = "states"
  BY <1>1, PacketIs, ParseTyped
<1>2. CASE n.type # "states"
  BY <1>2, EmptySeq
<1> QED BY <1>1, <1>2

\* One report: it is for no unit, or its unit is updated.
LEMMA TakeReportIs ==
  ASSUME NEW acc, NEW r
  PROVE  \/ /\ TakeReport(acc, r) = acc
            /\ ~acc.ok \/ \A v \in Units : Id[v] # r.id
         \/ /\ acc.ok
            /\ \E u \in Units, ok \in BOOLEAN : \E x :
                 /\ Id[u] = r.id
                 /\ TakeReport(acc, r) = [ok |-> ok, told |-> acc.told \/ ok,
                                          unit |-> [acc.unit EXCEPT ![u] = x]]
<1> DEFINE u    == CHOOSE v \in Units : Id[v] = r.id
           bits == UNION {{8 * (i - 1) + j : j \in BitsOf(r.state[i])} : i \in DOMAIN r.state}
           old  == acc.unit[u]
           d    == Decode(Type[u], IF old.state = None THEN NoState ELSE old.state, bits)
           new  == IF d.ok THEN [state |-> d.state, on |-> r.on, online |-> r.online]
                   ELSE [old EXCEPT !.state = d.state]
<1>1. TakeReport(acc, r) =
        IF ~acc.ok \/ \A v \in Units : Id[v] # r.id THEN acc
        ELSE [ok |-> d.ok, told |-> acc.told \/ d.ok, unit |-> [acc.unit EXCEPT ![u] = new]]
  BY DEF TakeReport
<1>2. d.ok \in BOOLEAN
  BY DEF Decode
<1>3. (\E v \in Units : Id[v] = r.id) => u \in Units /\ Id[u] = r.id
  OBVIOUS
<1> HIDE DEF d, new, u
<1> QED BY <1>1, <1>2, <1>3

LEMMA TakeReportsTyped ==
  ASSUME NEW S, NEW reports \in Seq(S)
  PROVE  TakeReports(reports).ok \in BOOLEAN /\ TakeReports(reports).told \in BOOLEAN
<1>1. PICK f : Takes(f, reports, Len(reports)) /\ TakeReports(reports) = f[Len(reports)]
  BY TakeReportsIs
<1>2. PICK n \in Nat : n = Len(reports)
  BY LenProperties
<1> DEFINE Q(x) == x.ok \in BOOLEAN /\ x.told \in BOOLEAN
           T == {i \in Nat : i <= n => Q(f[i])}
<1>3. 0 \in T
  <2>1. f[0] = [ok |-> TRUE, told |-> FALSE, unit |-> unit]
    BY <1>1, <1>2 DEF Takes
  <2>2. Q(f[0])
    BY <2>1
  <2> QED BY <2>2
<1>4. ASSUME NEW i \in Nat, i \in T PROVE i + 1 \in T
  <2> SUFFICES ASSUME i + 1 <= n PROVE Q(f[i + 1])
    OBVIOUS
  <2>1. i + 1 \in 0..Len(reports) /\ i + 1 # 0 /\ (i + 1) - 1 = i
    BY <1>2
  <2>2. f[i + 1] = TakeReport(f[i], reports[i + 1])
    BY <1>1, <2>1 DEF Takes
  <2>3. Q(f[i])
    BY <1>4
  <2> QED BY <2>2, <2>3, TakeReportIs
<1> HIDE DEF T, Q
<1>5. n \in T
  BY <1>3, <1>4, Induction
<1> QED BY <1>1, <1>2, <1>5 DEF T, Q

LEMMA TypedHandle ==
  ASSUME Typed, NEW raises \in BOOLEAN, Handle(raises)
  PROVE  Typed'
<1> DEFINE n  == Head(air)
           rs == IF n.type = "states" THEN parseUnitStates(n.data) ELSE <<>>
<1>1. n \in Packets /\ Tail(air) \in Seq(Packets)
  BY HeadTailProperties DEF Handle, Typed
<1>2. rs \in Seq(StateRecords)
  BY <1>1, ReportsTyped
<1>3. /\ unit' = TakeReports(rs).unit /\ listening' = TakeReports(rs).ok
      /\ due' = (due \/ CoordinatorTold(TakeReports(rs).told, raises))
      /\ air' = Tail(air)
  BY DEF Handle
<1> HIDE DEF n, rs
<1>4. UnitsOK(TakeReports(rs).unit)
  BY <1>2, TakeReportsKeeps DEF Typed
<1>5. TakeReports(rs).ok \in BOOLEAN /\ TakeReports(rs).told \in BOOLEAN
  BY <1>2, TakeReportsTyped
<1>6. UnitsOK(unit)'
  BY <1>3, <1>4 DEF UnitsOK
<1>7. due' \in BOOLEAN /\ listening' \in BOOLEAN
  BY <1>3, <1>5 DEF CoordinatorTold, Typed
<1> QED BY <1>1, <1>3, <1>6, <1>7 DEF Handle, Typed

LEMMA TypedStep ==
  ASSUME Typed, [Next]_vars
  PROVE  Typed'
<1>1. CASE UNCHANGED vars
  BY <1>1 DEF vars, Typed, UnitsOK
<1>2. ASSUME NEW c \in Callers, Calls(c) PROVE Typed'
  <2>1. ASSUME NEW u \in Units, NEW p \in Percents, SetPosition(c, u, p) PROVE Typed'
    BY <2>1, TypedBegin DEF SetPosition
  <2>2. ASSUME NEW u \in Units, NEW a \in Lights, TurnOn(c, u, a) PROVE Typed'
    BY <2>2, TypedBegin DEF TurnOn
  <2>3. ASSUME NEW u \in Units, TurnOff(c, u) PROVE Typed'
    BY <2>3, TypedBegin DEF TurnOff
  <2>4. ASSUME NEW a \in Asks, UseLibrary(c, a[1], a[2]) PROVE Typed'
    BY <2>4, TypedBegin DEF UseLibrary
  <2> QED BY <1>2, <2>1, <2>2, <2>3, <2>4, TypedBuild, TypedTransmit, TypedSendFails DEF Calls
<1>3. ASSUME NEW t \in Touches, Touch(t[1], t[2], t[3]) PROVE Typed'
  <2>1. PICK u \in Units : u = t[1]
    BY HomeAssumption
  <2>2. FitsIn(u, Put(u, t[2], t[3]))
    BY PutFits DEF Typed, Fixtures
  <2> QED BY <1>3, <2>1, <2>2, TypedMoves DEF Touch
<1>4. ASSUME NEW u \in Units, NEW tag \in DOMAIN Readings[u], NEW r \in Readings[u][tag],
             Sense(u, tag, r)
      PROVE  Typed'
  <2> DEFINE bits == Overwritten(Overwritten(fixture[u].bits, Control(Type[u], "SENSORGROUP"),
                                             tag + 1),
                                 Control(Type[u], "SENSORGROUPVALUE"), r)
  <2>1. Environment /\ Moves(u, bits)
    BY <1>4 DEF Sense
  <2>2. FitsIn(u, bits)
    <3>1. /\ Control(Type[u], "SENSORGROUP") # None
          /\ Control(Type[u], "SENSORGROUPVALUE") # None
      BY SensingAssumption
    <3> QED BY <3>1, SenseFits DEF Typed, Fixtures
  <2> HIDE DEF bits
  <2> QED BY <2>1, <2>2, TypedMoves
<1>5. ASSUME NEW raises \in BOOLEAN, Handle(raises) PROVE Typed'
  BY <1>5, TypedHandle
<1>6. CASE ApplyUpdate
  BY <1>6 DEF ApplyUpdate, Typed, UnitsOK
<1> QED BY <1>1, <1>2, <1>3, <1>4, <1>5, <1>6, TypedPress DEF Next

LEMMA TypedAlways == Spec => []Typed
BY TypedInit, TypedStep, PTL DEF Spec

\* Whatever arrives, a unit of the library holds values the setters of UnitState
\* accept, and no command writes beyond the bytes of a fixture's state.
THEOREM HomeTypes == Spec => []TypeOK
<1>1. Typed => TypeOK
  BY DEF Typed, TypeOK, UnitsOK, UnitOK, Fixtures, FitsIn, CallOK
<1> QED BY <1>1, TypedAlways, PTL
-----------------------------------------------------------------------------
(* What the entities show.                                                 *)

\* Reports nobody is told of have changed nothing.
LEMMA UntoldUnchanged ==
  ASSUME NEW S, NEW reports \in Seq(S),
         TakeReports(reports).ok, ~TakeReports(reports).told
  PROVE  TakeReports(reports).unit = unit
<1>1. PICK f : Takes(f, reports, Len(reports)) /\ TakeReports(reports) = f[Len(reports)]
  BY TakeReportsIs
<1>2. PICK n \in Nat : n = Len(reports)
  BY LenProperties
<1> DEFINE Q(x) == x.ok /\ ~x.told => x.unit = unit
           T == {i \in Nat : i <= n => Q(f[i])}
<1>3. 0 \in T
  <2>1. f[0] = [ok |-> TRUE, told |-> FALSE, unit |-> unit]
    BY <1>1, <1>2 DEF Takes
  <2>2. Q(f[0])
    BY <2>1
  <2> QED BY <2>2
<1>4. ASSUME NEW i \in Nat, i \in T PROVE i + 1 \in T
  <2> SUFFICES ASSUME i + 1 <= n PROVE Q(f[i + 1])
    OBVIOUS
  <2>1. i + 1 \in 0..Len(reports) /\ i + 1 # 0 /\ (i + 1) - 1 = i
    BY <1>2
  <2>2. f[i + 1] = TakeReport(f[i], reports[i + 1])
    BY <1>1, <2>1 DEF Takes
  <2>3. Q(f[i])
    BY <1>4
  <2> QED BY <2>2, <2>3, TakeReportIs
<1> HIDE DEF T, Q
<1>5. n \in T
  BY <1>3, <1>4, Induction
<1> QED BY <1>1, <1>2, <1>5 DEF T, Q

\* Only the handling of a packet changes what the library knows of its units, and
\* only the coordinator's update what is shown of them.
LEMMA UnitSteps ==
  ASSUME [Next]_vars
  PROVE  \/ \E raises \in BOOLEAN : Handle(raises)
         \/ ApplyUpdate
         \/ UNCHANGED <<unit, due, shown, listening>>
<1>1. ASSUME NEW c \in Callers, Calls(c) PROVE UNCHANGED <<unit, due, shown, listening>>
  <2>1. ASSUME NEW u \in Units, NEW p \in Percents, SetPosition(c, u, p)
        PROVE  UNCHANGED <<unit, due, shown, listening>>
    BY <2>1 DEF SetPosition, Begin
  <2>2. ASSUME NEW u \in Units, NEW a \in Lights, TurnOn(c, u, a)
        PROVE  UNCHANGED <<unit, due, shown, listening>>
    BY <2>2 DEF TurnOn, Begin
  <2>3. ASSUME NEW u \in Units, TurnOff(c, u) PROVE UNCHANGED <<unit, due, shown, listening>>
    BY <2>3 DEF TurnOff, Begin
  <2>4. ASSUME NEW a \in Asks, UseLibrary(c, a[1], a[2])
        PROVE  UNCHANGED <<unit, due, shown, listening>>
    BY <2>4 DEF UseLibrary, Begin
  <2>5. ASSUME Build(c) PROVE UNCHANGED <<unit, due, shown, listening>>
    BY <2>5 DEF Build
  <2>6. ASSUME Transmit(c) PROVE UNCHANGED <<unit, due, shown, listening>>
    BY <2>6 DEF Transmit
  <2>7. ASSUME SendFails(c) PROVE UNCHANGED <<unit, due, shown, listening>>
    BY <2>7 DEF SendFails
  <2> QED BY <1>1, <2>1, <2>2, <2>3, <2>4, <2>5, <2>6, <2>7 DEF Calls
<1>2. Environment => UNCHANGED <<unit, due, shown, listening>>
  BY DEF Environment
<1>3. ASSUME NEW t \in Touches, Touch(t[1], t[2], t[3]) PROVE Environment
  BY <1>3 DEF Touch
<1>4. ASSUME NEW u \in Units, NEW tag \in DOMAIN Readings[u], NEW r \in Readings[u][tag],
             Sense(u, tag, r)
      PROVE  Environment
  BY <1>4 DEF Sense
<1>5. ASSUME NEW ms \in Presses, Press(ms) PROVE Environment
  BY <1>5 DEF Press
<1>6. CASE UNCHANGED vars
  BY <1>6 DEF vars
<1> QED BY <1>1, <1>2, <1>3, <1>4, <1>5, <1>6 DEF Next

\* What the entities show is what the library knows as soon as no update is
\* scheduled, although _apply_unit_update runs later than the callback that
\* schedules it, once for several, and a handler before it may raise.
THEOREM ViewsCurrent == Spec => []ShownIsCurrent
<1>1. Init => ShownIsCurrent
  BY DEF Init, ShownIsCurrent
<1>2. Typed /\ ShownIsCurrent /\ [Next]_vars => ShownIsCurrent'
  <2> SUFFICES ASSUME Typed, ShownIsCurrent, [Next]_vars, listening', ~due'
               PROVE  shown' = [u \in Units |-> View(Type[u], unit'[u])]
    BY DEF ShownIsCurrent
  <2>1. ASSUME NEW raises \in BOOLEAN, Handle(raises)
        PROVE  shown' = [u \in Units |-> View(Type[u], unit'[u])]
    <3> DEFINE n  == Head(air)
               rs == IF n.type = "states" THEN parseUnitStates(n.data) ELSE <<>>
    <3>1. n \in Packets
      BY <2>1, HeadTailProperties DEF Handle, Typed
    <3>2. rs \in Seq(StateRecords)
      BY <3>1, ReportsTyped
    <3>3. /\ unit' = TakeReports(rs).unit /\ listening' = TakeReports(rs).ok
          /\ due' = (due \/ CoordinatorTold(TakeReports(rs).told, raises))
          /\ listening /\ shown' = shown
      BY <2>1 DEF Handle
    <3> HIDE DEF rs
    <3>4. TakeReports(rs).ok /\ ~TakeReports(rs).told /\ ~due
      BY <3>3 DEF CoordinatorTold
    <3>5. unit' = unit
      BY <3>2, <3>3, <3>4, UntoldUnchanged
    <3> QED BY <3>3, <3>4, <3>5 DEF ShownIsCurrent
  <2>2. ASSUME ApplyUpdate PROVE shown' = [u \in Units |-> View(Type[u], unit'[u])]
    BY <2>2 DEF ApplyUpdate
  <2>3. ASSUME UNCHANGED <<unit, due, shown, listening>>
        PROVE  shown' = [u \in Units |-> View(Type[u], unit'[u])]
    BY <2>3 DEF ShownIsCurrent
  <2> QED BY <2>1, <2>2, <2>3, UnitSteps
<1> QED BY <1>1, <1>2, TypedAlways, PTL DEF Spec

-----------------------------------------------------------------------------
(* What the library reads of a report.                                     *)

\* A state as it is read from the entry of a unit.
RecOf(u, bits) ==
  [id |-> Id[u], on |-> On(u, bits), online |-> TRUE,
   state |-> [i \in 1..Type[u].stateLength |-> StateByteOf(bits, i)]]

LEMMA LengthOf ==
  ASSUME NEW u \in Units
  PROVE  Type[u].stateLength \in 1..16
BY TypesAssumption

\* A packet holds a sequence of bytes behind its first bytes.
HoldsAt(data, at, e) ==
  /\ at + Len(e) <= Len(data)
  /\ \A j \in 1..Len(e) : data[at + j] = e[j]

LEMMA EntryAt ==
  ASSUME NEW data \in Seq(Nat), NEW u \in Units, NEW bits, NEW e, NEW x \in 0..3,
         Says0(e, u, bits, x), NEW at \in Nat, HoldsAt(data, at, e)
  PROVE  /\ at + 1 <= Len(data) - 3
         /\ StateAt(data, at + 1) = RecOf(u, bits)
         /\ NextState(data, at + 1) = at + Len(e) + 1
<1>1. PICK l \in 1..16 : l = Type[u].stateLength
  BY LengthOf
<1>2. /\ e \in Seq(Nat) /\ x \in 0..3 /\ Padding(e[2]) \in 0..3
      /\ Len(e) = 3 + x + l + Padding(e[2])
  BY <1>1 DEF Says0
<1>3. PICK p \in 0..3 : p = Padding(e[2])
  BY <1>2
<1>4. PICK n \in Nat : n = Len(data)
  BY LenProperties
<1>m. PICK m \in Nat : m = Len(e)
  BY <1>2, LenProperties
<1>5. at + 3 + x + l + p <= n /\ m = 3 + x + l + p
  <2>1. m = 3 + x + l + p
    BY <1>2, <1>3, <1>m
  <2>2. at + m <= n
    BY <1>4, <1>m DEF HoldsAt
  <2> QED BY <2>1, <2>2
<1>6. data[at + 1] = e[1] /\ data[at + 2] = e[2] /\ data[at + 3] = e[3]
  <2>1. \A j \in 1..m : data[at + j] = e[j]
    BY <1>m DEF HoldsAt
  <2>2. 1 \in 1..m /\ 2 \in 1..m /\ 3 \in 1..m
    BY <1>5
  <2> QED BY <2>1, <2>2
<1>7. /\ (at + 1) + 1 = at + 2 /\ (at + 1) + 2 = at + 3
      /\ data[(at + 1) + 1] = e[2] /\ data[(at + 1) + 2] = e[3]
  BY <1>6
<1>8. StateStart(data, at + 1) = at + 4 + x
  <2>1. PICK i, j, k : i = Bit(e[2], 2) /\ j = Bit(e[2], 3) /\ k = Bit(e[2], 4)
    OBVIOUS
  <2>2. i + j + k = x
    BY <2>1 DEF Says0
  <2>3. StateStart(data, at + 1) = (at + 1) + 3 + i + j + k
    BY <1>7, <2>1 DEF StateStart
  <2>4. i \in Int /\ j \in Int /\ k \in Int
    <3>1. e[2] \in Nat
      <4>1. 2 \in 1..Len(e)
        BY <1>5, <1>m
      <4> QED BY <1>2, <4>1, ElementOfSeq
    <3>2. PICK y \in Nat : y = e[2]
      BY <3>1
    <3>3. (y \div 2 ^ 2) % 2 \in Int /\ (y \div 2 ^ 3) % 2 \in Int /\ (y \div 2 ^ 4) % 2 \in Int
      BY Powers0
    <3> QED BY <2>1, <3>2, <3>3 DEF Bit
  <2> QED BY <2>2, <2>3, <2>4
<1>9. StateEnd(data, at + 1) = at + 3 + x + l
  <2>1. Size(e[3]) = l
    BY <1>1 DEF Says0
  <2> QED BY <1>7, <1>8, <2>1 DEF StateEnd
<1>10. NextState(data, at + 1) = at + Len(e) + 1
  <2>1. NextState(data, at + 1) = at + 3 + x + l + 1 + p
    BY <1>3, <1>7, <1>9 DEF NextState
  <2>2. at + 3 + x + l + 1 + p = at + m + 1
    BY <1>5
  <2> QED BY <1>m, <2>1, <2>2
<1>11. Min({StateEnd(data, at + 1), Len(data)}) = at + 3 + x + l
  <2>1. at + 3 + x + l <= n
    BY <1>5
  <2>2. Min({at + 3 + x + l, n}) = at + 3 + x + l
    <3>1. {at + 3 + x + l, n} \in SUBSET Nat /\ {at + 3 + x + l, n} # {}
      OBVIOUS
    <3>2. /\ Min({at + 3 + x + l, n}) \in {at + 3 + x + l, n}
          /\ \A k \in {at + 3 + x + l, n} : Min({at + 3 + x + l, n}) <= k
      BY <3>1, MinIs
    <3> QED BY <2>1, <3>2
  <2> QED BY <1>4, <1>9, <2>2
<1>12. SubSeq(data, at + 4 + x, at + 3 + x + l) = [i \in 1..l |-> StateByteOf(bits, i)]
  <2> DEFINE s == SubSeq(data, at + 4 + x, at + 3 + x + l)
  <2>1. PICK a, b : a = at + 4 + x /\ b = at + 3 + x + l /\ a \in 1..n /\ b \in 1..n
                    /\ b - a + 1 = l /\ a <= b
    BY <1>5
  <2>2. \A i \in a..b : data[i] \in Nat
    <3>1. \A i \in a..b : i \in 1..Len(data)
      BY <1>4, <2>1
    <3> QED BY <3>1, ElementOfSeq
  <2>3. /\ SubSeq(data, a, b) \in Seq(Nat) /\ Len(SubSeq(data, a, b)) = l
        /\ \A i \in 1..l : SubSeq(data, a, b)[i] = data[a + i - 1]
    BY <2>1, <2>2, SubSeqProperties
  <2>4. s \in Seq(Nat) /\ Len(s) = l /\ \A i \in 1..l : s[i] = data[a + i - 1]
    BY <2>1, <2>3
  <2> HIDE DEF s
  <2>5. ASSUME NEW i \in 1..l PROVE s[i] = StateByteOf(bits, i)
    <3>1. a + i - 1 = at + (3 + x + i) /\ 3 + x + i \in 1..Len(e)
      BY <1>5, <1>m, <2>1
    <3>2. data[at + (3 + x + i)] = e[3 + x + i]
      BY <3>1 DEF HoldsAt
    <3>3. e[3 + x + i] = StateByteOf(bits, i)
      BY <1>1 DEF Says0
    <3> QED BY <2>4, <3>1, <3>2, <3>3
  <2>6. s = [i \in 1..l |-> s[i]]
    BY <2>4, LenProperties
  <2>7. s = [i \in 1..l |-> StateByteOf(bits, i)]
    BY <2>5, <2>6
  <2> QED BY <2>7 DEF s
<1>13. StateAt(data, at + 1) = RecOf(u, bits)
  <2>1. e[1] = Id[u] /\ (Bit(e[2], 0) = 1 <=> On(u, bits)) /\ Bit(e[2], 1) = 1
    BY DEF Says0
  <2>2. (Bit(e[2], 0) = 1) = On(u, bits)
    BY <2>1 DEF On
  <2>3. StateAt(data, at + 1) =
          [id     |-> e[1],
           on     |-> Bit(e[2], 0) = 1,
           online |-> Bit(e[2], 1) = 1,
           state  |-> SubSeq(data, at + 4 + x, at + 3 + x + l)]
    BY <1>6, <1>7, <1>8, <1>11 DEF StateAt
  <2> QED BY <1>1, <1>12, <2>1, <2>2, <2>3 DEF RecOf
<1> QED BY <1>4, <1>5, <1>10, <1>13
LEMMA RecTyped ==
  ASSUME NEW u \in Units, NEW bits
  PROVE  RecOf(u, bits) \in StateRecords
<1>1. PICK l \in 1..16 : l = Type[u].stateLength
  BY LengthOf
<1>2. PICK s : s = [i \in 1..l |-> StateByteOf(bits, i)]
  OBVIOUS
<1>3. s \in Seq(Nat)
  <2>1. \A i \in 1..l : StateByteOf(bits, i) \in Nat
    BY StateByteTyped
  <2> QED BY <1>2, <2>1
<1>4. On(u, bits) \in BOOLEAN
  BY DEF On
<1>5. Id[u] \in Nat
  <2>1. Id[u] \in 1..255
    BY SMTT(40), HomeAssumption
  <2> QED BY <2>1
<1> QED BY <1>1, <1>2, <1>3, <1>4, <1>5 DEF RecOf, StateRecords

\* What a report tells, unit by unit.
Told(us, fs) ==
  [i \in DOMAIN Order |->
     IF Order[i] \in us THEN <<RecOf(Order[i], fs[Order[i]].bits)>> ELSE <<>>]

LEMMA OrderIs ==
  \E n \in Nat : n = Len(Order) /\ DOMAIN Order = 1..n /\ \A i \in 1..n : Order[i] \in Units
<1>1. DOMAIN Order = 1..Len(Order) /\ Len(Order) \in Nat
  BY HomeAssumption
<1>2. \A i \in DOMAIN Order : Order[i] \in Units
  BY HomeAssumption
<1> QED BY <1>1, <1>2

LEMMA ToldTyped ==
  ASSUME NEW us, NEW fs, NEW S,
         \A u \in Units : u \in us => RecOf(u, fs[u].bits) \in S
  PROVE  Told(us, fs) \in Seq(Seq(S)) /\ Len(Told(us, fs)) = Len(Order)
<1>1. PICK n \in Nat : n = Len(Order) /\ DOMAIN Order = 1..n
  BY OrderIs
<1>2. Told(us, fs) = [i \in 1..n |->
        IF Order[i] \in us THEN <<RecOf(Order[i], fs[Order[i]].bits)>> ELSE <<>>]
  BY <1>1 DEF Told
<1>3. ASSUME NEW i \in 1..n
      PROVE  (IF Order[i] \in us THEN <<RecOf(Order[i], fs[Order[i]].bits)>> ELSE <<>>) \in Seq(S)
  <2>1. PICK u \in Units : u = Order[i]
    BY <1>1, HomeAssumption
  <2>2. PICK r : r = RecOf(u, fs[u].bits)
    OBVIOUS
  <2>3. u \in us => r \in S
    BY <2>2
  <2> QED BY <2>1, <2>2, <2>3
<1> QED BY <1>1, <1>2, <1>3

\* _parseUnitStates reads from a report what the fixtures put into it: the flags, the
\* extra bytes and the padding of an entry never shift the entries behind it.
THEOREM ReportParsed ==
  ASSUME NEW us, NEW fs
  PROVE  parseUnitStates(Report(us, fs).data) = FlattenSeq(Told(us, fs))
<1>e. PICK ss : ss = Entries(us, fs)
  OBVIOUS
<1>1. PICK data \in Seq(Nat) : data = Report(us, fs).data
  BY EntriesTyped
<1>2. ss \in Seq(Seq(Nat)) /\ Len(ss) = Len(Order) /\ data = FlattenSeq(ss)
  BY SMTT(40), <1>e, <1>1, EntriesTyped
<1>3. PICK n \in Nat : n = Len(Order) /\ DOMAIN Order = 1..n
  BY HomeAssumption
<1>4. PICK f : States(f, data) /\ parseUnitStates(data) = f[1]
  BY ParseIs
<1>a. \A i \in 1..n : ss[i] = IF Order[i] \in us THEN Entry(Order[i], fs[Order[i]].bits) ELSE <<>>
  BY <1>e, <1>3 DEF Entries
<1>5. PICK p : /\ BeginsAt(p, ss) /\ p \in [0..n -> Nat] /\ Len(data) = p[n]
               /\ \A k \in 1..n : \A j \in 1..Len(ss[k]) :
                     /\ p[k - 1] + j \in 1..Len(data)
                     /\ data[p[k - 1] + j] = ss[k][j]
  <2>1. PICK p : Laid(p, ss, data)
    BY <1>2, FlattenSeqHolds
  <2> QED BY <1>2, <1>3, <2>1 DEF Laid
<1>6. /\ p[0] = 0 /\ \A i \in 1..n : p[i] = p[i - 1] + Len(ss[i])
  <2>1. p = [i \in 0..n |-> IF i = 0 THEN 0 ELSE p[i - 1] + Len(ss[i])]
    BY <1>2, <1>3, <1>5 DEF BeginsAt
  <2> QED BY <2>1
<1>7. PICK m \in Nat : m = Len(data) /\ m = p[n]
  BY <1>5
<1>8. \A i \in 0..n : p[i] <= m
  <2> DEFINE T == {k \in Nat : k <= n => p[n - k] <= m}
  <2>1. 0 \in T
    BY <1>5, <1>7
  <2>2. ASSUME NEW k \in Nat, k \in T PROVE k + 1 \in T
    <3> SUFFICES ASSUME k + 1 <= n PROVE p[n - (k + 1)] <= m
      OBVIOUS
    <3>1. n - k \in 1..n /\ (n - k) - 1 = n - (k + 1) /\ n - (k + 1) \in 0..n /\ n - k \in 0..n
      OBVIOUS
    <3>2. p[n - k] = p[n - (k + 1)] + Len(ss[n - k]) /\ Len(ss[n - k]) \in Nat
      <4>1. ss[n - k] \in Seq(Nat)
        BY <1>2, <1>3, <3>1, ElementOfSeq
      <4> QED BY <1>6, <3>1, <4>1, LenProperties
    <3>3. p[n - k] <= m
      BY <2>2
    <3>4. p[n - k] \in Nat /\ p[n - (k + 1)] \in Nat
      BY <1>5, <3>1
    <3> QED BY <3>2, <3>3, <3>4
  <2> HIDE DEF T
  <2>3. \A k \in Nat : k \in T
    BY <2>1, <2>2, Induction
  <2>4. ASSUME NEW i \in 0..n PROVE p[i] <= m
    <3>1. n - i \in Nat /\ n - i <= n /\ n - (n - i) = i
      OBVIOUS
    <3>2. n - i \in T
      BY <2>3, <3>1
    <3> QED BY <3>1, <3>2 DEF T
  <2> QED BY <2>4
<1>9. \A pos \in 1..(m + 25) :
        /\ f[pos] \in Seq(StateRecords)
        /\ pos > m - 3 => f[pos] = <<>>
        /\ ~(pos > m - 3) => f[pos] = <<StateAt(data, pos)>> \o f[NextState(data, pos)]
  BY <1>4, <1>7, StatesTyped DEF States
<1> DEFINE tt == Told(us, fs)
           r  == [i \in 1..(n + 1) |-> f[p[i - 1] + 1]]
<1>10. tt \in Seq(Seq(StateRecords)) /\ Len(tt) = n
  <2>1. \A u \in Units : u \in us => RecOf(u, fs[u].bits) \in StateRecords
    BY RecTyped
  <2> QED BY <1>3, <2>1, ToldTyped
<1>b. \A i \in 1..n : tt[i] = IF Order[i] \in us THEN <<RecOf(Order[i], fs[Order[i]].bits)>> ELSE <<>>
  BY <1>3 DEF Told
<1> HIDE DEF tt
<1>11. \A i \in 0..n : p[i] \in Nat /\ p[i] + 1 \in 1..(m + 25)
  BY <1>5, <1>8
<1>12. r \in [1..(Len(tt) + 1) -> Seq(StateRecords)]
  <2>1. ASSUME NEW i \in 1..(n + 1) PROVE f[p[i - 1] + 1] \in Seq(StateRecords)
    <3>1. i - 1 \in 0..n
      OBVIOUS
    <3> QED BY <1>9, <1>11, <3>1
  <2> QED BY <1>10, <2>1
<1>13. r[Len(tt) + 1] = <<>>
  <2>1. n + 1 \in 1..(n + 1) /\ (n + 1) - 1 = n /\ n \in 0..n
    OBVIOUS
  <2>2. r[n + 1] = f[m + 1]
    BY <1>7, <2>1
  <2>3. m + 1 \in 1..(m + 25) /\ m + 1 > m - 3
    OBVIOUS
  <2> QED BY <1>9, <1>10, <2>2, <2>3
<1>14. ASSUME NEW i \in 1..Len(tt) PROVE r[i] = tt[i] \o r[i + 1]
  <2>1. i \in 1..n /\ i \in 1..(n + 1) /\ i + 1 \in 1..(n + 1) /\ (i + 1) - 1 = i /\ i - 1 \in 0..n /\ i \in 0..n
    BY <1>10
  <2>2. r[i] = f[p[i - 1] + 1] /\ r[i + 1] = f[p[i] + 1]
    BY <2>1
  <2> HIDE DEF r
  <2>3. CASE Order[i] \notin us
    <3>1. ss[i] = <<>> /\ tt[i] = <<>>
      BY <1>a, <1>b, <2>1, <2>3
    <3>2. p[i] = p[i - 1]
      BY <1>6, <1>11, <2>1, <3>1
    <3>3. r[i + 1] \in Seq(StateRecords)
      BY <1>9, <1>11, <2>1, <2>2
    <3> QED BY <2>2, <3>1, <3>2, <3>3, ConcatEmptySeq
  <2>4. CASE Order[i] \in us
    <3>1. PICK u \in Units : u = Order[i]
      BY <1>3, <2>1, HomeAssumption
    <3>2. PICK bits, e : bits = fs[u].bits /\ e = Entry(u, bits)
      OBVIOUS
    <3>3. ss[i] = e /\ tt[i] = <<RecOf(u, bits)>>
      BY <1>a, <1>b, <2>1, <2>4, <3>1, <3>2
    <3>4. PICK x \in 0..3 : Says0(e, u, bits, x)
      <4>1. PICK x : Says0(e, u, bits, x)
        BY <3>2, EntryIs
      <4>2. x \in 0..3
        BY <4>1 DEF Says0
      <4> QED BY <4>1, <4>2
    <3>5. PICK at \in Nat : at = p[i - 1]
      BY <1>11, <2>1
    <3>6. e \in Seq(Nat) /\ Len(e) \in Nat
      BY <3>4, LenProperties DEF Says0
    <3>7. p[i] = at + Len(e)
      BY <1>6, <2>1, <3>3, <3>5
    <3>8. at + Len(e) <= Len(data)
      BY <1>7, <1>8, <2>1, <3>7
    <3>9. \A j \in 1..Len(e) : data[at + j] = e[j]
      BY <1>5, <2>1, <3>3, <3>5
    <3>10. /\ at + 1 <= Len(data) - 3
           /\ StateAt(data, at + 1) = RecOf(u, bits)
           /\ NextState(data, at + 1) = at + Len(e) + 1
      <4>1. HoldsAt(data, at, e)
        BY <3>8, <3>9 DEF HoldsAt
      <4> QED BY <3>4, <4>1, EntryAt
    <3>11. f[at + 1] = <<StateAt(data, at + 1)>> \o f[NextState(data, at + 1)]
      <4>1. at + 1 \in 1..(m + 25) /\ ~(at + 1 > m - 3)
        <5>1. at + 1 <= m - 3
          BY <1>7, <3>10
        <5> QED BY <5>1
      <4> QED BY <1>9, <4>1
    <3>12. NextState(data, at + 1) = p[i] + 1
      BY <3>6, <3>7, <3>10
    <3> QED BY <2>2, <3>3, <3>5, <3>10, <3>11, <3>12
  <2> QED BY <2>3, <2>4
<1>15. r[1] = FlattenSeq(tt)
  <2> HIDE DEF r
  <2> QED BY <1>10, <1>12, <1>13, <1>14, FlattenFromEnd
<1>16. r[1] = f[1]
  <2>1. 1 \in 1..(n + 1) /\ 1 - 1 = 0 /\ p[0] + 1 = 1
    BY <1>6
  <2> QED BY <2>1
<1> QED BY <1>1, <1>4, <1>15, <1>16 DEF tt
\* The bytes of an entry are the state of the fixture.
LEMMA BitsBack ==
  ASSUME NEW u \in Units, NEW bits, FitsIn(u, bits), NEW s, s = RecOf(u, bits).state
  PROVE  UNION {{8 * (i - 1) + j : j \in BitsOf(s[i])} : i \in DOMAIN s} = bits
<1>1. PICK l \in 1..16 : l = Type[u].stateLength
  BY LengthOf
<1>2. DOMAIN s = 1..l /\ \A i \in 1..l : s[i] = StateByteOf(bits, i)
  BY <1>1 DEF RecOf
<1>3. \A i \in 1..l : BitsOf(s[i]) = {j \in 0..7 : 8 * (i - 1) + j \in bits}
  <2> SUFFICES ASSUME NEW i \in 1..l
               PROVE  BitsOf(s[i]) = {j \in 0..7 : 8 * (i - 1) + j \in bits}
    OBVIOUS
  <2>1. PICK S : S = {j \in 0..7 : 8 * (i - 1) + j \in bits}
    OBVIOUS
  <2>2. S \in SUBSET (0..30)
    BY <2>1
  <2>3. s[i] = IntOf(S)
    BY <1>2, <2>1 DEF StateByteOf
  <2> QED BY <2>1, <2>2, <2>3, BitsOfIntOf
<1>4. ASSUME NEW b \in bits
      PROVE  \E i \in 1..l : \E j \in BitsOf(s[i]) : b = 8 * (i - 1) + j
  <2>1. b \in 0..(8 * l - 1)
    BY <1>1 DEF FitsIn
  <2>2. PICK q \in 0..15, j \in 0..7 : b = 8 * q + j /\ q + 1 \in 1..l
    <3>1. b \div 8 \in 0..15 /\ b % 8 \in 0..7 /\ b = 8 * (b \div 8) + (b % 8) /\ b \div 8 + 1 \in 1..l
      BY <2>1
    <3> QED BY <3>1
  <2>3. 8 * ((q + 1) - 1) + j = b
    BY <2>2
  <2>4. j \in BitsOf(s[q + 1])
    <3>1. PICK i \in 1..l : i = q + 1 /\ 8 * (i - 1) + j = b
      BY <2>2, <2>3
    <3>2. j \in {k \in 0..7 : 8 * (i - 1) + k \in bits}
      BY <3>1
    <3> QED BY <1>3, <3>1, <3>2
  <2> QED BY <2>2, <2>3, <2>4
<1>5. ASSUME NEW i \in 1..l, NEW j \in BitsOf(s[i]) PROVE 8 * (i - 1) + j \in bits
  BY <1>3
<1> QED BY <1>2, <1>4, <1>5

\* What the library knows of a unit is what its fixture has.
Heard(u, x, bits) ==
  x.state # None => /\ Decode(Type[u], x.state, bits) = [ok |-> TRUE, state |-> x.state]
                    /\ x.on = On(u, bits)

KeptAll(us) ==
  us = [v \in Units |-> us[v]] /\ \A v \in Units : us[v].state # None => Kept(us[v].state)

LEMMA TypeIs ==
  ASSUME NEW u \in Units
  PROVE  \E l \in Nat : DOMAIN Type[u].controls = 1..l /\ Len(Type[u].controls) = l
<1>1. /\ DOMAIN Type[u].controls = 1..Len(Type[u].controls)
      /\ Len(Type[u].controls) \in Nat
  BY TypesAssumption
<1> QED BY <1>1

\* What a report is for its unit.
Base(x) == IF x.state = None THEN NoState ELSE x.state

After(x, d, u, bits) ==
  IF d.ok THEN [state |-> d.state, on |-> On(u, bits), online |-> TRUE]
  ELSE [x EXCEPT !.state = d.state]

LEMMA TakeOneIs ==
  ASSUME NEW acc, acc.ok, NEW u \in Units, NEW bits, FitsIn(u, bits),
         NEW d, d = Decode(Type[u], Base(acc.unit[u]), bits)
  PROVE  TakeReport(acc, RecOf(u, bits)) =
           [ok |-> d.ok, told |-> acc.told \/ d.ok,
            unit |-> [acc.unit EXCEPT ![u] = After(acc.unit[u], d, u, bits)]]
<1>1. PICK r : r = RecOf(u, bits)
  OBVIOUS
<1>2. r.id = Id[u] /\ r.on = On(u, bits) /\ r.online = TRUE
  BY <1>1 DEF RecOf
<1>4. ~\A v \in Units : Id[v] # r.id
  BY <1>2
<1> DEFINE w     == CHOOSE v \in Units : Id[v] = r.id
           bytes == UNION {{8 * (i - 1) + j : j \in BitsOf(r.state[i])} : i \in DOMAIN r.state}
           got   == Decode(Type[w], IF acc.unit[w].state = None THEN NoState ELSE acc.unit[w].state,
                           bytes)
           then  == IF got.ok THEN [state |-> got.state, on |-> r.on, online |-> r.online]
                    ELSE [acc.unit[w] EXCEPT !.state = got.state]
<1>5. TakeReport(acc, r) =
        IF ~acc.ok \/ \A v \in Units : Id[v] # r.id THEN acc
        ELSE [ok |-> got.ok, told |-> acc.told \/ got.ok, unit |-> [acc.unit EXCEPT ![w] = then]]
  BY DEF TakeReport
<1>6. w = u
  <2>1. \A v \in Units : Id[v] = r.id => v = u
    BY <1>2, HomeAssumption
  <2> QED BY <1>2, <2>1
<1>7. bytes = bits
  BY <1>1, BitsBack
<1> HIDE DEF w, bytes
<1>8. d = got
  BY <1>6, <1>7 DEF Base
<1> HIDE DEF got
<1>9. then = After(acc.unit[u], d, u, bits)
  BY <1>2, <1>6, <1>8 DEF After
<1> HIDE DEF then
<1> QED BY <1>1, <1>4, <1>5, <1>6, <1>8, <1>9

LEMMA TakeOne ==
  ASSUME NEW acc, KeptAll(acc.unit), NEW u \in Units, NEW bits, FitsIn(u, bits),
         NEW new, new = TakeReport(acc, RecOf(u, bits)), new.ok
  PROVE  /\ acc.ok
         /\ KeptAll(new.unit)
         /\ Heard(u, new.unit[u], bits)
         /\ \A v \in Units : v # u => new.unit[v] = acc.unit[v]
<1>1. acc.ok
  BY DEF TakeReport
<1>2. PICK d : d = Decode(Type[u], Base(acc.unit[u]), bits)
  OBVIOUS
<1>3. new = [ok |-> d.ok, told |-> acc.told \/ d.ok,
             unit |-> [acc.unit EXCEPT ![u] = After(acc.unit[u], d, u, bits)]]
  BY <1>1, <1>2, TakeOneIs
<1>4. d.ok
  BY <1>3
<1>5. Kept(Base(acc.unit[u]))
  BY NoStateKept DEF KeptAll, Base
<1>6. Kept(d.state) /\ Decode(Type[u], d.state, bits) = [ok |-> TRUE, state |-> d.state]
  BY <1>2, <1>4, <1>5, TypeIs, DecodeAgain
<1>7. PICK x : x = [state |-> d.state, on |-> On(u, bits), online |-> TRUE]
  OBVIOUS
<1>8. new.unit = [v \in Units |-> IF v = u THEN x ELSE acc.unit[v]]
  <2>1. After(acc.unit[u], d, u, bits) = x
    BY <1>4, <1>7 DEF After
  <2> QED BY <1>3, <2>1 DEF KeptAll
<1>9. new.unit[u] = x /\ \A v \in Units : v # u => new.unit[v] = acc.unit[v]
  BY <1>8
<1>10. KeptAll(new.unit)
  BY <1>6, <1>7, <1>8, <1>9 DEF KeptAll
<1>11. Heard(u, x, bits)
  BY <1>6, <1>7 DEF Heard
<1> QED BY <1>1, <1>9, <1>10, <1>11

\* A packet in which every fixture it names is as fs has it, as far as the library
\* could read it.
LEMMA TakeTold ==
  ASSUME NEW us \in SUBSET Units, NEW fs, \A v \in Units : FitsIn(v, fs[v].bits),
         KeptAll(unit), NEW done, done = TakeReports(FlattenSeq(Told(us, fs))), done.ok
  PROVE  /\ KeptAll(done.unit)
         /\ \A v \in us : Heard(v, done.unit[v], fs[v].bits)
         /\ \A v \in Units \ us : done.unit[v] = unit[v]
<1> DEFINE S == {RecOf(u, fs[u].bits) : u \in us}
<1>1. PICK ss : ss = Told(us, fs)
  OBVIOUS
<1>2. ss \in Seq(Seq(S)) /\ Len(ss) = Len(Order)
  BY <1>1, ToldTyped
<1>3. PICK p : Laid(p, ss, FlattenSeq(ss))
  BY <1>2, FlattenSeqHolds
<1>4. PICK reports \in Seq(S) : reports = FlattenSeq(ss)
  BY <1>2, FlattenSeqHolds
<1>5. PICK l \in Nat : l = Len(reports)
  BY LenProperties
<1>6. ASSUME NEW v \in us
      PROVE  \E k \in 1..l : reports[k] = RecOf(v, fs[v].bits)
  <2>1. PICK n \in Nat : n = Len(Order) /\ DOMAIN Order = 1..n
    BY OrderIs
  <2>2. PICK i \in 1..n : Order[i] = v
    BY <2>1, HomeAssumption
  <2>3. PICK r : r = RecOf(v, fs[v].bits)
    OBVIOUS
  <2>4. ss[i] = <<r>>
    BY <1>1, <2>1, <2>2, <2>3 DEF Told
  <2>5. i \in 1..Len(ss) /\ 1 \in 1..Len(ss[i]) /\ ss[i][1] = r
    BY <1>2, <2>1, <2>4
  <2>6. p[i - 1] + 1 \in 1..Len(reports) /\ reports[p[i - 1] + 1] = ss[i][1]
    BY <1>3, <1>4, <2>5 DEF Laid
  <2> QED BY <1>5, <2>3, <2>5, <2>6
<1>7. ASSUME NEW k \in 1..l
      PROVE  \E u \in us : reports[k] = RecOf(u, fs[u].bits)
  <2>1. reports[k] \in S
    BY <1>5, ElementOfSeq
  <2> QED BY <2>1
<1> HIDE DEF S
<1>8. PICK f : Takes(f, reports, l) /\ TakeReports(reports) = f[l]
  BY <1>5, TakeReportsIs
<1>9. done = f[l]
  BY <1>1, <1>4, <1>8
<1>10. /\ f[0] = [ok |-> TRUE, told |-> FALSE, unit |-> unit]
       /\ \A i \in 0..l : i # 0 => f[i] = TakeReport(f[i - 1], reports[i])
  <2>1. f = [i \in 0..l |-> IF i = 0 THEN [ok |-> TRUE, told |-> FALSE, unit |-> unit]
                            ELSE TakeReport(f[i - 1], reports[i])]
    BY <1>8 DEF Takes
  <2>2. \A i \in 0..l : f[i] = IF i = 0 THEN [ok |-> TRUE, told |-> FALSE, unit |-> unit]
                               ELSE TakeReport(f[i - 1], reports[i])
    BY <2>1
  <2>3. 0 \in 0..l
    OBVIOUS
  <2> HIDE DEF S
  <2> QED BY <2>2, <2>3
<1> DEFINE Good(i) ==
             /\ KeptAll(f[i].unit)
             /\ \A v \in Units \ us : f[i].unit[v] = unit[v]
             /\ \A v \in us : (\E k \in 1..i : reports[k] = RecOf(v, fs[v].bits))
                                => Heard(v, f[i].unit[v], fs[v].bits)
           T == {i \in Nat : i <= l /\ f[i].ok => Good(i)}
<1>11. 0 \in T
  BY <1>10
<1>12. ASSUME NEW i \in Nat, i \in T PROVE i + 1 \in T
  <2> SUFFICES ASSUME i + 1 <= l, f[i + 1].ok PROVE Good(i + 1)
    OBVIOUS
  <2>1. i + 1 \in 0..l /\ i + 1 \in 1..l /\ i + 1 # 0 /\ (i + 1) - 1 = i /\ i <= l
    BY <1>5
  <2>2. PICK u \in us : reports[i + 1] = RecOf(u, fs[u].bits)
    BY <1>7, <2>1
  <2>3. PICK bits : bits = fs[u].bits /\ FitsIn(u, bits) /\ u \in Units
    OBVIOUS
  <2>4. PICK acc, new : acc = f[i] /\ new = f[i + 1]
    OBVIOUS
  <2>5. new = TakeReport(acc, RecOf(u, bits)) /\ new.ok
    BY SMTT(40), <1>10, <2>1, <2>2, <2>3, <2>4
  <2>6. acc.ok
    BY <2>5 DEF TakeReport
  <2>7. Good(i)
    BY <1>12, <2>1, <2>4, <2>6
  <2>8. KeptAll(acc.unit)
    BY <2>4, <2>7
  <2> HIDE DEF Good
  <2>9. /\ KeptAll(new.unit)
        /\ Heard(u, new.unit[u], bits)
        /\ \A v \in Units : v # u => new.unit[v] = acc.unit[v]
    BY <2>3, <2>5, <2>8, TakeOne
  <2>10. ASSUME NEW v \in Units \ us PROVE new.unit[v] = unit[v]
    BY <2>4, <2>7, <2>9 DEF Good
  <2>11. ASSUME NEW v \in us, NEW k \in 1..(i + 1), reports[k] = RecOf(v, fs[v].bits)
         PROVE  Heard(v, new.unit[v], fs[v].bits)
    <3>1. CASE v = u
      BY <2>3, <2>9, <3>1
    <3>2. CASE v # u
      <4>1. k # i + 1
        <5>1. Id[v] # Id[u]
          BY <2>3, <3>2, HomeAssumption
        <5>2. RecOf(v, fs[v].bits).id # RecOf(u, fs[u].bits).id
          BY <5>1 DEF RecOf
        <5> QED BY <2>2, <2>11, <5>2
      <4>2. k \in 1..i
        BY <4>1
      <4>3. Heard(v, acc.unit[v], fs[v].bits)
        BY <2>4, <2>7, <2>11, <4>2 DEF Good
      <4>4. v \in Units
        OBVIOUS
      <4> QED BY <2>9, <3>2, <4>3, <4>4
    <3> QED BY <3>1, <3>2
  <2> QED BY <2>4, <2>9, <2>10, <2>11 DEF Good
<1> HIDE DEF T
<1>13. l \in T
  BY <1>11, <1>12, Induction
<1>14. Good(l)
  BY <1>9, <1>13 DEF T
<1> QED BY <1>6, <1>9, <1>14
-----------------------------------------------------------------------------
(* The reports in the air and what the library knows.                      *)

\* Each packet of a queue is a report of fixtures, or it names none.
Logged(queue, us, fs) ==
  /\ us \in [1..Len(queue) -> SUBSET Units] /\ fs \in [1..Len(queue) -> Fixtures]
  /\ \A i \in 1..Len(queue) : \/ queue[i] = Report(us[i], fs[i])
                              \/ queue[i].type # "states" /\ us[i] = {}

\* The last report that names a unit has its fixture as it is; a unit that none
\* names is known as it is.
Newest(l, us, u, i) == u \in us[i] /\ \A j \in (i + 1)..l : u \notin us[j]

UpToDate(l, us, fs, fixtures, units, alive) ==
  \A u \in Units :
    /\ \A i \in 1..l : Newest(l, us, u, i) => fs[i][u].bits = fixtures[u].bits
    /\ alive /\ (\A i \in 1..l : u \notin us[i]) => Heard(u, units[u], fixtures[u].bits)

InAir(queue, fixtures, units, alive) ==
  \E us, fs : Logged(queue, us, fs) /\ UpToDate(Len(queue), us, fs, fixtures, units, alive)

\* A report of the fixtures that have changed is sent, or another packet.
LEMMA InAirAppend ==
  ASSUME NEW queue \in Seq(Packets), NEW fixtures, NEW units, NEW alive,
         InAir(queue, fixtures, units, alive),
         NEW n \in Packets, NEW named \in SUBSET Units, NEW now \in Fixtures,
         \/ n = Report(named, now)
         \/ n.type # "states" /\ named = {},
         \A u \in Units \ named : now[u] = fixtures[u]
  PROVE  InAir(Append(queue, n), now, units, alive)
<1>1. PICK us, fs : /\ Logged(queue, us, fs)
                    /\ UpToDate(Len(queue), us, fs, fixtures, units, alive)
  BY DEF InAir
<1>2. PICK l \in Nat : l = Len(queue)
  BY LenProperties
<1> DEFINE us2 == [i \in 1..(l + 1) |-> IF i = l + 1 THEN named ELSE us[i]]
           fs2 == [i \in 1..(l + 1) |-> IF i = l + 1 THEN now ELSE fs[i]]
<1>3. PICK q : q = Append(queue, n)
  OBVIOUS
<1>4. q \in Seq(Packets) /\ Len(q) = l + 1 /\ q[l + 1] = n /\ \A i \in 1..l : q[i] = queue[i]
  BY <1>2, <1>3, AppendProperties
<1>5. us \in [1..l -> SUBSET Units] /\ fs \in [1..l -> Fixtures]
  BY <1>1, <1>2 DEF Logged
<1>6. us2 \in [1..(l + 1) -> SUBSET Units] /\ fs2 \in [1..(l + 1) -> Fixtures]
  BY <1>5
<1>7. /\ us2[l + 1] = named /\ fs2[l + 1] = now
      /\ \A i \in 1..l : us2[i] = us[i] /\ fs2[i] = fs[i]
  OBVIOUS
<1> HIDE DEF us2, fs2
<1>8. Logged(q, us2, fs2)
  <2>1. ASSUME NEW i \in 1..(l + 1)
        PROVE  \/ q[i] = Report(us2[i], fs2[i])
               \/ q[i].type # "states" /\ us2[i] = {}
    <3>1. CASE i = l + 1
      BY <1>4, <1>7, <3>1
    <3>2. CASE i # l + 1
      <4>1. i \in 1..l
        BY <3>2
      <4> QED BY <1>1, <1>2, <1>4, <1>7, <4>1 DEF Logged
    <3> QED BY <3>1, <3>2
  <2> QED BY <1>4, <1>6, <2>1 DEF Logged
<1>9. UpToDate(l + 1, us2, fs2, now, units, alive)
  <2>1. ASSUME NEW u \in Units, NEW i \in 1..(l + 1), Newest(l + 1, us2, u, i)
        PROVE  fs2[i][u].bits = now[u].bits
    <3>1. CASE i = l + 1
      BY <1>7, <3>1
    <3>2. CASE i # l + 1
      <4>1. i \in 1..l /\ l + 1 \in (i + 1)..(l + 1)
        BY <3>2
      <4>2. u \notin named
        BY <1>7, <2>1, <4>1 DEF Newest
      <4>3. \A j \in (i + 1)..l : j \in 1..l /\ j \in (i + 1)..(l + 1)
        BY <4>1
      <4>4. Newest(l, us, u, i)
        BY <1>7, <2>1, <4>1, <4>3 DEF Newest
      <4>5. fs[i][u].bits = fixtures[u].bits
        BY <1>1, <1>2, <4>1, <4>4 DEF UpToDate
      <4> QED BY <1>7, <4>1, <4>2, <4>5
    <3> QED BY <3>1, <3>2
  <2>2. ASSUME NEW u \in Units, alive, \A i \in 1..(l + 1) : u \notin us2[i]
        PROVE  Heard(u, units[u], now[u].bits)
    <3>1. u \notin named
      <4>1. l + 1 \in 1..(l + 1)
        OBVIOUS
      <4> QED BY <1>7, <2>2, <4>1
    <3>2. \A i \in 1..l : u \notin us[i]
      <4>1. \A i \in 1..l : i \in 1..(l + 1)
        OBVIOUS
      <4> QED BY <1>7, <2>2, <4>1
    <3>3. Heard(u, units[u], fixtures[u].bits)
      BY <1>1, <1>2, <2>2, <3>2 DEF UpToDate
    <3>4. now[u] = fixtures[u]
      BY <3>1
    <3> QED BY <3>3, <3>4
  <2> QED BY <2>1, <2>2 DEF UpToDate
<1> QED BY <1>3, <1>4, <1>8, <1>9 DEF InAir

\* The first packet is handled.
LEMMA InAirTail ==
  ASSUME NEW queue \in Seq(Packets), queue # <<>>, NEW fixtures, NEW units, NEW alive,
         NEW us, NEW fs, Logged(queue, us, fs),
         UpToDate(Len(queue), us, fs, fixtures, units, alive),
         NEW units2, NEW alive2,
         alive2 => /\ alive
                   /\ \A u \in us[1] : Heard(u, units2[u], fs[1][u].bits)
                   /\ \A u \in Units \ us[1] : units2[u] = units[u]
  PROVE  InAir(Tail(queue), fixtures, units2, alive2)
<1>1. PICK l \in Nat : l + 1 = Len(queue)
  <2>1. Len(queue) \in Nat /\ Len(queue) # 0
    BY LenProperties, EmptySeq
  <2>2. Len(queue) - 1 \in Nat /\ (Len(queue) - 1) + 1 = Len(queue)
    BY <2>1
  <2> QED BY <2>2
<1> DEFINE us2 == [i \in 1..l |-> us[i + 1]]
           fs2 == [i \in 1..l |-> fs[i + 1]]
<1>2. PICK q : q = Tail(queue)
  OBVIOUS
<1>3. q \in Seq(Packets) /\ Len(q) = l /\ \A i \in 1..l : q[i] = queue[i + 1]
  BY <1>1, <1>2, HeadTailProperties
<1>4. us \in [1..(l + 1) -> SUBSET Units] /\ fs \in [1..(l + 1) -> Fixtures]
  BY <1>1 DEF Logged
<1>5. us2 \in [1..l -> SUBSET Units] /\ fs2 \in [1..l -> Fixtures]
  BY <1>4
<1>6. \A i \in 1..l : us2[i] = us[i + 1] /\ fs2[i] = fs[i + 1]
  OBVIOUS
<1> HIDE DEF us2, fs2
<1>7. Logged(q, us2, fs2)
  <2>1. ASSUME NEW i \in 1..l
        PROVE  \/ q[i] = Report(us2[i], fs2[i])
               \/ q[i].type # "states" /\ us2[i] = {}
    <3>1. i + 1 \in 1..Len(queue)
      BY <1>1
    <3> QED BY <1>3, <1>6, <3>1 DEF Logged
  <2> QED BY <1>3, <1>5, <2>1 DEF Logged
<1>8. UpToDate(l, us2, fs2, fixtures, units2, alive2)
  <2>1. ASSUME NEW u \in Units, NEW i \in 1..l, Newest(l, us2, u, i)
        PROVE  fs2[i][u].bits = fixtures[u].bits
    <3>1. i + 1 \in 1..(l + 1) /\ us2[i] = us[i + 1] /\ fs2[i] = fs[i + 1]
      BY <1>6
    <3>2. ASSUME NEW j \in ((i + 1) + 1)..(l + 1) PROVE u \notin us[j]
      <4>1. j - 1 \in (i + 1)..l /\ j - 1 \in 1..l /\ (j - 1) + 1 = j
        OBVIOUS
      <4> QED BY <1>6, <2>1, <4>1 DEF Newest
    <3>3. Newest(l + 1, us, u, i + 1)
      BY <2>1, <3>1, <3>2 DEF Newest
    <3> QED BY <1>1, <3>1, <3>3 DEF UpToDate
  <2>2. ASSUME NEW u \in Units, alive2, \A i \in 1..l : u \notin us2[i]
        PROVE  Heard(u, units2[u], fixtures[u].bits)
    <3>1. ASSUME NEW j \in 2..(l + 1) PROVE u \notin us[j]
      <4>1. j - 1 \in 1..l /\ (j - 1) + 1 = j
        OBVIOUS
      <4> QED BY <1>6, <2>2, <4>1
    <3>2. CASE u \in us[1]
      <4>1. Newest(l + 1, us, u, 1)
        BY <3>1, <3>2 DEF Newest
      <4>2. 1 \in 1..(l + 1)
        OBVIOUS
      <4>3. fs[1][u].bits = fixtures[u].bits
        BY <1>1, <4>1, <4>2 DEF UpToDate
      <4> QED BY <2>2, <3>2, <4>3
    <3>3. CASE u \notin us[1]
      <4>1. ASSUME NEW j \in 1..(l + 1) PROVE u \notin us[j]
        <5>1. j = 1 \/ j \in 2..(l + 1)
          OBVIOUS
        <5> QED BY <3>1, <3>3, <5>1
      <4>2. Heard(u, units[u], fixtures[u].bits)
        BY <1>1, <2>2, <4>1 DEF UpToDate
      <4>3. units2[u] = units[u]
        BY <2>2, <3>3
      <4> QED BY <4>2, <4>3
    <3> QED BY <3>2, <3>3
  <2> QED BY <2>1, <2>2 DEF UpToDate
<1> QED BY SMTT(40), <1>2, <1>3, <1>7, <1>8 DEF InAir
\* A step that reports what it has changed of the fixtures.
Reported(us) ==
  /\ \A u \in Units \ us : fixture'[u] = fixture[u]
  /\ air' = Append(air, Report(us, fixture'))
  /\ UNCHANGED <<unit, listening>>

LEMMA AirSteps ==
  ASSUME Typed, [Next]_vars
  PROVE  \/ \E raises \in BOOLEAN : Handle(raises)
         \/ \E us \in SUBSET Units : Reported(us)
         \/ \E ms \in Presses : Press(ms)
         \/ UNCHANGED <<unit, listening, fixture, air>>
<1> DEFINE Same == UNCHANGED <<unit, listening, fixture, air>>
<1>1. ASSUME NEW c \in Callers, Calls(c) PROVE Same \/ \E us \in SUBSET Units : Reported(us)
  <2>1. ASSUME NEW u \in Units, NEW p \in Percents, SetPosition(c, u, p) PROVE Same
    BY <2>1 DEF SetPosition, Begin
  <2>2. ASSUME NEW u \in Units, NEW a \in Lights, TurnOn(c, u, a) PROVE Same
    BY <2>2 DEF TurnOn, Begin
  <2>3. ASSUME NEW u \in Units, TurnOff(c, u) PROVE Same
    BY <2>3 DEF TurnOff, Begin
  <2>4. ASSUME NEW a \in Asks, UseLibrary(c, a[1], a[2]) PROVE Same
    BY <2>4 DEF UseLibrary, Begin
  <2>5. ASSUME Build(c) PROVE Same
    BY <2>5 DEF Build
  <2>6. ASSUME Transmit(c) PROVE \E us \in SUBSET Units : Reported(us)
    <3> DEFINE us == Addressed(call[c].target)
               p  == call[c].packet
    <3>1. /\ fixture' = [u \in Units |->
               IF u \in us THEN With(u, Applied(u, p.op, p.payload)) ELSE fixture[u]]
          /\ air' = Append(air, Report(us, fixture')) /\ UNCHANGED <<unit, listening>>
      BY <2>6 DEF Transmit
    <3> HIDE DEF us, p
    <3>2. \A u \in Units \ (us \cap Units) : fixture'[u] = fixture[u]
      BY <3>1
    <3>3. Report(us, fixture') = Report(us \cap Units, fixture')
      BY ReportOf
    <3>4. Reported(us \cap Units)
      BY <3>1, <3>2, <3>3 DEF Reported
    <3> QED BY <3>4
  <2>7. ASSUME SendFails(c) PROVE Same
    BY <2>7 DEF SendFails
  <2> QED BY <1>1, <2>1, <2>2, <2>3, <2>4, <2>5, <2>6, <2>7 DEF Calls
<1>2. ASSUME NEW u \in Units, NEW bits, Environment, Moves(u, bits)
      PROVE  \E us \in SUBSET Units : Reported(us)
  <2>1. \A v \in Units \ {u} : fixture'[v] = fixture[v]
    BY <1>2 DEF Moves, Typed, Fixtures
  <2>2. Reported({u})
    BY <1>2, <2>1 DEF Moves, Environment, Reported
  <2> QED BY <2>2
<1>3. ASSUME NEW t \in Touches, Touch(t[1], t[2], t[3])
      PROVE  \E us \in SUBSET Units : Reported(us)
  <2>1. PICK u \in Units : u = t[1]
    BY HomeAssumption
  <2> QED BY <1>2, <1>3, <2>1 DEF Touch
<1>4. ASSUME NEW u \in Units, NEW tag \in DOMAIN Readings[u], NEW r \in Readings[u][tag],
             Sense(u, tag, r)
      PROVE  \E us \in SUBSET Units : Reported(us)
  BY <1>2, <1>4 DEF Sense
<1>5. CASE ApplyUpdate
  BY <1>5 DEF ApplyUpdate
<1>6. CASE UNCHANGED vars
  BY <1>6 DEF vars
<1> QED BY <1>1, <1>3, <1>4, <1>5, <1>6 DEF Next

Synchronous == /\ listening => KeptAll(unit)
               /\ InAir(air, fixture, unit, listening)

LEMMA SynchronousInit == Init => Synchronous
<1> SUFFICES ASSUME Init PROVE Synchronous
  OBVIOUS
<1>1. \A u \in Units : unit[u].state = None
  BY DEF Init
<1>2. KeptAll(unit)
  BY <1>1 DEF Init, KeptAll
<1>3. air = <<>> /\ Len(air) = 0
  BY DEF Init
<1> DEFINE none == [i \in 1..0 |-> {}]
<1>4. none \in [1..0 -> SUBSET Units] /\ none \in [1..0 -> Fixtures]
  OBVIOUS
<1> HIDE DEF none
<1>5. Logged(air, none, none)
  BY <1>3, <1>4 DEF Logged
<1>6. UpToDate(Len(air), none, none, fixture, unit, listening)
  BY <1>1, <1>3 DEF UpToDate, Heard
<1> QED BY <1>2, <1>5, <1>6 DEF Synchronous, InAir

LEMMA SynchronousHandle ==
  ASSUME Typed, Synchronous, NEW raises \in BOOLEAN, Handle(raises)
  PROVE  Synchronous'
<1> DEFINE n  == Head(air)
           rs == IF n.type = "states" THEN parseUnitStates(n.data) ELSE <<>>
<1>1. /\ unit' = TakeReports(rs).unit /\ listening' = TakeReports(rs).ok
      /\ listening /\ air # <<>> /\ air' = Tail(air) /\ fixture' = fixture
  BY DEF Handle
<1>2. PICK us, fs : /\ Logged(air, us, fs)
                    /\ UpToDate(Len(air), us, fs, fixture, unit, listening)
  BY DEF Synchronous, InAir
<1>3. air \in Seq(Packets) /\ 1 \in 1..Len(air) /\ Head(air) = air[1]
  <2>1. air \in Seq(Packets)
    BY DEF Typed
  <2>2. Len(air) \in Nat /\ Len(air) # 0
    BY <1>1, <2>1, LenProperties, EmptySeq
  <2> QED BY <1>1, <2>1, <2>2, HeadTailProperties
<1>4. /\ us[1] \in SUBSET Units /\ fs[1] \in Fixtures
      /\ \/ n = Report(us[1], fs[1])
         \/ n.type # "states" /\ us[1] = {}
  BY <1>2, <1>3 DEF Logged
<1> HIDE DEF n
<1>5. KeptAll(unit)
  BY <1>1 DEF Synchronous
<1>6. CASE n.type # "states"
  <2>1. rs = <<>> /\ us[1] = {}
    BY <1>4, <1>6, EntriesTyped
  <2>2. PICK f : Takes(f, rs, 0) /\ TakeReports(rs) = f[0]
    <3>1. rs \in Seq(Nat) /\ Len(rs) = 0
      BY <2>1, EmptySeq
    <3> QED BY <3>1, TakeReportsIs
  <2>3. TakeReports(rs).unit = unit
    BY <2>2 DEF Takes
  <2> HIDE DEF rs
  <2>4. unit' = unit
    BY <1>1, <2>3
  <2>5. listening' => /\ listening
                      /\ \A u \in us[1] : Heard(u, unit'[u], fs[1][u].bits)
                      /\ \A u \in Units \ us[1] : unit'[u] = unit[u]
    BY <1>1, <2>1, <2>4
  <2>6. InAir(Tail(air), fixture, unit', listening')
    <3>1. PICK units, alive : units = unit' /\ alive = listening'
      OBVIOUS
    <3>2. alive => /\ listening
                   /\ \A u \in us[1] : Heard(u, units[u], fs[1][u].bits)
                   /\ \A u \in Units \ us[1] : units[u] = unit[u]
      BY <2>5, <3>1
    <3>3. InAir(Tail(air), fixture, units, alive)
      BY <1>1, <1>2, <1>3, <3>2, InAirTail
    <3> QED BY <3>1, <3>3
  <2> QED BY <1>1, <1>5, <2>4, <2>6 DEF Synchronous
<1>7. CASE n.type = "states"
  <2>1. n = Report(us[1], fs[1])
    BY <1>4, <1>7
  <2>2. rs = FlattenSeq(Told(us[1], fs[1]))
    BY <1>7, <2>1, ReportParsed
  <2> HIDE DEF rs
  <2>3. PICK done : done = TakeReports(rs)
    OBVIOUS
  <2>4. \A v \in Units : FitsIn(v, fs[1][v].bits)
    BY <1>4 DEF Fixtures
  <2>5. listening' => /\ KeptAll(done.unit)
                      /\ \A v \in us[1] : Heard(v, done.unit[v], fs[1][v].bits)
                      /\ \A v \in Units \ us[1] : done.unit[v] = unit[v]
    <3> SUFFICES ASSUME listening'
                 PROVE  /\ KeptAll(done.unit)
                        /\ \A v \in us[1] : Heard(v, done.unit[v], fs[1][v].bits)
                        /\ \A v \in Units \ us[1] : done.unit[v] = unit[v]
      OBVIOUS
    <3>0. PICK vs \in SUBSET Units : vs = us[1]
      BY <1>4
    <3>1. PICK gs : vs = us[1] /\ gs = fs[1]
      BY <3>0
    <3>2. done = TakeReports(FlattenSeq(Told(vs, gs))) /\ done.ok
      BY <1>1, <2>2, <2>3, <3>1
    <3>3. \A v \in Units : FitsIn(v, gs[v].bits)
      BY <2>4, <3>1
    <3>4. /\ KeptAll(done.unit)
          /\ \A v \in vs : Heard(v, done.unit[v], gs[v].bits)
          /\ \A v \in Units \ vs : done.unit[v] = unit[v]
      BY <1>5, <3>2, <3>3, TakeTold
    <3> QED BY <3>1, <3>4
  <2>6. InAir(Tail(air), fixture, done.unit, listening')
    <3>1. PICK units, alive : units = done.unit /\ alive = listening'
      OBVIOUS
    <3>2. alive => /\ listening
                   /\ \A u \in us[1] : Heard(u, units[u], fs[1][u].bits)
                   /\ \A u \in Units \ us[1] : units[u] = unit[u]
      BY <1>1, <2>5, <3>1
    <3>3. InAir(Tail(air), fixture, units, alive)
      BY <1>1, <1>2, <1>3, <3>2, InAirTail
    <3> QED BY <3>1, <3>3
  <2> QED BY <1>1, <2>3, <2>5, <2>6 DEF Synchronous
<1> QED BY <1>6, <1>7

LEMMA SynchronousStep ==
  ASSUME Typed, Synchronous, [Next]_vars
  PROVE  Synchronous'
<1>1. ASSUME NEW us \in SUBSET Units, Reported(us) PROVE Synchronous'
  <2>1. PICK n : n = Report(us, fixture')
    OBVIOUS
  <2>2. Typed'
    BY TypedStep
  <2>3. PICK now \in Fixtures : now = fixture'
    BY <2>2 DEF Typed
  <2>4. n \in Packets /\ air \in Seq(Packets)
    BY <2>1, <2>3, ReportTyped DEF Typed
  <2>5. \A u \in Units \ us : now[u] = fixture[u]
    BY <1>1, <2>3 DEF Reported
  <2>6. InAir(Append(air, n), now, unit, listening)
    BY <2>1, <2>3, <2>4, <2>5, InAirAppend DEF Synchronous
  <2> QED BY <1>1, <2>1, <2>3, <2>6 DEF Synchronous, Reported, KeptAll
<1>2. ASSUME NEW ms \in Presses, Press(ms) PROVE Synchronous'
  <2>1. PICK n : n = Switches(ms)
    OBVIOUS
  <2>2. n \in Packets /\ n.type # "states"
    <3>1. n \in Packets
      BY <2>1 DEF Packets
    <3>2. n.type = "switch"
      BY <2>1 DEF Switches
    <3> QED BY <3>1, <3>2
  <2>3. air \in Seq(Packets) /\ fixture \in Fixtures
    BY DEF Typed
  <2>4. InAir(Append(air, n), fixture, unit, listening)
    <3>1. \A u \in Units \ {} : fixture[u] = fixture[u]
      OBVIOUS
    <3> QED BY <2>2, <2>3, <3>1, InAirAppend DEF Synchronous
  <2> QED BY <1>2, <2>1, <2>4 DEF Synchronous, Press, Environment, Says, KeptAll
<1>3. CASE UNCHANGED <<unit, listening, fixture, air>>
  BY <1>3 DEF Synchronous, KeptAll
<1> QED BY <1>1, <1>2, <1>3, AirSteps, SynchronousHandle

\* Once every report has arrived and as long as the packets are handled at all, the
\* library knows each fixture that ever reported exactly as it is: the last report
\* that names it was sent after its last change, packets keep their order, and
\* decoding its bytes once more changes nothing.
THEOREM QuietUnitsAgree == Spec => []QuietAgrees
<1>1. Synchronous => QuietAgrees
  <2> SUFFICES ASSUME Synchronous, air = <<>>, listening, NEW u \in Units
               PROVE  Heard(u, unit[u], fixture[u].bits)
    BY DEF QuietAgrees, Heard
  <2>1. PICK us, fs : UpToDate(Len(air), us, fs, fixture, unit, listening)
    BY DEF Synchronous, InAir
  <2>2. Len(air) = 0
    OBVIOUS
  <2> QED BY <2>1, <2>2 DEF UpToDate
<1>2. Typed /\ Synchronous /\ [Next]_vars => Synchronous'
  BY SynchronousStep
<1> QED BY <1>1, <1>2, SynchronousInit, TypedAlways, PTL DEF Spec
-----------------------------------------------------------------------------
(* Tagged sensors. Their readings share the bits of one control; another   *)
(* says whose reading it is.                                               *)

GroupOf(u) == Control(Type[u], "SENSORGROUP")
ValueOf(u) == Control(Type[u], "SENSORGROUPVALUE")
Tagging(u) == "SENSORGROUP" \in ControlTypes(Type[u])

LEMMA TaggingIs ==
  ASSUME NEW u \in Units, Tagging(u)
  PROVE  /\ Of(u, GroupOf(u)) /\ GroupOf(u).type = "SENSORGROUP"
         /\ Of(u, ValueOf(u)) /\ ValueOf(u).type = "SENSORGROUPVALUE"
         /\ GroupOf(u).readonly /\ ValueOf(u).readonly /\ GroupOf(u).default = 0
         /\ \A c : Of(u, c) => /\ c.type = "SENSORGROUP" => c = GroupOf(u)
                               /\ c.type = "SENSORGROUPVALUE" => c = ValueOf(u)
         /\ \A tag \in DOMAIN Readings[u] :
              /\ tag \in Nat /\ tag + 1 \in 1..(2 ^ GroupOf(u).length - 1)
              /\ Readings[u][tag] \subseteq 0..(2 ^ ValueOf(u).length - 1)
<1> DEFINE group == Control(Type[u], "SENSORGROUP")
           value == Control(Type[u], "SENSORGROUPVALUE")
<1>1. PICK cs : cs = Type[u].controls
  OBVIOUS
<1>2. IF "SENSORGROUP" \notin ControlTypes(Type[u]) THEN DOMAIN Readings[u] = {}
      ELSE /\ group # None /\ value # None
           /\ group.readonly /\ value.readonly /\ group.default = 0
           /\ \A i \in DOMAIN cs : /\ cs[i].type = "SENSORGROUP" => cs[i] = group
                                   /\ cs[i].type = "SENSORGROUPVALUE" => cs[i] = value
           /\ \A tag \in DOMAIN Readings[u] :
                /\ tag + 1 \in 1..(2 ^ group.length - 1)
                /\ tag \in Nat /\ Readings[u][tag] \subseteq 0..(2 ^ value.length - 1)
  BY <1>1, SensingAssumption
<1> HIDE DEF group, value
<1>3. "SENSORGROUP" \in ControlTypes(Type[u])
  BY DEF Tagging
<1>4. group # None /\ value # None
  BY <1>2, <1>3
<1>5. /\ Of(u, group) /\ group.type = "SENSORGROUP"
      /\ Of(u, value) /\ value.type = "SENSORGROUPVALUE"
  BY <1>4, ControlOf DEF group, value
<1>a. \A i \in DOMAIN cs : /\ cs[i].type = "SENSORGROUP" => cs[i] = group
                           /\ cs[i].type = "SENSORGROUPVALUE" => cs[i] = value
  BY <1>2, <1>3
<1>6. ASSUME NEW c, Of(u, c)
      PROVE  /\ c.type = "SENSORGROUP" => c = group
             /\ c.type = "SENSORGROUPVALUE" => c = value
  <2>1. PICK i \in DOMAIN cs : c = cs[i]
    BY <1>1, <1>6 DEF Of
  <2> QED BY <1>a, <2>1
<1>7. \A tag \in DOMAIN Readings[u] :
        /\ tag \in Nat /\ tag + 1 \in 1..(2 ^ group.length - 1)
        /\ Readings[u][tag] \subseteq 0..(2 ^ value.length - 1)
  BY <1>2, <1>3
<1>8. group.readonly /\ value.readonly /\ group.default = 0
  BY <1>2, <1>3
<1>9. group = GroupOf(u) /\ value = ValueOf(u)
  BY DEF GroupOf, ValueOf, group, value
<1> QED BY <1>5, <1>6, <1>7, <1>8, <1>9

\* Different controls of a unit have no bit in common.
LEMMA Apart ==
  ASSUME NEW u \in Units, NEW c, NEW d, Of(u, c), Of(u, d), c # d
  PROVE  Place(c) \cap Place(d) = {}
<1>1. PICK i \in DOMAIN Type[u].controls : c = Type[u].controls[i]
  BY DEF Of
<1>2. PICK j \in DOMAIN Type[u].controls : d = Type[u].controls[j]
  BY DEF Of
<1> QED BY <1>1, <1>2, TypesAssumption

\* The reading a state carries, if it names a sensor, is one of this sensor.
ReadingOK(u, bits) ==
  Tagging(u) /\ Extract(GroupOf(u), bits) >= 1 =>
    /\ Extract(GroupOf(u), bits) - 1 \in DOMAIN Readings[u]
    /\ Extract(ValueOf(u), bits) \in Readings[u][Extract(GroupOf(u), bits) - 1]

\* Only a change of the two controls changes it.
LEMMA ReadingStays ==
  ASSUME NEW u \in Units, NEW old, ReadingOK(u, old), NEW new,
         Tagging(u) => /\ new \cap Place(GroupOf(u)) = old \cap Place(GroupOf(u))
                       /\ new \cap Place(ValueOf(u)) = old \cap Place(ValueOf(u))
  PROVE  ReadingOK(u, new)
<1>1. Tagging(u) => /\ Extract(GroupOf(u), new) = Extract(GroupOf(u), old)
                    /\ Extract(ValueOf(u), new) = Extract(ValueOf(u), old)
  BY DEF Extract
<1> QED BY <1>1 DEF ReadingOK

\* Writing a control leaves the bits of the others.
LEMMA OverwrittenApart ==
  ASSUME NEW u \in Units, NEW c, NEW d, Of(u, c), Of(u, d), c # d, NEW bits, NEW n
  PROVE  Overwritten(bits, c, n) \cap Place(d) = bits \cap Place(d)
BY Apart DEF Overwritten

LEMMA ReadingPut ==
  ASSUME NEW u \in Units, ReadingOK(u, fixture[u].bits), NEW t, NEW n,
         t \notin {"SENSORGROUP", "SENSORGROUPVALUE"}
  PROVE  ReadingOK(u, Put(u, t, n))
<1>1. CASE Control(Type[u], t) = None
  BY <1>1 DEF Put
<1>2. CASE Control(Type[u], t) # None
  <2>1. PICK c : c = Control(Type[u], t) /\ Of(u, c) /\ c.type = t
    BY <1>2, ControlOf
  <2>2. Put(u, t, n) = Overwritten(fixture[u].bits, c, n)
    BY <1>2, <2>1 DEF Put
  <2>3. PICK bits : bits = fixture[u].bits
    OBVIOUS
  <2>4. Tagging(u) =>
          /\ Overwritten(bits, c, n) \cap Place(GroupOf(u)) = bits \cap Place(GroupOf(u))
          /\ Overwritten(bits, c, n) \cap Place(ValueOf(u)) = bits \cap Place(ValueOf(u))
    <3> SUFFICES ASSUME Tagging(u)
                 PROVE  /\ Overwritten(bits, c, n) \cap Place(GroupOf(u)) = bits \cap Place(GroupOf(u))
                        /\ Overwritten(bits, c, n) \cap Place(ValueOf(u)) = bits \cap Place(ValueOf(u))
      OBVIOUS
    <3>1. /\ Of(u, GroupOf(u)) /\ GroupOf(u).type = "SENSORGROUP"
          /\ Of(u, ValueOf(u)) /\ ValueOf(u).type = "SENSORGROUPVALUE"
      BY TaggingIs
    <3>2. c # GroupOf(u) /\ c # ValueOf(u)
      BY <2>1, <3>1
    <3> QED BY <2>1, <3>1, <3>2, OverwrittenApart
  <2> QED BY <2>2, <2>3, <2>4, ReadingStays
<1> QED BY <1>1, <1>2

LEMMA WritableApart ==
  ASSUME NEW u \in Units, NEW c, Of(u, c), c.readonly
  PROVE  Writable(u) \cap Place(c) = {}
<1>1. ASSUME NEW d \in Range(Type[u].controls), ~d.readonly PROVE Place(d) \cap Place(c) = {}
  <2>1. Of(u, d) /\ c # d
    BY <1>1 DEF Of, Range
  <2> QED BY <2>1, Apart
<1> QED BY <1>1 DEF Writable

\* No command writes the two controls.
LEMMA ReadingApplied ==
  ASSUME NEW u \in Units, ReadingOK(u, fixture[u].bits), NEW op \in Ops, NEW payload
  PROVE  ReadingOK(u, Applied(u, op, payload))
<1>0. \A t \in {"DIMMER", "VERTICAL", "WHITE", "SLIDER", "TEMPERATURE", "RGB", "XY"} : \A n :
        ReadingOK(u, Put(u, t, n))
  BY ReadingPut
<1>1. CASE op = "SetState"
  <2>1. PICK bits, new : bits = fixture[u].bits /\ new = Applied(u, op, payload)
    OBVIOUS
  <2>2. new = (bits \ Writable(u)) \cup (payload \cap Writable(u))
    BY <1>1, <2>1 DEF Applied
  <2>3. ASSUME NEW c, Of(u, c), c.readonly PROVE new \cap Place(c) = bits \cap Place(c)
    <3>1. Writable(u) \cap Place(c) = {}
      BY <2>3, WritableApart
    <3> QED BY <2>2, <3>1
  <2>4. Tagging(u) => /\ new \cap Place(GroupOf(u)) = bits \cap Place(GroupOf(u))
                      /\ new \cap Place(ValueOf(u)) = bits \cap Place(ValueOf(u))
    BY <2>3, TaggingIs
  <2> QED BY <2>1, <2>4, ReadingStays
<1>2. CASE op = "SetLevel"
  BY <1>0, <1>2 DEF Applied
<1>3. CASE op = "RestoreLevel"
  BY <1>0, <1>3 DEF Applied
<1>4. CASE op = "SetVertical"
  BY <1>0, <1>4 DEF Applied
<1>5. CASE op = "SetWhite"
  BY <1>0, <1>5 DEF Applied
<1>6. CASE op = "SetSlider"
  BY <1>0, <1>6 DEF Applied
<1>7. CASE op = "SetTemperature"
  <2>1. CASE Control(Type[u], "TEMPERATURE") = None
    BY <1>7, <2>1 DEF Applied
  <2>2. CASE Control(Type[u], "TEMPERATURE") # None
    BY <1>0, <1>7, <2>2 DEF Applied
  <2> QED BY <2>1, <2>2
<1>8. CASE op = "SetColorXY"
  BY <1>0, <1>8 DEF Applied
<1>9. CASE op = "SetColor"
  BY <1>0, <1>9 DEF Applied
<1> QED BY <1>1, <1>2, <1>3, <1>4, <1>5, <1>6, <1>7, <1>8, <1>9 DEF Ops

\* A fixture nobody has changed names no sensor.
LEMMA ReadingFresh ==
  ASSUME NEW u \in Units
  PROVE  ReadingOK(u, Fresh(u).bits)
<1> SUFFICES ASSUME Tagging(u) PROVE ~(Extract(GroupOf(u), Fresh(u).bits) >= 1)
  BY DEF ReadingOK
<1>1. PICK g : g = GroupOf(u) /\ Of(u, g) /\ g.default = 0
  BY TaggingIs
<1>2. PICK bits : bits = Fresh(u).bits
  OBVIOUS
<1>3. bits = UNION {Placed(c, c.default) : c \in Range(Type[u].controls)}
  BY <1>2, FreshCode DEF Fresh, Encode
<1>4. Placed(g, 0) = {}
  <2>1. 0 \in Nat /\ 0 < Pow[0] /\ 0 \in 0..31
    BY PowTyped
  <2>2. BitsOf(0) \in SUBSET (0..(0 - 1))
    BY <2>1, BitsBelow
  <2>3. BitsOf(0) = {}
    BY <2>2
  <2> QED BY <2>3 DEF Placed
<1>5. ASSUME NEW c \in Range(Type[u].controls) PROVE Placed(c, c.default) \cap Place(g) = {}
  <2>1. Of(u, c)
    BY DEF Range, Of
  <2>2. CASE c = g
    BY <1>1, <1>4, <2>2
  <2>3. CASE c # g
    <3>1. Placed(c, c.default) \subseteq Place(c)
      BY <2>1, OfIs, PlacedFits
    <3> QED BY <1>1, <2>1, <2>3, <3>1, Apart
  <2> QED BY <2>2, <2>3
<1>6. bits \cap Place(g) = {}
  BY <1>3, <1>5
<1>7. Extract(g, bits) = 0
  <2>1. {i - g.offset : i \in bits \cap Place(g)} = {}
    BY <1>6
  <2> QED BY <2>1 DEF Extract, IntOf
<1> QED BY <1>1, <1>2, <1>7

\* A new reading names its sensor.
LEMMA ReadingSensed ==
  ASSUME NEW u \in Units, NEW tag \in DOMAIN Readings[u], NEW r \in Readings[u][tag], NEW bits
  PROVE  ReadingOK(u, Overwritten(Overwritten(bits, GroupOf(u), tag + 1), ValueOf(u), r))
<1>1. CASE ~Tagging(u)
  BY <1>1 DEF ReadingOK
<1>2. CASE Tagging(u)
  <2>1. PICK g, v : /\ g = GroupOf(u) /\ Of(u, g) /\ g.type = "SENSORGROUP"
                    /\ v = ValueOf(u) /\ Of(u, v) /\ v.type = "SENSORGROUPVALUE"
    BY <1>2, TaggingIs
  <2>2. tag \in Nat /\ tag + 1 \in 1..(2 ^ g.length - 1) /\ r \in 0..(2 ^ v.length - 1)
    BY <1>2, <2>1, TaggingIs
  <2>3. g # v /\ g.offset \in Nat /\ g.length \in 0..31 /\ v.offset \in Nat /\ v.length \in 0..31
    BY <2>1, OfIs
  <2>4. Pow[g.length] = 2 ^ g.length /\ Pow[v.length] = 2 ^ v.length
        /\ Pow[g.length] \in Nat /\ Pow[v.length] \in Nat
    <3>1. g.length \in 0..32 /\ v.length \in 0..32
      BY <2>3
    <3> QED BY <3>1, PowTyped DEF Pow
  <2>5. /\ tag + 1 \in Nat /\ tag + 1 < Pow[g.length] /\ tag + 1 >= 1
        /\ r \in Nat /\ r < Pow[v.length]
    BY <2>2, <2>4
  <2>6. PICK a : a = Overwritten(bits, g, tag + 1)
    OBVIOUS
  <2>7. PICK b : b = Overwritten(a, v, r)
    OBVIOUS
  <2>8. a \cap Place(g) = Placed(g, tag + 1)
    <3>1. Placed(g, tag + 1) \subseteq Place(g)
      BY <2>3, <2>5, PlacedFits
    <3> QED BY <2>6, <3>1 DEF Overwritten
  <2>9. b \cap Place(v) = Placed(v, r)
    <3>1. Placed(v, r) \subseteq Place(v)
      BY <2>3, <2>5, PlacedFits
    <3> QED BY <2>7, <3>1 DEF Overwritten
  <2>10. b \cap Place(g) = a \cap Place(g)
    BY <2>1, <2>3, <2>7, OverwrittenApart
  <2>11. Extract(g, b) = tag + 1
    BY <2>3, <2>5, <2>8, <2>10, PlacedExtract
  <2>12. Extract(v, b) = r
    BY <2>3, <2>5, <2>9, PlacedExtract
  <2>13. (tag + 1) - 1 = tag
    BY <2>2
  <2> QED BY <2>1, <2>6, <2>7, <2>11, <2>12, <2>13 DEF ReadingOK
<1> QED BY <1>1, <1>2

\* A reading held under a name is one of a tagged sensor of this name.
SensorsOK(u, st) ==
  \A n \in DOMAIN st.sensors :
    \E c \in TaggedSensors(Type[u]) : c.name = n /\ st.sensors[n] \in Readings[u][c.tag]

\* The reading that is fresh is that of the sensor it is taken for.
LEMMA FreshReading ==
  ASSUME NEW u \in Units, NEW bits, ReadingOK(u, bits), NEW c, IsFresh(Type[u], c, bits)
  PROVE  GroupRaw(Type[u], bits)[c.offset] \in Readings[u][c.tag]
<1> DEFINE ty     == Type[u]
           named  == {i \in DOMAIN ty.controls : /\ ty.controls[i].type = "SENSORGROUP"
                                                 /\ Extract(ty.controls[i], bits) >= 1}
           groups == {d \in Range(ty.controls) : d.type = "SENSORGROUPVALUE"}
<1>1. PICK l \in Nat : DOMAIN ty.controls = 1..l
  BY TypeIs
<1>2. /\ ActiveTag(ty, bits) # None /\ c.tag = ActiveTag(ty, bits)
      /\ c.offset \in DOMAIN GroupRaw(ty, bits)
  BY DEF IsFresh
<1>3. named # {} /\ c.tag = Extract(ty.controls[Max(named)], bits) - 1
  BY <1>2 DEF ActiveTag
<1>4. Max(named) \in named
  <2>1. named \in SUBSET Nat /\ \A k \in named : k <= l
    BY <1>1
  <2> HIDE DEF named
  <2> QED BY <1>3, <2>1, MaxIs
<1>5. PICK g : g = ty.controls[Max(named)] /\ Of(u, g) /\ g.type = "SENSORGROUP"
               /\ Extract(g, bits) >= 1 /\ c.tag = Extract(g, bits) - 1
  BY <1>3, <1>4 DEF Of
<1>6. Tagging(u)
  <2>1. g \in Range(ty.controls)
    BY <1>5, OfIs
  <2> QED BY <1>5, <2>1 DEF Tagging, ControlTypes
<1>7. g = GroupOf(u)
  BY <1>5, <1>6, TaggingIs
<1>8. c.tag \in DOMAIN Readings[u] /\ Extract(ValueOf(u), bits) \in Readings[u][c.tag]
  BY <1>5, <1>6, <1>7 DEF ReadingOK
<1>9. GroupRaw(ty, bits) = [o \in {d.offset : d \in groups} |->
                              Extract(CHOOSE d \in groups : d.offset = o, bits)]
  BY DEF GroupRaw
<1>10. \A d \in groups : d = ValueOf(u)
  <2>1. \A d \in Range(ty.controls) : Of(u, d)
    BY DEF Range, Of
  <2> QED BY <1>6, <2>1, TaggingIs
<1> HIDE DEF groups
<1>11. \E d \in groups : d.offset = c.offset
  BY <1>2, <1>9
<1>12. (CHOOSE d \in groups : d.offset = c.offset) = ValueOf(u)
  BY <1>10, <1>11
<1>13. GroupRaw(ty, bits)[c.offset] = Extract(ValueOf(u), bits)
  BY <1>9, <1>11, <1>12
<1> QED BY <1>8, <1>13

LEMMA ReadControlSensors ==
  ASSUME NEW u \in Units, NEW bits, ReadingOK(u, bits), NEW st, Kept(st), SensorsOK(u, st),
         NEW c \in Range(Type[u].controls)
  PROVE  SensorsOK(u, ReadControl(Type[u], bits, st, c))
<1>0. "sensors" \in DOMAIN st
  BY FieldIs DEF Kept
<1>1. CASE c.type = "SENSOR" /\ c.length = 0
  <2>1. PICK v : v = Tagged(Type[u], c, bits, st["sensors"])
    OBVIOUS
  <2>2. ReadControl(Type[u], bits, st, c) = [st EXCEPT !["sensors"] = v]
    BY <1>1, <2>1, ReadControlIs
  <2>3. ReadControl(Type[u], bits, st, c).sensors = v
    BY <1>0, <2>2
  <2>4. ASSUME NEW n \in DOMAIN v
        PROVE  \E d \in TaggedSensors(Type[u]) : d.name = n /\ v[n] \in Readings[u][d.tag]
    <3>1. CASE IsFresh(Type[u], c, bits)
      <4>1. PICK x : x = GroupRaw(Type[u], bits)[c.offset] /\ x \in Readings[u][c.tag]
        BY <3>1, FreshReading
      <4>2. v = Updated(st["sensors"], c.name, x)
        BY <2>1, <3>1, <4>1, TaggedIs
      <4>3. CASE n = c.name
        <5>1. c \in TaggedSensors(Type[u])
          BY <1>1, <3>1 DEF TaggedSensors, IsFresh
        <5>2. v[n] = x
          BY <4>2, <4>3 DEF Updated
        <5> QED BY <4>1, <4>3, <5>1, <5>2
      <4>4. CASE n # c.name
        <5>1. n \in DOMAIN st.sensors /\ v[n] = st.sensors[n]
          BY <4>2, <4>4 DEF Updated
        <5> QED BY <5>1 DEF SensorsOK
      <4> QED BY <4>3, <4>4
    <3>2. CASE ~IsFresh(Type[u], c, bits)
      <4>1. v = st.sensors
        BY <2>1, <3>2, TaggedIs
      <4> QED BY <4>1 DEF SensorsOK
    <3> QED BY <3>1, <3>2
  <2> QED BY <2>3, <2>4 DEF SensorsOK
<1>2. CASE Reads(c) /\ ~(c.type = "SENSOR" /\ c.length = 0)
  <2>1. PICK k, v : /\ k = Field[c.type]
                    /\ ReadControl(Type[u], bits, st, c) = [st EXCEPT ![k] = v]
    <3>1. ReadControl(Type[u], bits, st, c) = [st EXCEPT ![Field[c.type]] = Reading(c, Extract(c, bits))]
      BY <1>2, ReadControlIs
    <3> QED BY <3>1
  <2>2. k # "sensors"
    BY <1>2, <2>1, FieldIs DEF Reads
  <2>3. ReadControl(Type[u], bits, st, c).sensors = st.sensors
    BY <1>0, <2>1, <2>2
  <2> QED BY <2>3 DEF SensorsOK
<1>3. CASE ~Reads(c) /\ ~(c.type = "SENSOR" /\ c.length = 0)
  BY <1>3, ReadControlIs
<1> QED BY <1>1, <1>2, <1>3

\* Decoding keeps the sensors apart, also when it ends with an exception.
LEMMA DecodeSensors ==
  ASSUME NEW u \in Units, NEW bits, ReadingOK(u, bits), NEW st, Kept(st), SensorsOK(u, st),
         NEW new, new = Decode(Type[u], st, bits).state
  PROVE  Kept(new) /\ SensorsOK(u, new)
<1>1. PICK ty : ty = Type[u]
  OBVIOUS
<1>2. PICK l \in Nat : DOMAIN ty.controls = 1..l /\ Len(ty.controls) = l
  BY <1>1, TypeIs
<1>3. PICK n \in 0..l : \E f : Decodes(f, n, ty, st, bits)
  BY <1>2, DecodeIs
<1>4. PICK f : Folds(f, ty, st, bits, n) /\ new = f[n]
  BY <1>1, <1>3 DEF Decodes
<1>5. \A i \in 0..n : Kept(f[i])
  BY <1>4, FoldsKept
<1> DEFINE T == {i \in Nat : i <= n => SensorsOK(u, f[i])}
<1>6. 0 \in T
  <2>1. f[0] = st
    BY <1>4 DEF Folds
  <2> QED BY <2>1
<1>7. ASSUME NEW i \in Nat, i \in T PROVE i + 1 \in T
  <2> SUFFICES ASSUME i + 1 <= n PROVE SensorsOK(u, f[i + 1])
    OBVIOUS
  <2>1. i + 1 \in 0..n /\ i + 1 # 0 /\ (i + 1) - 1 = i /\ i <= n /\ i \in 0..n
    OBVIOUS
  <2>2. f[i + 1] = ReadControl(ty, bits, f[i], ty.controls[i + 1])
    BY <1>4, <2>1 DEF Folds
  <2>3. PICK a, c : a = f[i] /\ c = ty.controls[i + 1]
    OBVIOUS
  <2>4. Kept(a) /\ SensorsOK(u, a)
    BY <1>5, <1>7, <2>1, <2>3
  <2>5. c \in Range(Type[u].controls)
    <3>1. i + 1 \in DOMAIN ty.controls
      BY <1>2, <2>1
    <3> QED BY <1>1, <2>3, <3>1 DEF Range
  <2> QED BY <1>1, <2>2, <2>3, <2>4, <2>5, ReadControlSensors
<1> HIDE DEF T
<1>8. n \in T
  BY <1>6, <1>7, Induction
<1>9. SensorsOK(u, f[n])
  BY <1>8 DEF T
<1> QED BY <1>4, <1>5, <1>9

\* What holds of the library's units.
SensedUnit(u, x) ==
  /\ "state" \in DOMAIN x
  /\ x.state # None => Kept(x.state) /\ SensorsOK(u, x.state)

Sensed(us) == us = [v \in Units |-> us[v]] /\ \A v \in Units : SensedUnit(v, us[v])

LEMMA NoSensors ==
  ASSUME NEW u
  PROVE  SensorsOK(u, NoState)
BY DEF SensorsOK, NoState

LEMMA TakeOneSensed ==
  ASSUME NEW acc, Sensed(acc.unit), NEW u \in Units, NEW bits, FitsIn(u, bits), ReadingOK(u, bits)
  PROVE  Sensed(TakeReport(acc, RecOf(u, bits)).unit)
<1>1. CASE ~acc.ok
  <2>1. TakeReport(acc, RecOf(u, bits)) = acc
    BY <1>1 DEF TakeReport
  <2> QED BY <2>1
<1>2. CASE acc.ok
  <2>1. PICK st : st = Base(acc.unit[u])
    OBVIOUS
  <2>2. Kept(st) /\ SensorsOK(u, st)
    BY <2>1, NoStateKept, NoSensors DEF Sensed, SensedUnit, Base
  <2>3. PICK d : d = Decode(Type[u], st, bits)
    OBVIOUS
  <2>4. Kept(d.state) /\ SensorsOK(u, d.state)
    BY <2>2, <2>3, DecodeSensors
  <2>5. PICK x : x = After(acc.unit[u], d, u, bits)
    OBVIOUS
  <2>6. "state" \in DOMAIN x /\ x.state = d.state
    <3>1. CASE d.ok
      <4>1. x = [state |-> d.state, on |-> On(u, bits), online |-> TRUE]
        BY <2>5, <3>1 DEF After
      <4> QED BY <4>1
    <3>2. CASE ~d.ok
      <4>1. x = [acc.unit[u] EXCEPT !["state"] = d.state]
        BY <2>5, <3>2 DEF After
      <4>2. "state" \in DOMAIN acc.unit[u]
        BY DEF Sensed, SensedUnit
      <4> QED BY <4>1, <4>2
    <3> QED BY <3>1, <3>2
  <2>7. TakeReport(acc, RecOf(u, bits)).unit = [acc.unit EXCEPT ![u] = x]
    BY <1>2, <2>1, <2>3, <2>5, TakeOneIs
  <2>8. SensedUnit(u, x)
    BY <2>4, <2>6 DEF SensedUnit
  <2>9. Sensed([acc.unit EXCEPT ![u] = x])
    BY <2>8 DEF Sensed
  <2> QED BY <2>7, <2>9
<1> QED BY <1>1, <1>2

LEMMA TakeToldSensed ==
  ASSUME Sensed(unit), NEW us \in SUBSET Units, NEW fs,
         \A v \in Units : FitsIn(v, fs[v].bits) /\ ReadingOK(v, fs[v].bits)
  PROVE  Sensed(TakeReports(FlattenSeq(Told(us, fs))).unit)
<1> DEFINE S == {RecOf(u, fs[u].bits) : u \in us}
<1>1. PICK reports \in Seq(S) : reports = FlattenSeq(Told(us, fs))
  <2>1. Told(us, fs) \in Seq(Seq(S))
    BY ToldTyped
  <2> QED BY <2>1, FlattenSeqHolds
<1>2. PICK l \in Nat : l = Len(reports)
  BY LenProperties
<1>3. ASSUME NEW k \in 1..l PROVE \E u \in us : reports[k] = RecOf(u, fs[u].bits)
  <2>1. reports[k] \in S
    BY <1>2, ElementOfSeq
  <2> QED BY <2>1
<1> HIDE DEF S
<1>4. PICK f : Takes(f, reports, l) /\ TakeReports(reports) = f[l]
  BY <1>2, TakeReportsIs
<1>5. \A i \in 0..l : f[i] = IF i = 0 THEN [ok |-> TRUE, told |-> FALSE, unit |-> unit]
                             ELSE TakeReport(f[i - 1], reports[i])
  <2>1. f = [i \in 0..l |-> IF i = 0 THEN [ok |-> TRUE, told |-> FALSE, unit |-> unit]
                            ELSE TakeReport(f[i - 1], reports[i])]
    BY <1>4 DEF Takes
  <2> QED BY <2>1
<1> DEFINE T == {i \in Nat : i <= l => Sensed(f[i].unit)}
<1>6. 0 \in T
  <2>1. 0 \in 0..l
    OBVIOUS
  <2>2. f[0] = [ok |-> TRUE, told |-> FALSE, unit |-> unit]
    BY <1>5, <2>1
  <2>3. f[0].unit = unit
    BY <2>2
  <2> QED BY <2>3
<1>7. ASSUME NEW i \in Nat, i \in T PROVE i + 1 \in T
  <2> SUFFICES ASSUME i + 1 <= l PROVE Sensed(f[i + 1].unit)
    OBVIOUS
  <2>1. i + 1 \in 0..l /\ i + 1 # 0 /\ (i + 1) - 1 = i /\ i <= l /\ i + 1 \in 1..l
    OBVIOUS
  <2>2. PICK u \in us : reports[i + 1] = RecOf(u, fs[u].bits)
    BY <1>3, <2>1
  <2>3. PICK acc, bits : acc = f[i] /\ bits = fs[u].bits
    OBVIOUS
  <2>4. f[i + 1] = TakeReport(acc, RecOf(u, bits))
    BY <1>5, <2>1, <2>2, <2>3
  <2>5. Sensed(acc.unit) /\ u \in Units /\ FitsIn(u, bits) /\ ReadingOK(u, bits)
    BY <1>7, <2>1, <2>3
  <2> QED BY <2>4, <2>5, TakeOneSensed
<1> HIDE DEF T
<1>8. l \in T
  BY <1>6, <1>7, Induction
<1>9. Sensed(f[l].unit)
  BY <1>8 DEF T
<1> QED BY <1>1, <1>4, <1>9
\* What the fixtures have and report names true readings.
GoodFixtures == {fs \in Fixtures : \A u \in Units : ReadingOK(u, fs[u].bits)}

GoodPackets == {Report(us, fs) : us \in SUBSET Units, fs \in GoodFixtures}
               \cup {Switches(ms) : ms \in Presses}

Sound == Sensed(unit) /\ fixture \in GoodFixtures /\ air \in Seq(GoodPackets)

LEMMA ReadingWith ==
  ASSUME Sound, NEW u \in Units, NEW bits, ReadingOK(u, bits), Moves(u, bits)
  PROVE  \A v \in Units : ReadingOK(v, fixture'[v].bits)
<1>1. fixture = [v \in Units |-> fixture[v]] /\ fixture' = [fixture EXCEPT ![u] = With(u, bits)]
  BY DEF Sound, GoodFixtures, Fixtures, Moves
<1>2. ASSUME NEW v \in Units PROVE ReadingOK(v, fixture'[v].bits)
  <2>1. CASE v = u
    <3>1. fixture'[v].bits = bits
      BY <1>1, <2>1, WithIs
    <3> QED BY <2>1, <3>1
  <2>2. CASE v # u
    <3>1. fixture'[v] = fixture[v]
      BY <1>1, <2>2
    <3> QED BY <3>1 DEF Sound, GoodFixtures
  <2> QED BY <2>1, <2>2
<1> QED BY <1>2

LEMMA FixturesGood ==
  ASSUME Typed, Sound, [Next]_vars
  PROVE  fixture' \in GoodFixtures
<1> DEFINE Good == \A v \in Units : ReadingOK(v, fixture'[v].bits)
<1>0. fixture' = fixture => Good
  BY DEF Sound, GoodFixtures
<1>1. ASSUME NEW c \in Callers, Calls(c) PROVE Good
  <2>1. ASSUME NEW u \in Units, NEW p \in Percents, SetPosition(c, u, p) PROVE fixture' = fixture
    BY <2>1 DEF SetPosition, Begin
  <2>2. ASSUME NEW u \in Units, NEW a \in Lights, TurnOn(c, u, a) PROVE fixture' = fixture
    BY <2>2 DEF TurnOn, Begin
  <2>3. ASSUME NEW u \in Units, TurnOff(c, u) PROVE fixture' = fixture
    BY <2>3 DEF TurnOff, Begin
  <2>4. ASSUME NEW a \in Asks, UseLibrary(c, a[1], a[2]) PROVE fixture' = fixture
    BY <2>4 DEF UseLibrary, Begin
  <2>5. ASSUME Build(c) PROVE fixture' = fixture
    BY <2>5 DEF Build
  <2>6. ASSUME Transmit(c) PROVE Good
    <3> DEFINE us == Addressed(call[c].target)
               p  == call[c].packet
    <3>1. fixture' = [u \in Units |->
            IF u \in us THEN With(u, Applied(u, p.op, p.payload)) ELSE fixture[u]]
      BY <2>6 DEF Transmit
    <3>2. p.op \in Ops
      BY <2>6 DEF Transmit, Transmitting, Typed, CallOK
    <3> HIDE DEF us, p
    <3>3. ASSUME NEW u \in Units PROVE ReadingOK(u, fixture'[u].bits)
      <4>1. ReadingOK(u, fixture[u].bits)
        BY DEF Sound, GoodFixtures
      <4>2. ReadingOK(u, Applied(u, p.op, p.payload))
        BY <3>2, <4>1, ReadingApplied
      <4>3. \/ fixture'[u] = fixture[u]
            \/ fixture'[u] = With(u, Applied(u, p.op, p.payload))
        BY <3>1
      <4> QED BY <4>1, <4>2, <4>3, WithIs
    <3> QED BY <3>3
  <2>7. ASSUME SendFails(c) PROVE fixture' = fixture
    BY <2>7 DEF SendFails
  <2> QED BY <1>0, <1>1, <2>1, <2>2, <2>3, <2>4, <2>5, <2>6, <2>7 DEF Calls
<1>2. ASSUME NEW t \in Touches, Touch(t[1], t[2], t[3]) PROVE Good
  <2>1. PICK u \in Units : u = t[1]
    BY HomeAssumption
  <2>2. t[2] \notin {"SENSORGROUP", "SENSORGROUPVALUE"}
    BY SensingAssumption
  <2>3. ReadingOK(u, fixture[u].bits)
    BY DEF Sound, GoodFixtures
  <2>4. ReadingOK(u, Put(u, t[2], t[3]))
    BY <2>2, <2>3, ReadingPut
  <2> QED BY <1>2, <2>1, <2>4, ReadingWith DEF Touch
<1>3. ASSUME NEW u \in Units, NEW tag \in DOMAIN Readings[u], NEW r \in Readings[u][tag],
             Sense(u, tag, r)
      PROVE  Good
  <2>1. PICK bits : bits = Overwritten(Overwritten(fixture[u].bits, GroupOf(u), tag + 1),
                                       ValueOf(u), r)
    OBVIOUS
  <2>2. ReadingOK(u, bits)
    BY <2>1, ReadingSensed
  <2>3. Moves(u, bits)
    BY <1>3, <2>1 DEF Sense, GroupOf, ValueOf
  <2> QED BY <2>2, <2>3, ReadingWith
<1>4. ASSUME NEW ms \in Presses, Press(ms) PROVE fixture' = fixture
  BY <1>4 DEF Press, Says
<1>5. ASSUME NEW raises \in BOOLEAN, Handle(raises) PROVE fixture' = fixture
  BY <1>5 DEF Handle
<1>6. ASSUME ApplyUpdate PROVE fixture' = fixture
  BY <1>6 DEF ApplyUpdate
<1>7. ASSUME UNCHANGED vars PROVE fixture' = fixture
  BY <1>7 DEF vars
<1>8. Good
  <2> HIDE DEF Good
  <2> QED BY <1>0, <1>1, <1>2, <1>3, <1>4, <1>5, <1>6, <1>7 DEF Next
<1>9. fixture' \in Fixtures
  BY TypedStep DEF Typed
<1> QED BY <1>8, <1>9 DEF GoodFixtures

LEMMA SoundHandle ==
  ASSUME Typed, Sound, NEW raises \in BOOLEAN, Handle(raises)
  PROVE  Sensed(unit') /\ air' \in Seq(GoodPackets)
<1> DEFINE n  == Head(air)
           rs == IF n.type = "states" THEN parseUnitStates(n.data) ELSE <<>>
<1>1. unit' = TakeReports(rs).unit /\ air # <<>> /\ air' = Tail(air)
  BY DEF Handle
<1>2. n \in GoodPackets /\ air' \in Seq(GoodPackets)
  BY <1>1, HeadTailProperties DEF Sound
<1> HIDE DEF n
<1>3. CASE n.type # "states"
  <2>1. rs = <<>> /\ rs \in Seq(Nat) /\ Len(rs) = 0
    BY <1>3, EmptySeq
  <2>2. PICK f : Takes(f, rs, 0) /\ TakeReports(rs) = f[0]
    BY <2>1, TakeReportsIs
  <2>3. TakeReports(rs).unit = unit
    BY <2>2 DEF Takes
  <2> HIDE DEF rs
  <2> QED BY <1>1, <1>2, <2>3 DEF Sound
<1>4. CASE n.type = "states"
  <2>1. PICK us \in SUBSET Units, fs \in GoodFixtures : n = Report(us, fs)
    <3>1. ASSUME NEW ms \in Presses, n = Switches(ms) PROVE FALSE
      <4>1. n.type = "switch"
        BY <3>1 DEF Switches
      <4> QED BY <1>4, <4>1
    <3> QED BY <1>2, <3>1 DEF GoodPackets
  <2>2. rs = FlattenSeq(Told(us, fs))
    BY <1>4, <2>1, ReportParsed
  <2> HIDE DEF rs
  <2>3. \A v \in Units : FitsIn(v, fs[v].bits) /\ ReadingOK(v, fs[v].bits)
    BY <2>1 DEF GoodFixtures, Fixtures
  <2>4. Sensed(TakeReports(rs).unit)
    BY <2>2, <2>3, TakeToldSensed DEF Sound
  <2> QED BY <1>1, <1>2, <2>4
<1> QED BY <1>3, <1>4

LEMMA SoundStep ==
  ASSUME Typed, Sound, [Next]_vars
  PROVE  Sound'
<1>1. fixture' \in GoodFixtures
  BY FixturesGood
<1>2. ASSUME NEW raises \in BOOLEAN, Handle(raises)
      PROVE  Sensed(unit') /\ air' \in Seq(GoodPackets)
  BY <1>2, SoundHandle
<1>3. ASSUME NEW us \in SUBSET Units, Reported(us)
      PROVE  Sensed(unit') /\ air' \in Seq(GoodPackets)
  <2>1. Report(us, fixture') \in GoodPackets
    BY <1>1 DEF GoodPackets
  <2>2. air' = Append(air, Report(us, fixture')) /\ unit' = unit
    BY <1>3 DEF Reported
  <2>3. PICK n \in GoodPackets : n = Report(us, fixture')
    BY <2>1
  <2>4. Append(air, n) \in Seq(GoodPackets)
    BY AppendProperties DEF Sound
  <2> QED BY <2>2, <2>3, <2>4 DEF Sound
<1>4. ASSUME NEW ms \in Presses, Press(ms)
      PROVE  Sensed(unit') /\ air' \in Seq(GoodPackets)
  <2>1. PICK n \in GoodPackets : n = Switches(ms)
    BY DEF GoodPackets
  <2>2. Append(air, n) \in Seq(GoodPackets)
    BY AppendProperties DEF Sound
  <2> QED BY <1>4, <2>1, <2>2 DEF Press, Environment, Says, Sound
<1>5. CASE UNCHANGED <<unit, listening, fixture, air>>
  BY <1>5 DEF Sound
<1>6. Sensed(unit') /\ air' \in Seq(GoodPackets)
  BY <1>2, <1>3, <1>4, <1>5, AirSteps DEF Sound
<1> QED BY <1>1, <1>6 DEF Sound, Sensed

LEMMA SoundInit == Init => Sound
<1> SUFFICES ASSUME Init PROVE Sound
  OBVIOUS
<1>1. Sensed(unit)
  BY DEF Init, Sensed, SensedUnit
<1>2. fixture \in Fixtures
  BY TypedInit DEF Typed
<1>3. \A u \in Units : ReadingOK(u, fixture[u].bits)
  BY ReadingFresh DEF Init
<1>4. air \in Seq(GoodPackets)
  BY EmptySeq DEF Init
<1> QED BY <1>1, <1>2, <1>3, <1>4 DEF Sound, GoodFixtures

\* The value the library has for a tagged sensor is one this sensor has reported: the
\* readings that share the bits of one control are told apart, whatever commands and
\* changes come between, and also by an update that ends with an exception.
THEOREM SensorsAreReal == Spec => []SensorsReal
<1>1. Sound => SensorsReal
  BY DEF Sound, Sensed, SensedUnit, SensorsOK, SensorsReal
<1>2. Typed /\ Sound /\ [Next]_vars => Sound'
  BY SoundStep
<1> QED BY <1>1, <1>2, SoundInit, TypedAlways, PTL DEF Spec

-----------------------------------------------------------------------------
(* Switch events.                                                          *)

\* What is said with a parameter.
LEMMA Parameter ==
  ASSUME NEW k \in 0..15
  PROVE  /\ Size(96 + k) = 7 /\ Nibble(96 + k) = k
         /\ Size(48 + k) = 4 /\ Nibble(48 + k) = k
         /\ Size(32 + k) = 3 /\ Nibble(32 + k) = k
         /\ Size(16 + k) = 2 /\ Nibble(16 + k) = k
<1>1. (96 + k) \div 16 = 6 /\ (48 + k) \div 16 = 3 /\ (32 + k) \div 16 = 2 /\ (16 + k) \div 16 = 1
  OBVIOUS
<1>2. (96 + k) % 16 = k /\ (48 + k) % 16 = k /\ (32 + k) % 16 = k /\ (16 + k) % 16 = k
  OBVIOUS
<1> QED BY <1>1, <1>2 DEF Size, Nibble

LEMMA Buttons ==
  ASSUME NEW b \in 1..4
  PROVE  (b + 1) % 4 \in 0..3 /\ ((((b + 1) % 4) + 2) % 4) + 1 = b
OBVIOUS

\* The end of what is read of a message of type 16.
LEMMA FullEnd ==
  ASSUME NEW n \in Nat, NEW e \in Nat
  PROVE  Min({e, n}) = IF e <= n THEN e ELSE n
<1>1. {e, n} \in SUBSET Nat /\ {e, n} # {}
  OBVIOUS
<1>2. Min({e, n}) \in {e, n} /\ \A k \in {e, n} : Min({e, n}) <= k
  BY <1>1, MinIs
<1> QED BY <1>2

LEMMA SliceIs ==
  ASSUME NEW data \in Seq(Nat), NEW a \in 1..Len(data), NEW l \in Nat, NEW b, b = a + l - 1,
         b <= Len(data), NEW r, r = SubSeq(data, a, b)
  PROVE  r \in Seq(Nat) /\ Len(r) = l /\ \A i \in 1..l : r[i] = data[a + i - 1]
BY Slice

LEMMA TupleTyped ==
  ASSUME NEW S, NEW l \in Nat, NEW r, r = [j \in 1..l |-> r[j]], \A j \in 1..l : r[j] \in S
  PROVE  r \in Seq(S) /\ Len(r) = l
OBVIOUS

\* What the parser makes of a message that stands at a position.
ReadAs(data, pos, next, es) ==
  /\ pos <= Len(data) - 2
  /\ ~Incomplete(data, pos)
  /\ NextMessage(data, pos) = next
  /\ EventsAt(data, pos) = es

LEMMA FullReaches ==
  ASSUME NEW data \in Seq(Nat), NEW at \in Nat, NEW x \in Nat,
         x >= at + 1, x <= Len(data), x <= at + 11, x < at + 10 => x = Len(data)
  PROVE  LET full == SubSeq(data, at + 1, x) IN
         /\ at + 10 <= Len(data) => Len(full) > 9 /\ full[10] = data[at + 10]
         /\ ~(at + 10 <= Len(data)) => ~(Len(full) > 9)
<1>1. PICK n \in Nat : n = Len(data)
  BY LenProperties
<1>2. PICK full : full = SubSeq(data, at + 1, x)
  OBVIOUS
<1>3. PICK a \in 1..Len(data), l \in Nat : a = at + 1 /\ l = x - at
  <2>1. at + 1 \in 1..Len(data)
    BY <1>1
  <2>2. x - at \in Nat
    OBVIOUS
  <2> QED BY <2>1, <2>2
<1>4. x = a + l - 1 /\ x <= Len(data)
  BY <1>3
<1>5. full = SubSeq(data, a, x)
  BY <1>2, <1>3
<1>6. Len(full) = l /\ \A i \in 1..l : full[i] = data[a + i - 1]
  BY <1>4, <1>5, SliceIs
<1>7. ASSUME at + 10 <= n PROVE Len(full) > 9 /\ full[10] = data[at + 10]
  <2>1. l > 9 /\ 10 \in 1..l /\ a + 10 - 1 = at + 10
    BY <1>1, <1>3, <1>7
  <2> QED BY <1>6, <2>1
<1>8. ASSUME ~(at + 10 <= n) PROVE ~(Len(full) > 9)
  <2>1. ~(l > 9)
    BY <1>1, <1>3, <1>8
  <2> QED BY <1>6, <2>1
<1> QED BY <1>1, <1>2, <1>7, <1>8

\* What is read of a message of type 16 reaches its state byte if there is one, whether
\* the message declares it or not.
LEMMA FullIs ==
  ASSUME NEW data \in Seq(Nat), NEW at \in Nat, at + 1 <= Len(data)
  PROVE  LET full == SubSeq(data, at + 1, Min({(at + 1) + 10, Len(data)})) IN
         /\ at + 10 <= Len(data) => Len(full) > 9 /\ full[10] = data[at + 10]
         /\ ~(at + 10 <= Len(data)) => ~(Len(full) > 9)
<1>1. PICK n \in Nat : n = Len(data) /\ at + 1 <= n
  BY LenProperties
<1>2. PICK x \in Nat : /\ x = Min({(at + 1) + 10, Len(data)})
                       /\ x >= at + 1 /\ x <= n /\ x <= at + 11 /\ (x < at + 10 => x = n)
  <2>1. PICK y \in Nat : y = (at + 1) + 10
    OBVIOUS
  <2>2. Min({y, n}) = IF y <= n THEN y ELSE n
    BY FullEnd
  <2>3. Min({(at + 1) + 10, Len(data)}) = IF y <= n THEN y ELSE n
    BY <1>1, <2>1, <2>2
  <2>4. CASE y <= n
    BY <2>1, <2>3, <2>4
  <2>5. CASE ~(y <= n)
    BY <1>1, <2>1, <2>3, <2>5
  <2> QED BY <2>4, <2>5
<1>3. x >= at + 1 /\ x <= Len(data) /\ x <= at + 11 /\ (x < at + 10 => x = Len(data))
  BY <1>1, <1>2
<1> QED BY <1>2, <1>3, FullReaches, Zenon

\* A message of type 16 with its state byte, of which it declares z bytes.
LEMMA LongAt ==
  ASSUME NEW data \in Seq(Nat), NEW at \in Nat, NEW u \in 0..255, NEW b \in 1..15, NEW s \in Nat,
         NEW k \in Nat, NEW z \in {3, 7}, Size(k) = z, Nibble(k) = b,
         HoldsAt(data, at, <<16, 0, k, 0, 0, u, 0, 0, 0, s>>)
  PROVE  /\ ReadAs(data, at + 1, at + z + 4, <<[unit |-> u, button |-> b, event |-> EventOf(s)]>>)
         /\ at + 10 <= Len(data) /\ data[at + 7] = 0 /\ data[at + 9] = 0
<1>1. PICK n \in Nat : n = Len(data)
  BY LenProperties
<1>2. PICK e : e = <<16, 0, k, 0, 0, u, 0, 0, 0, s>>
  OBVIOUS
<1>3. Len(e) = 10 /\ e[1] = 16 /\ e[3] = k /\ e[6] = u /\ e[7] = 0 /\ e[9] = 0 /\ e[10] = s
  BY <1>2
<1>4. at + 10 <= n /\ \A j \in 1..10 : data[at + j] = e[j]
  BY <1>1, <1>2, <1>3 DEF HoldsAt
<1>b. at + 10 <= n
  BY <1>4
<1>5. /\ data[at + 1] = 16 /\ data[at + 3] = k /\ data[at + 6] = u /\ data[at + 10] = s
      /\ data[at + 7] = 0 /\ data[at + 9] = 0 /\ (at + 1) + 2 = at + 3
  <2>1. 1 \in 1..10 /\ 3 \in 1..10 /\ 6 \in 1..10 /\ 7 \in 1..10 /\ 9 \in 1..10 /\ 10 \in 1..10
    OBVIOUS
  <2>2. /\ data[at + 1] = e[1] /\ data[at + 3] = e[3] /\ data[at + 6] = e[6]
        /\ data[at + 7] = e[7] /\ data[at + 9] = e[9] /\ data[at + 10] = e[10]
    BY <1>4, <2>1
  <2> QED BY <1>3, <2>2
<1>6. NextMessage(data, at + 1) = at + z + 4
  <2>1. data[at + 1] = 16 /\ data[(at + 1) + 2] = k
    BY <1>5
  <2>2. ~(16 > 128)
    OBVIOUS
  <2>3. NextMessage(data, at + 1) = (at + 1) + 3 + Size(k)
    BY <2>1, <2>2, Zenon DEF NextMessage
  <2>4. PICK y \in Nat : y = z
    OBVIOUS
  <2>5. (at + 1) + 3 + y = at + y + 4
    OBVIOUS
  <2> QED BY <2>3, <2>4, <2>5
<1>7. ~Incomplete(data, at + 1)
  <2>1. PICK y \in {3, 7} : y = z
    OBVIOUS
  <2>2. ~(at + y + 4 - 1 > n)
    BY <1>b
  <2> QED BY <1>1, <1>6, <2>1, <2>2 DEF Incomplete
<1>8. PICK payload : payload = SubSeq(data, at + 4, at + z + 3)
  OBVIOUS
<1>9. payload \in Seq(Nat) /\ Len(payload) = z /\ payload[3] = u
  <2>x. PICK x \in {3, 7} : x = z
    OBVIOUS
  <2>y. at + 4 \in 1..n /\ at + x + 3 \in Nat /\ at + x + 3 = (at + 4) + x - 1 /\ at + x + 3 <= n
    BY <1>b
  <2>1. PICK a \in 1..Len(data), y \in Nat : /\ a = at + 4 /\ y = at + z + 3
                                            /\ y = a + z - 1 /\ y <= n
    BY <1>1, <2>x, <2>y
  <2>s. payload = SubSeq(data, a, y)
    BY <1>8, <2>1
  <2>2. y = a + z - 1 /\ y <= Len(data) /\ a + 3 - 1 = at + 6 /\ 3 \in 1..z
    BY <1>1, <1>b, <2>1
  <2>3. Len(payload) = z /\ \A i \in 1..z : payload[i] = data[a + i - 1]
    BY <2>s, <2>2, Slice
  <2>4. payload \in Seq(Nat)
    BY <2>s, <2>2, Slice
  <2> QED BY <1>5, <2>2, <2>3, <2>4
<1>10. PICK full : full = SubSeq(data, at + 1, Min({(at + 1) + 10, Len(data)}))
  OBVIOUS
<1>11. Len(full) > 9 /\ full[10] = s
  <2>1. at + 1 <= Len(data) /\ at + 10 <= Len(data)
    BY <1>1, <1>b
  <2> QED BY <1>5, <1>10, <2>1, FullIs
<1>12. SwitchEvent(16, k, payload, full) = [unit |-> u, button |-> b, event |-> EventOf(s)]
  <2>1. Button(16, k) = b
    BY DEF Button
  <2>2. EventUnit(16, payload) = u
    BY <1>9 DEF EventUnit
  <2>3. Event(16, payload, full) = EventOf(s)
    BY <1>11 DEF Event
  <2> QED BY <2>1, <2>2, <2>3 DEF SwitchEvent
<1>13. EventsAt(data, at + 1) = <<[unit |-> u, button |-> b, event |-> EventOf(s)]>>
  <2>1. (at + 1) + 3 = at + 4 /\ (at + z + 4) - 1 = at + z + 3
    OBVIOUS
  <2> QED BY <1>5, <1>6, <1>8, <1>10, <1>12, <2>1 DEF EventsAt
<1>14. at + 1 <= Len(data) - 2
  BY <1>1, <1>b
<1> QED BY <1>1, <1>5, <1>6, <1>7, <1>b, <1>13, <1>14 DEF ReadAs

Full(u, b, s)   == <<16, 0, 96 + b, 0, 0, u, 0, 0, 0, s>>
Beyond(u, b, s) == <<16, 0, 32 + b, 0, 0, u, 0, 0, 0, s>>
Short(u, b)     == <<16, 0, 48 + b, 0, 0, u, 18>>

LEMMA FullAt ==
  ASSUME NEW data \in Seq(Nat), NEW at \in Nat, NEW u \in 0..255, NEW b \in 1..15, NEW s \in Nat,
         HoldsAt(data, at, Full(u, b, s))
  PROVE  ReadAs(data, at + 1, at + 11, <<[unit |-> u, button |-> b, event |-> EventOf(s)]>>)
<1>1. PICK k \in 0..15 : k = b
  OBVIOUS
<1>2. PICK c \in Nat : c = 96 + b /\ Size(c) = 7 /\ Nibble(c) = b
  <2>1. Size(96 + k) = 7 /\ Nibble(96 + k) = k
    BY Parameter, Zenon
  <2>2. 96 + k \in Nat
    OBVIOUS
  <2> QED BY <1>1, <2>1, <2>2
<1>3. PICK z \in {3, 7} : z = 7 /\ at + z + 4 = at + 11
  OBVIOUS
<1>4. HoldsAt(data, at, <<16, 0, c, 0, 0, u, 0, 0, 0, s>>) /\ Size(c) = z
  BY <1>2, <1>3 DEF Full
<1>5. ReadAs(data, at + 1, at + z + 4, <<[unit |-> u, button |-> b, event |-> EventOf(s)]>>)
  BY <1>2, <1>4, LongAt
<1> QED BY <1>3, <1>5

\* What follows the payload it declares reads as a message of another type, which ends
\* where the message does.
LEMMA BeyondAt ==
  ASSUME NEW data \in Seq(Nat), NEW at \in Nat, NEW u \in 0..255, NEW b \in 1..15, NEW s \in Nat,
         HoldsAt(data, at, Beyond(u, b, s))
  PROVE  /\ ReadAs(data, at + 1, at + 7, <<[unit |-> u, button |-> b, event |-> EventOf(s)]>>)
         /\ ReadAs(data, at + 7, at + 11, <<>>)
<1>1. PICK k \in 0..15 : k = b
  OBVIOUS
<1>2. PICK c \in Nat : c = 32 + b /\ Size(c) = 3 /\ Nibble(c) = b
  <2>1. Size(32 + k) = 3 /\ Nibble(32 + k) = k
    BY Parameter, Zenon
  <2>2. 32 + k \in Nat
    OBVIOUS
  <2> QED BY <1>1, <2>1, <2>2
<1>3. PICK z \in {3, 7} : z = 3 /\ at + z + 4 = at + 7
  OBVIOUS
<1>4. HoldsAt(data, at, <<16, 0, c, 0, 0, u, 0, 0, 0, s>>) /\ Size(c) = z
  BY <1>2, <1>3 DEF Beyond
<1>5. /\ ReadAs(data, at + 1, at + z + 4, <<[unit |-> u, button |-> b, event |-> EventOf(s)]>>)
      /\ at + 10 <= Len(data) /\ data[at + 7] = 0 /\ data[at + 9] = 0
  <2>1. Size(c) = z /\ Nibble(c) = b
    BY <1>2, <1>4
  <2>2. HoldsAt(data, at, <<16, 0, c, 0, 0, u, 0, 0, 0, s>>)
    BY <1>4
  <2>3. ReadAs(data, at + 1, at + z + 4, <<[unit |-> u, button |-> b, event |-> EventOf(s)]>>)
    BY <2>1, <2>2, LongAt
  <2>4. at + 10 <= Len(data) /\ data[at + 7] = 0 /\ data[at + 9] = 0
    BY ZenonT(60), <2>1, <2>2, LongAt
  <2> QED BY <2>3, <2>4
<1>6. PICK n \in Nat : n = Len(data) /\ at + 10 <= n
  BY <1>5, LenProperties
<1>7. NextMessage(data, at + 7) = at + 11
  <2>1. Size(0) = 1
    BY DEF Size
  <2>2. (at + 7) + 2 = at + 9 /\ (at + 7) + 3 + 1 = at + 11
    OBVIOUS
  <2> QED BY <1>5, <2>1, <2>2 DEF NextMessage
<1>8. ~Incomplete(data, at + 7)
  BY <1>6, <1>7 DEF Incomplete
<1>9. EventsAt(data, at + 7) = <<>>
  BY <1>5 DEF EventsAt
<1>10. at + 7 <= Len(data) - 2
  BY <1>6
<1> QED BY <1>3, <1>5, <1>7, <1>8, <1>9, <1>10 DEF ReadAs

\* The kind that is read of a short message: a byte that follows is taken for its state.
ShortKind(data, at) == IF at + 10 <= Len(data) THEN EventOf(data[at + 10]) ELSE "RELEASE"

LEMMA ShortAt ==
  ASSUME NEW data \in Seq(Nat), NEW at \in Nat, NEW u \in 0..255, NEW b \in 1..15,
         HoldsAt(data, at, Short(u, b))
  PROVE  ReadAs(data, at + 1, at + 8,
                <<[unit |-> u, button |-> b, event |-> ShortKind(data, at)]>>)
<1>1. PICK n \in Nat : n = Len(data)
  BY LenProperties
<1>2. PICK e : e = <<16, 0, 48 + b, 0, 0, u, 18>>
  OBVIOUS
<1>3. Len(e) = 7 /\ e[1] = 16 /\ e[3] = 48 + b /\ e[6] = u /\ e[7] = 18
  BY <1>2
<1>4. at + 7 <= n /\ \A j \in 1..7 : data[at + j] = e[j]
  BY <1>1, <1>2, <1>3 DEF HoldsAt, Short
<1>b. at + 7 <= n
  BY <1>4
<1>5. /\ data[at + 1] = 16 /\ data[at + 3] = 48 + b /\ data[at + 6] = u /\ data[at + 7] = 18
      /\ (at + 1) + 2 = at + 3
  <2>1. 1 \in 1..7 /\ 3 \in 1..7 /\ 6 \in 1..7 /\ 7 \in 1..7
    OBVIOUS
  <2>2. /\ data[at + 1] = e[1] /\ data[at + 3] = e[3]
        /\ data[at + 6] = e[6] /\ data[at + 7] = e[7]
    BY <1>4, <2>1
  <2> QED BY <1>3, <2>2
<1>k. PICK k \in 0..15 : k = b /\ k # 0
  OBVIOUS
<1>6. NextMessage(data, at + 1) = at + 8
  <2>1. Size(48 + b) = 4
    BY <1>k, Parameter
  <2> QED BY <1>5, <2>1 DEF NextMessage
<1>7. ~Incomplete(data, at + 1)
  BY <1>1, <1>b, <1>6 DEF Incomplete
<1>8. PICK payload : payload = SubSeq(data, at + 4, at + 7)
  OBVIOUS
<1>9. payload \in Seq(Nat) /\ Len(payload) = 4 /\ payload[3] = u /\ payload[4] = 18
  <2>1. PICK a \in 1..Len(data), z \in Nat : a = at + 4 /\ z = at + 7
    BY <1>1, <1>b
  <2>s. payload = SubSeq(data, a, z)
    BY <1>8, <2>1
  <2>2. /\ z = a + 4 - 1 /\ z <= Len(data) /\ 3 \in 1..4 /\ 4 \in 1..4
        /\ a + 3 - 1 = at + 6 /\ a + 4 - 1 = at + 7
    BY <1>1, <1>b, <2>1
  <2>3. /\ payload \in Seq(Nat) /\ Len(payload) = 4
        /\ \A i \in 1..4 : payload[i] = data[a + i - 1]
    <3>1. PICK l \in Nat : l = 4
      OBVIOUS
    <3>2. z = a + l - 1 /\ z <= Len(data)
      BY <2>2, <3>1
    <3>3. Len(payload) = l /\ \A i \in 1..l : payload[i] = data[a + i - 1]
      BY <2>s, <3>2, Slice
    <3>4. payload \in Seq(Nat)
      BY <2>s, <3>2, Slice
    <3> QED BY <3>1, <3>3, <3>4
  <2> QED BY <1>5, <2>2, <2>3
<1>10. PICK full : full = SubSeq(data, at + 1, Min({(at + 1) + 10, Len(data)}))
  OBVIOUS
<1>11. /\ at + 10 <= Len(data) => Len(full) > 9 /\ full[10] = data[at + 10]
       /\ ~(at + 10 <= Len(data)) => ~(Len(full) > 9)
  <2>1. at + 1 <= Len(data)
    BY <1>1, <1>b
  <2> QED BY <1>10, <2>1, FullIs
<1>12. SwitchEvent(16, 48 + b, payload, full) =
         [unit |-> u, button |-> b, event |-> ShortKind(data, at)]
  <2>1. Button(16, 48 + b) = b
    <3>1. Nibble(48 + b) = b
      BY <1>k, Parameter
    <3> QED BY <1>k, <3>1 DEF Button
  <2>2. EventUnit(16, payload) = u
    BY <1>9 DEF EventUnit
  <2>3. Extra(16, payload) # <<>> /\ Extra(16, payload)[1] = 18
    <3>1. Extra(16, payload) = SubSeq(payload, 4, 4)
      BY <1>9 DEF Extra
    <3>2. PICK a \in 1..Len(payload) : a = 4
      BY <1>9
    <3>3. 4 = a + 1 - 1 /\ 4 <= Len(payload) /\ 1 \in 1..1
      BY <1>9, <3>2
    <3>4. PICK x : x = SubSeq(payload, 4, 4)
      OBVIOUS
    <3>5. x \in Seq(Nat) /\ Len(x) = 1 /\ \A i \in 1..1 : x[i] = payload[a + i - 1]
      <4>1. PICK z \in Nat, l \in Nat : z = 4 /\ l = 1
        OBVIOUS
      <4>2. x = SubSeq(payload, a, z) /\ z = a + l - 1 /\ z <= Len(payload)
        BY <3>2, <3>3, <3>4, <4>1
      <4>3. Len(x) = l /\ \A i \in 1..l : x[i] = payload[a + i - 1]
        BY <1>9, <4>2, SliceIs
      <4>4. x \in Seq(Nat)
        BY <1>9, <4>2, SliceIs
      <4> QED BY <4>1, <4>3, <4>4
    <3>6. x # <<>> /\ x[1] = payload[4]
      <4>1. x[1] = payload[a + 1 - 1] /\ a + 1 - 1 = 4
        BY <3>2, <3>5
      <4>2. x # <<>>
        <5>1. SUFFICES ASSUME x = <<>> PROVE FALSE
          OBVIOUS
        <5>2. Len(x) = 1 /\ Len(x) = 0
          BY <3>5, <5>1
        <5> QED BY <5>2
      <4> QED BY <4>1, <4>2
    <3> QED BY <1>9, <3>1, <3>4, <3>6
  <2>4. Event(16, payload, full) = ShortKind(data, at)
    <3>1. CASE at + 10 <= Len(data)
      BY <1>11, <3>1 DEF Event, ShortKind
    <3>2. CASE ~(at + 10 <= Len(data))
      BY <1>11, <2>3, <3>2 DEF Event, ShortKind
    <3> QED BY <3>1, <3>2
  <2> QED BY <2>1, <2>2, <2>4 DEF SwitchEvent
<1>13. EventsAt(data, at + 1) = <<[unit |-> u, button |-> b, event |-> ShortKind(data, at)]>>
  <2>1. (at + 1) + 3 = at + 4 /\ (at + 8) - 1 = at + 7
    OBVIOUS
  <2> QED BY <1>5, <1>6, <1>8, <1>10, <1>12, <2>1 DEF EventsAt
<1>14. at + 1 <= Len(data) - 2
  BY <1>1, <1>b
<1> QED BY <1>6, <1>7, <1>13, <1>14 DEF ReadAs

LEMMA TwoBytes ==
  ASSUME NEW data \in Seq(Nat), NEW f \in 1..Len(data), NEW z \in Nat, z = f + 2 - 1,
         z <= Len(data), NEW payload, payload = SubSeq(data, f, z)
  PROVE  /\ payload \in Seq(Nat) /\ Len(payload) = 2
         /\ \A i \in 1..2 : payload[i] = data[f + i - 1]
<1>1. PICK l \in Nat : l = 2
  OBVIOUS
<1>2. z = f + l - 1
  BY <1>1
<1>3. Len(payload) = l /\ \A i \in 1..l : payload[i] = data[f + i - 1]
  BY <1>2, Slice
<1>4. payload \in Seq(Nat)
  BY <1>2, Slice
<1> QED BY <1>1, <1>3, <1>4

\* The bytes of a message of type 8.
Says8(e, u, b, ev) ==
  /\ ev \in DOMAIN ActionByte
  /\ e = <<8, 0, 16 + ((b + 1) % 4), u, ActionByte[ev]>>

LEMMA ButtonAt ==
  ASSUME NEW data \in Seq(Nat), NEW at \in Nat, NEW u \in 0..255, NEW b \in 1..4, NEW ev,
         NEW e, Says8(e, u, b, ev), HoldsAt(data, at, e)
  PROVE  ReadAs(data, at + 1, at + 6, <<[unit |-> u, button |-> b, event |-> ev]>>)
<1>1. PICK n \in Nat : n = Len(data)
  BY LenProperties
<1>c. PICK c \in 0..3 : c = (b + 1) % 4 /\ ((c + 2) % 4) + 1 = b
  BY Buttons
<1>a. PICK a \in {0, 2} : a = ActionByte[ev] /\ (ev = IF a = 2 THEN "RELEASE" ELSE "PRESS")
  BY DEF Says8, ActionByte
<1>2. e = <<8, 0, 16 + c, u, a>>
  BY <1>a, <1>c DEF Says8
<1>3. Len(e) = 5 /\ e[1] = 8 /\ e[3] = 16 + c /\ e[4] = u /\ e[5] = a
  BY <1>2
<1>4. at + 5 <= n /\ \A j \in 1..5 : data[at + j] = e[j]
  BY <1>1, <1>3 DEF HoldsAt
<1>b. at + 5 <= n
  BY <1>4
<1>5. /\ data[at + 1] = 8 /\ data[at + 3] = 16 + c /\ data[at + 4] = u /\ data[at + 5] = a
      /\ (at + 1) + 2 = at + 3
  <2>1. 1 \in 1..5 /\ 3 \in 1..5 /\ 4 \in 1..5 /\ 5 \in 1..5
    OBVIOUS
  <2>2. data[at + 1] = e[1] /\ data[at + 3] = e[3] /\ data[at + 4] = e[4] /\ data[at + 5] = e[5]
    BY <1>4, <2>1
  <2> QED BY <1>3, <2>2
<1>k. PICK k \in 0..15 : k = c
  OBVIOUS
<1>6. NextMessage(data, at + 1) = at + 6
  <2>1. Size(16 + c) = 2
    BY <1>k, Parameter
  <2> QED BY <1>5, <2>1 DEF NextMessage
<1>7. ~Incomplete(data, at + 1)
  BY <1>1, <1>4, <1>6 DEF Incomplete
<1>8. PICK payload : payload = SubSeq(data, at + 4, at + 5)
  OBVIOUS
<1>9. payload \in Seq(Nat) /\ Len(payload) = 2 /\ payload[1] = u /\ payload[2] = a
  <2>1. PICK f \in 1..Len(data), z \in Nat : f = at + 4 /\ z = at + 5
    BY <1>1, <1>b
  <2>s. payload = SubSeq(data, f, z)
    BY <1>8, <2>1
  <2>2. /\ z = f + 2 - 1 /\ z <= Len(data) /\ 1 \in 1..2 /\ 2 \in 1..2
        /\ f + 1 - 1 = at + 4 /\ f + 2 - 1 = at + 5
    BY <1>1, <1>b, <2>1
  <2>3. /\ payload \in Seq(Nat) /\ Len(payload) = 2
        /\ \A i \in 1..2 : payload[i] = data[f + i - 1]
    <3>1. z = f + 2 - 1
      BY <2>2
    <3>2. z <= Len(data)
      BY <2>2
    <3> QED BY <2>s, <3>1, <3>2, TwoBytes
  <2> QED BY <1>5, <2>2, <2>3
<1>10. PICK full : full = SubSeq(data, at + 1, Min({(at + 1) + 10, Len(data)}))
  OBVIOUS
<1>12. SwitchEvent(8, 16 + c, payload, full) = [unit |-> u, button |-> b, event |-> ev]
  <2>1. Button(8, 16 + c) = b
    BY <1>c, <1>k, Parameter DEF Button
  <2>2. EventUnit(8, payload) = u
    BY <1>9 DEF EventUnit
  <2>3. Event(8, payload, full) = ev
    <3>1. Event(8, payload, full) = IF (payload[2] \div 2) % 2 = 1 THEN "RELEASE" ELSE "PRESS"
      BY <1>9 DEF Event
    <3>2. (0 \div 2) % 2 = 0 /\ (2 \div 2) % 2 = 1
      OBVIOUS
    <3> QED BY <1>a, <1>9, <3>1, <3>2
  <2> QED BY <2>1, <2>2, <2>3 DEF SwitchEvent
<1>13. EventsAt(data, at + 1) = <<[unit |-> u, button |-> b, event |-> ev]>>
  <2>1. (at + 1) + 3 = at + 4 /\ (at + 6) - 1 = at + 5
    OBVIOUS
  <2> QED BY <1>5, <1>6, <1>8, <1>10, <1>12, <2>1 DEF EventsAt
<1>14. at + 1 <= Len(data) - 2
  BY <1>1, <1>4
<1> QED BY <1>6, <1>7, <1>13, <1>14 DEF ReadAs

LEMMA OtherAt ==
  ASSUME NEW data \in Seq(Nat), NEW at \in Nat, HoldsAt(data, at, <<41, 0, 0, 0>>)
  PROVE  ReadAs(data, at + 1, at + 5, <<>>)
<1>1. PICK n \in Nat : n = Len(data)
  BY LenProperties
<1>2. PICK e : e = <<41, 0, 0, 0>>
  OBVIOUS
<1>3. Len(e) = 4 /\ e[1] = 41 /\ e[3] = 0
  BY <1>2
<1>4. at + 4 <= n /\ \A j \in 1..4 : data[at + j] = e[j]
  BY <1>1, <1>2, <1>3 DEF HoldsAt
<1>5. data[at + 1] = 41 /\ data[(at + 1) + 2] = 0
  BY <1>3, <1>4
<1>6. NextMessage(data, at + 1) = at + 5
  <2>1. Size(0) = 1
    BY DEF Size
  <2> QED BY <1>5, <2>1 DEF NextMessage
<1>7. at + 4 <= n
  BY <1>4
<1>8. ~Incomplete(data, at + 1)
  BY <1>1, <1>6, <1>7 DEF Incomplete
<1>9. at + 1 <= Len(data) - 2
  BY <1>1, <1>7
<1> QED BY <1>5, <1>6, <1>8, <1>9 DEF ReadAs, EventsAt

LEMMA NoiseAt ==
  ASSUME NEW data \in Seq(Nat), NEW at \in Nat, HoldsAt(data, at, << 200 >>)
  PROVE  /\ ~Incomplete(data, at + 1) /\ NextMessage(data, at + 1) = at + 2
         /\ EventsAt(data, at + 1) = <<>>
<1>1. data[at + 1] = 200
  <2>1. Len(<< 200 >>) = 1 /\ << 200 >>[1] = 200
    OBVIOUS
  <2> QED BY <2>1 DEF HoldsAt
<1> QED BY <1>1 DEF Incomplete, NextMessage, EventsAt
\* The events a message stands for, and the kind that is read of one behind so many bytes
\* of a packet.
EventsOf(m, k) ==
  IF m.kind \in {"other", "noise"} THEN <<>>
  ELSE <<[unit |-> m.unit, button |-> m.button, event |-> k]>>

KindOf(m, data, at) ==
  CASE m.kind = "short" -> ShortKind(data, at)
    [] m.kind \in {"other", "noise"} -> "UNKNOWN"
    [] OTHER -> m.event

\* What a message is, with the events that are read of it.
Written(e, es, data, at) ==
  \/ e = << 200 >> /\ es = <<>>
  \/ e = <<41, 0, 0, 0>> /\ es = <<>>
  \/ \E u \in 0..255, b \in 1..4 : \E ev :
       Says8(e, u, b, ev) /\ es = <<[unit |-> u, button |-> b, event |-> ev]>>
  \/ \E u \in 0..255, b \in 1..15, s \in Nat :
       /\ e = Full(u, b, s) \/ e = Beyond(u, b, s)
       /\ es = <<[unit |-> u, button |-> b, event |-> EventOf(s)]>>
  \/ \E u \in 0..255, b \in 1..15 :
       e = Short(u, b) /\ es = <<[unit |-> u, button |-> b, event |-> ShortKind(data, at)]>>

LEMMA MessageIs ==
  ASSUME NEW ms \in Presses, NEW i \in 1..Len(ms), NEW data, NEW at
  PROVE  Written(Message(ms[i]), EventsOf(ms[i], KindOf(ms[i], data, at)), data, at)
<1>1. PICK m : m = ms[i]
  OBVIOUS
<1>2. i \in DOMAIN ms
  BY PressesAssumption
<1>3. \/ m.kind = "noise"
      \/ m.kind = "other"
      \/ /\ m.kind = "button" /\ m.event \in DOMAIN ActionByte
         /\ m.button \in 1..4 /\ m.unit \in 0..255
      \/ /\ m.kind \in {"full", "beyond"} /\ m.event \in DOMAIN StateByte
         /\ m.button \in 1..15 /\ m.unit \in 0..255
      \/ /\ m.kind = "short" /\ m.event = "RELEASE"
         /\ m.button \in 1..15 /\ m.unit \in 0..255
  <2>1. \/ ms[i].kind = "noise"
        \/ ms[i].kind = "other" /\ i # 1
        \/ /\ ms[i].kind = "button" /\ ms[i].event \in DOMAIN ActionByte
           /\ ms[i].button \in 1..4 /\ ms[i].unit \in 0..255
        \/ /\ ms[i].kind \in {"full", "beyond"} /\ ms[i].event \in DOMAIN StateByte
           /\ ms[i].button \in 1..15 /\ ms[i].unit \in 0..255
        \/ /\ ms[i].kind = "short" /\ ms[i].event = "RELEASE"
           /\ ms[i].button \in 1..15 /\ ms[i].unit \in 0..255
    BY <1>2, PressesAssumption, Zenon
  <2> QED BY <1>1, <2>1, Zenon
<1> DEFINE k == KindOf(m, data, at)
<1>4. CASE m.kind = "noise"
  BY <1>1, <1>4 DEF Message, EventsOf, Written
<1>5. CASE m.kind = "other"
  BY <1>1, <1>5 DEF Message, EventsOf, Written
<1>6. CASE /\ m.kind = "button" /\ m.event \in DOMAIN ActionByte
           /\ m.button \in 1..4 /\ m.unit \in 0..255
  <2>1. Message(m) = <<8, 0, 16 + ((m.button + 1) % 4), m.unit, ActionByte[m.event]>>
    BY <1>6 DEF Message
  <2>2. Says8(Message(m), m.unit, m.button, m.event)
    BY <1>6, <2>1 DEF Says8
  <2>a. k = m.event
    BY <1>6 DEF KindOf
  <2>3. EventsOf(m, m.event) = <<[unit |-> m.unit, button |-> m.button, event |-> m.event]>>
    BY SMTT(40), <1>6 DEF EventsOf
  <2> QED BY <1>1, <1>6, <2>2, <2>a, <2>3 DEF Written
<1>7. CASE /\ m.kind \in {"full", "beyond"} /\ m.event \in DOMAIN StateByte
           /\ m.button \in 1..15 /\ m.unit \in 0..255
  <2>1. PICK s \in Nat : s = StateByte[m.event] /\ EventOf(s) = m.event
    BY <1>7 DEF StateByte, EventOf
  <2>2. Message(m) = Full(m.unit, m.button, s) \/ Message(m) = Beyond(m.unit, m.button, s)
    BY <1>7, <2>1 DEF Message, Full, Beyond
  <2>a. k = EventOf(s)
    BY <1>7, <2>1 DEF KindOf
  <2>3. EventsOf(m, EventOf(s)) = <<[unit |-> m.unit, button |-> m.button, event |-> EventOf(s)]>>
    BY SMTT(40), <1>7, <2>1 DEF EventsOf
  <2> QED BY <1>1, <1>7, <2>2, <2>a, <2>3 DEF Written
<1>8. CASE /\ m.kind = "short" /\ m.event = "RELEASE"
           /\ m.button \in 1..15 /\ m.unit \in 0..255
  <2>1. Message(m) = Short(m.unit, m.button)
    BY <1>8 DEF Message, Short
  <2>a. k = ShortKind(data, at)
    BY <1>8 DEF KindOf
  <2>2. EventsOf(m, ShortKind(data, at)) =
          <<[unit |-> m.unit, button |-> m.button, event |-> ShortKind(data, at)]>>
    BY <1>8 DEF EventsOf
  <2> QED BY <1>1, <1>8, <2>1, <2>a, <2>2 DEF Written
<1> QED BY <1>3, <1>4, <1>5, <1>6, <1>7, <1>8

\* A message is a sequence of bytes, and none that may come first is of type 41.
LEMMA WrittenIs ==
  ASSUME NEW e, NEW es, NEW data, NEW at, Written(e, es, data, at)
  PROVE  e \in Seq(Nat) /\ Len(e) \in 1..10 /\ (es # <<>> \/ Len(e) = 1 => e[1] # 41)
<1>2. CASE e = <<41, 0, 0, 0>> /\ es = <<>>
  BY <1>2
<1>3. ASSUME NEW u \in 0..255, NEW b \in 1..4, NEW ev, Says8(e, u, b, ev)
      PROVE  e \in Seq(Nat) /\ Len(e) = 5 /\ e[1] = 8
  <2>1. PICK c \in Nat : c = 16 + ((b + 1) % 4)
    <3>1. PICK x \in 0..3 : x = (b + 1) % 4
      BY Buttons
    <3> QED BY <3>1
  <2>2. PICK a \in Nat : a = ActionByte[ev]
    BY <1>3 DEF Says8, ActionByte
  <2>3. e = <<8, 0, c, u, a>>
    BY <1>3, <2>1, <2>2 DEF Says8
  <2> QED BY <2>3
<1>4. ASSUME NEW u \in 0..255, NEW b \in 1..15, NEW s \in Nat,
             e = Full(u, b, s) \/ e = Beyond(u, b, s)
      PROVE  e \in Seq(Nat) /\ Len(e) = 10 /\ e[1] = 16
  <2>1. ASSUME NEW k \in Nat PROVE <<16, 0, k, 0, 0, u, 0, 0, 0, s>> \in Seq(Nat)
    OBVIOUS
  <2>2. PICK k \in Nat : e = <<16, 0, k, 0, 0, u, 0, 0, 0, s>>
    <3>1. 96 + b \in Nat /\ 32 + b \in Nat
      OBVIOUS
    <3> QED BY <1>4, <3>1 DEF Full, Beyond
  <2>3. Len(e) = 10 /\ e[1] = 16
    BY <2>2
  <2> QED BY <2>1, <2>2, <2>3
<1>5. ASSUME NEW u \in 0..255, NEW b \in 1..15, e = Short(u, b)
      PROVE  e \in Seq(Nat) /\ Len(e) = 7 /\ e[1] = 16
  BY <1>5 DEF Short
<1>6. \/ e = << 200 >>
      \/ e = <<41, 0, 0, 0>> /\ es = <<>>
      \/ \E u \in 0..255, b \in 1..4 : \E ev : Says8(e, u, b, ev)
      \/ \E u \in 0..255, b \in 1..15, s \in Nat : e = Full(u, b, s) \/ e = Beyond(u, b, s)
      \/ \E u \in 0..255, b \in 1..15 : e = Short(u, b)
  BY Zenon DEF Written
<1> DEFINE Good == e \in Seq(Nat) /\ Len(e) \in 1..10 /\ (es # <<>> \/ Len(e) = 1 => e[1] # 41)
<1>7. e = << 200 >> => Good
  OBVIOUS
<1>8. ASSUME e \in Seq(Nat) /\ Len(e) \in {5, 7, 10} /\ e[1] \in {8, 16} PROVE Good
  BY <1>8
<1>9. e = <<41, 0, 0, 0>> /\ es = <<>> => Good
  BY <1>2
<1>10. Good
  <2> HIDE DEF Good
  <2>1. e = << 200 >> => Good
    BY <1>7
  <2>2. ASSUME NEW u \in 0..255, NEW b \in 1..4, NEW ev, Says8(e, u, b, ev) PROVE Good
    BY <1>3, <1>8, <2>2
  <2>3. ASSUME NEW u \in 0..255, NEW b \in 1..15, NEW s \in Nat,
               e = Full(u, b, s) \/ e = Beyond(u, b, s)
        PROVE  Good
    BY <1>4, <1>8, <2>3
  <2>4. ASSUME NEW u \in 0..255, NEW b \in 1..15, e = Short(u, b) PROVE Good
    BY <1>5, <1>8, <2>4
  <2> QED BY <1>6, <1>9, <2>1, <2>2, <2>3, <2>4
<1> QED BY <1>10

\* The parser finds a message where it stands, and the next one behind it; the bytes a
\* message has beyond its payload are a message without events for it.
LEMMA WrittenAt ==
  ASSUME NEW data \in Seq(Nat), NEW at \in Nat, NEW e, NEW es,
         Written(e, es, data, at), HoldsAt(data, at, e)
  PROVE  \/ /\ ~Incomplete(data, at + 1)
            /\ NextMessage(data, at + 1) = at + Len(e) + 1
            /\ EventsAt(data, at + 1) = es
            /\ es # <<>> => at + 1 <= Len(data) - 2
         \/ /\ ReadAs(data, at + 1, at + 7, es)
            /\ ReadAs(data, at + 7, at + Len(e) + 1, <<>>)
<1>1. CASE e = << 200 >> /\ es = <<>>
  <2>1. Len(e) = 1
    BY <1>1
  <2> QED BY <1>1, <2>1, NoiseAt
<1>2. CASE e = <<41, 0, 0, 0>> /\ es = <<>>
  <2>1. Len(e) = 4
    BY <1>2
  <2> QED BY <1>2, <2>1, OtherAt DEF ReadAs
<1>3. ASSUME NEW u \in 0..255, NEW b \in 1..4, NEW ev, Says8(e, u, b, ev),
             es = <<[unit |-> u, button |-> b, event |-> ev]>>
      PROVE  ReadAs(data, at + 1, at + Len(e) + 1, es)
  <2>1. Len(e) = 5 /\ at + 5 + 1 = at + 6
    BY <1>3 DEF Says8
  <2> QED BY <1>3, <2>1, ButtonAt
<1>4. ASSUME NEW u \in 0..255, NEW b \in 1..15, NEW s \in Nat, e = Full(u, b, s),
             es = <<[unit |-> u, button |-> b, event |-> EventOf(s)]>>
      PROVE  ReadAs(data, at + 1, at + Len(e) + 1, es)
  <2>1. Len(e) = 10 /\ at + 10 + 1 = at + 11
    BY <1>4 DEF Full
  <2> QED BY <1>4, <2>1, FullAt
<1>5. ASSUME NEW u \in 0..255, NEW b \in 1..15, e = Short(u, b),
             es = <<[unit |-> u, button |-> b, event |-> ShortKind(data, at)]>>
      PROVE  ReadAs(data, at + 1, at + Len(e) + 1, es)
  <2>1. Len(e) = 7 /\ at + 7 + 1 = at + 8
    BY <1>5 DEF Short
  <2> QED BY <1>5, <2>1, ShortAt
<1>6. ASSUME NEW u \in 0..255, NEW b \in 1..15, NEW s \in Nat, e = Beyond(u, b, s),
             es = <<[unit |-> u, button |-> b, event |-> EventOf(s)]>>
      PROVE  /\ ReadAs(data, at + 1, at + 7, es)
             /\ ReadAs(data, at + 7, at + Len(e) + 1, <<>>)
  <2>1. Len(e) = 10 /\ at + 10 + 1 = at + 11
    BY <1>6 DEF Beyond
  <2> QED BY <1>6, <2>1, BeyondAt
<1> QED BY <1>1, <1>2, <1>3, <1>4, <1>5, <1>6 DEF Written, ReadAs

\* The recursion of parseSwitchEvents, from the end of the packet.
Parses(f, data) ==
  f = [pos \in 1..(Len(data) + 17) |->
         IF pos > Len(data) - 2 THEN <<>>
         ELSE IF Incomplete(data, pos) THEN <<>>
         ELSE EventsAt(data, pos) \o f[NextMessage(data, pos)]]

LEMMA NextMessageIs ==
  ASSUME NEW data \in Seq(Nat), NEW pos \in 1..Len(data), pos <= Len(data) - 2
  PROVE  NextMessage(data, pos) \in (pos + 1)..(Len(data) + 17)
<1>1. PICK n \in Nat : n = Len(data)
  BY LenProperties
<1>2. data[pos] \in Nat /\ data[pos + 2] \in Nat
  <2>1. pos \in 1..Len(data) /\ pos + 2 \in 1..Len(data)
    BY <1>1
  <2> QED BY <2>1, ElementOfSeq
<1>3. PICK a \in Nat, b \in Nat : a = data[pos] /\ b = data[pos + 2]
  BY <1>2
<1>4. PICK s \in 1..16 : s = Size(b)
  BY DEF Size
<1>5. NextMessage(data, pos) = IF a > 128 THEN pos + 1 ELSE pos + 3 + s
  BY <1>3, <1>4 DEF NextMessage
<1> QED BY <1>1, <1>5

LEMMA ParsesExist ==
  ASSUME NEW data \in Seq(Nat)
  PROVE  \E f : Parses(f, data)
<1> DEFINE N == Len(data) + 17
           S(f, lo) == f = [pos \in lo..N |->
                          IF pos > Len(data) - 2 THEN <<>>
                          ELSE IF Incomplete(data, pos) THEN <<>>
                          ELSE EventsAt(data, pos) \o f[NextMessage(data, pos)]]
           T == {k \in Nat : k < N => \E f : S(f, N - k)}
<1>0. Len(data) \in Nat /\ N \in Nat
  BY LenProperties
<1>1. 0 \in T
  <2> DEFINE h == [pos \in (N - 0)..N |-> <<>>]
  <2>a. \A pos \in (N - 0)..N : pos > Len(data) - 2
    BY <1>0
  <2>b. h = [pos \in (N - 0)..N |->
               IF pos > Len(data) - 2 THEN <<>>
               ELSE IF Incomplete(data, pos) THEN <<>>
               ELSE EventsAt(data, pos) \o h[NextMessage(data, pos)]]
    BY <2>a, Zenon
  <2>1. S(h, N - 0)
    BY <2>b
  <2> HIDE DEF h
  <2> QED BY <2>1
<1>2. ASSUME NEW k \in Nat, k \in T PROVE k + 1 \in T
  <2> SUFFICES ASSUME k + 1 < N PROVE \E f : S(f, N - (k + 1))
    <3>1. k + 1 \in Nat
      OBVIOUS
    <3> HIDE DEF S
    <3> QED BY <3>1
  <2> DEFINE lo == N - (k + 1)
  <2>1. PICK g : S(g, lo + 1)
    <3>1. N - k = lo + 1 /\ k < N
      BY <1>0
    <3>2. \E f : S(f, N - k)
      BY <1>2, <3>1, Zenon
    <3> HIDE DEF S, lo
    <3> QED BY <3>1, <3>2
  <2>2. lo \in 1..N
    BY <1>0
  <2> HIDE DEF lo
  <2> DEFINE h == [pos \in lo..N |->
                IF pos # lo THEN g[pos]
                ELSE IF pos > Len(data) - 2 THEN <<>>
                ELSE IF Incomplete(data, pos) THEN <<>>
                ELSE EventsAt(data, pos) \o g[NextMessage(data, pos)]]
  <2>3. ASSUME NEW pos \in lo..N, ~(pos > Len(data) - 2)
        PROVE  NextMessage(data, pos) \in (lo + 1)..N
    <3>1. pos \in 1..Len(data) /\ pos <= Len(data) - 2
      BY <1>0, <2>2, <2>3
    <3>2. NextMessage(data, pos) \in (pos + 1)..N
      BY <3>1, NextMessageIs
    <3> QED BY <1>0, <2>2, <3>1, <3>2
  <2>4. ASSUME NEW pos \in lo..N
        PROVE  h[pos] = IF pos > Len(data) - 2 THEN <<>>
                        ELSE IF Incomplete(data, pos) THEN <<>>
                        ELSE EventsAt(data, pos) \o h[NextMessage(data, pos)]
    <3>1. CASE pos > Len(data) - 2
      BY <1>0, <2>1, <2>2, <3>1
    <3>2. CASE ~(pos > Len(data) - 2)
      <4>1. NextMessage(data, pos) \in lo..N /\ NextMessage(data, pos) # lo
        BY <1>0, <2>2, <2>3, <3>2
      <4>2. h[NextMessage(data, pos)] = g[NextMessage(data, pos)]
        BY <4>1
      <4>3. CASE pos = lo
        BY <3>2, <4>2, <4>3
      <4>4. CASE pos # lo
        <5>1. pos \in (lo + 1)..N
          BY <1>0, <2>2, <4>4
        <5> QED BY <2>1, <3>2, <4>2, <4>4, <5>1
      <4> QED BY <4>3, <4>4
    <3> QED BY <3>1, <3>2
  <2>5. S(h, lo)
    BY <2>4
  <2> HIDE DEF h
  <2> QED BY <2>5 DEF lo
<1> HIDE DEF T
<1>3. Len(data) + 16 \in T
  BY <1>0, <1>1, <1>2, Induction
<1>4. Len(data) + 16 < N /\ N - (Len(data) + 16) = 1
  BY <1>0
<1>5. PICK f : S(f, N - (Len(data) + 16))
  BY <1>3, <1>4 DEF T
<1> QED BY <1>4, <1>5 DEF Parses

LEMMA SwitchParseIs ==
  ASSUME NEW data \in Seq(Nat)
  PROVE  \E f : /\ Parses(f, data)
                /\ parseSwitchEvents(data) =
                     IF data # <<>> /\ data[1] = 41 THEN <<>> ELSE f[1]
<1> DEFINE from[pos \in 1..(Len(data) + 17)] ==
             IF pos > Len(data) - 2 THEN <<>>
             ELSE IF Incomplete(data, pos) THEN <<>>
             ELSE EventsAt(data, pos) \o from[NextMessage(data, pos)]
<1>1. parseSwitchEvents(data) = IF data # <<>> /\ data[1] = 41 THEN <<>> ELSE from[1]
  BY DEF parseSwitchEvents
<1>2. Parses(from, data)
  <2>1. PICK f : Parses(f, data)
    BY ParsesExist
  <2> QED BY <2>1 DEF Parses
<1> HIDE DEF from
<1> QED BY <1>1, <1>2

\* What is parsed from a position is a sequence.
LEMMA ParsesTyped ==
  ASSUME NEW data \in Seq(Nat), NEW f, Parses(f, data)
  PROVE  \A pos \in 1..(Len(data) + 17) : <<>> \o f[pos] = f[pos]
<1>1. PICK n \in Nat : n = Len(data)
  BY LenProperties
<1>2. PICK N \in Nat : N = n + 17
  OBVIOUS
<1>3. PICK S : S = {EventsAt(data, pos)[1] : pos \in 1..N}
  OBVIOUS
<1>4. ASSUME NEW pos \in 1..N PROVE EventsAt(data, pos) \in Seq(S)
  <2>1. EventsAt(data, pos) = <<>> \/ \E x : EventsAt(data, pos) = <<x>>
    BY DEF EventsAt
  <2>2. EventsAt(data, pos)[1] \in S
    BY <1>3
  <2>3. PICK e : e = EventsAt(data, pos)
    OBVIOUS
  <2>4. ASSUME NEW x, e = <<x>> PROVE e \in Seq(S)
    <3>1. e[1] = x
      BY <2>4
    <3>2. x \in S
      BY <2>2, <2>3, <3>1
    <3> QED BY <2>4, <3>2
  <2>5. e = <<>> => e \in Seq(S)
    OBVIOUS
  <2> QED BY <2>1, <2>3, <2>4, <2>5
<1>5. \A pos \in 1..N :
        \/ f[pos] = <<>>
        \/ pos <= n - 2 /\ f[pos] = EventsAt(data, pos) \o f[NextMessage(data, pos)]
  <2>1. f = [pos \in 1..N |->
               IF pos > n - 2 THEN <<>>
               ELSE IF Incomplete(data, pos) THEN <<>>
               ELSE EventsAt(data, pos) \o f[NextMessage(data, pos)]]
    BY <1>1, <1>2 DEF Parses
  <2>2. \A pos \in 1..N : f[pos] = IF pos > n - 2 THEN <<>>
               ELSE IF Incomplete(data, pos) THEN <<>>
               ELSE EventsAt(data, pos) \o f[NextMessage(data, pos)]
    BY <2>1, Zenon
  <2>3. \A pos \in 1..N : ~(pos > n - 2) => pos <= n - 2
    OBVIOUS
  <2> QED BY <2>2, <2>3, Zenon
<1> DEFINE T == {k \in Nat : \A pos \in 1..N : pos >= N - k => f[pos] \in Seq(S)}
<1>6. <<>> \in Seq(S)
  OBVIOUS
<1>7. ASSUME NEW k \in Nat, NEW pos \in 1..N, pos >= N - (k + 1),
             \A q \in 1..N : q >= N - k => f[q] \in Seq(S)
      PROVE  f[pos] \in Seq(S)
  <2>1. CASE f[pos] = <<>>
    BY <1>6, <2>1, Zenon
  <2>2. CASE pos <= n - 2 /\ f[pos] = EventsAt(data, pos) \o f[NextMessage(data, pos)]
    <3>1. pos \in 1..Len(data) /\ pos <= Len(data) - 2
      BY <1>1, <2>2
    <3>2. PICK q \in (pos + 1)..(Len(data) + 17) : q = NextMessage(data, pos)
      BY <3>1, NextMessageIs
    <3>3. q \in 1..N /\ q >= N - k
      BY <1>1, <1>2, <1>7, <3>1, <3>2
    <3>4. f[q] \in Seq(S) /\ EventsAt(data, pos) \in Seq(S)
      BY <1>4, <1>7, <3>3
    <3>5. EventsAt(data, pos) \o f[q] \in Seq(S)
      BY <3>4, ConcatProperties
    <3> QED BY <2>2, <3>2, <3>5
  <2> QED BY <1>5, <2>1, <2>2
<1>8. 0 \in T
  <2>1. ASSUME NEW pos \in 1..N, pos >= N - 0 PROVE f[pos] \in Seq(S)
    <3>1. ~(pos <= n - 2)
      BY <1>2, <2>1
    <3>2. f[pos] = <<>>
      BY <1>5, <3>1
    <3> QED BY <1>6, <3>2, Zenon
  <2> QED BY <2>1
<1>9. ASSUME NEW k \in Nat, k \in T PROVE k + 1 \in T
  <2>1. \A q \in 1..N : q >= N - k => f[q] \in Seq(S)
    BY <1>9
  <2>2. \A pos \in 1..N : pos >= N - (k + 1) => f[pos] \in Seq(S)
    BY <1>7, <2>1
  <2>3. k + 1 \in Nat
    OBVIOUS
  <2> QED BY <2>2, <2>3, Zenon
<1> HIDE DEF T
<1>10. N \in T
  BY <1>8, <1>9, Induction
<1>11. ASSUME NEW pos \in 1..N PROVE f[pos] \in Seq(S)
  <2>1. pos >= N - N
    OBVIOUS
  <2> QED BY <1>10, <2>1 DEF T
<1>12. ASSUME NEW pos \in 1..N PROVE <<>> \o f[pos] = f[pos]
  BY <1>11, ConcatEmptySeq
<1> QED BY <1>1, <1>2, <1>12

\* Sequences put together from the end are sequences.
LEMMA FromEndTyped ==
  ASSUME NEW S, NEW ss \in Seq(Seq(S)), NEW r, r = [i \in 1..(Len(ss) + 1) |-> r[i]],
         r[Len(ss) + 1] = <<>>, \A i \in 1..Len(ss) : r[i] = ss[i] \o r[i + 1]
  PROVE  r \in [1..(Len(ss) + 1) -> Seq(S)]
<1>1. PICK n \in Nat : n = Len(ss)
  BY LenProperties
<1> DEFINE T == {k \in Nat : k <= n => r[(n + 1) - k] \in Seq(S)}
<1>2. 0 \in T
  <2>1. (n + 1) - 0 = n + 1
    OBVIOUS
  <2>a. <<>> \in Seq(S)
    OBVIOUS
  <2>b. r[n + 1] = <<>>
    BY <1>1
  <2>2. r[(n + 1) - 0] \in Seq(S)
    BY <2>1, <2>a, <2>b, Zenon
  <2> QED BY <2>2
<1>3. ASSUME NEW k \in Nat, k \in T PROVE k + 1 \in T
  <2> SUFFICES ASSUME k + 1 <= n PROVE r[(n + 1) - (k + 1)] \in Seq(S)
    OBVIOUS
  <2>1. PICK i \in 1..n : i = (n + 1) - (k + 1) /\ i + 1 = (n + 1) - k
    <3>1. (n + 1) - (k + 1) \in 1..n /\ ((n + 1) - (k + 1)) + 1 = (n + 1) - k
      OBVIOUS
    <3> QED BY <3>1
  <2>2. r[i + 1] \in Seq(S)
    BY <1>3, <2>1
  <2>3. ss[i] \in Seq(S)
    BY <1>1, ElementOfSeq
  <2>4. ss[i] \o r[i + 1] \in Seq(S)
    BY <2>2, <2>3, ConcatProperties
  <2> QED BY <1>1, <2>1, <2>4
<1> HIDE DEF T
<1>4. \A k \in Nat : k \in T
  BY <1>2, <1>3, Induction
<1>5. ASSUME NEW i \in 1..(n + 1) PROVE r[i] \in Seq(S)
  <2>1. CASE i = n + 1
    <3>1. r[n + 1] = <<>>
      BY <1>1
    <3>2. <<>> \in Seq(S)
      OBVIOUS
    <3> QED BY <2>1, <3>1, <3>2, Zenon
  <2>2. CASE i # n + 1
    <3>1. (n + 1) - i \in Nat /\ (n + 1) - i <= n /\ (n + 1) - ((n + 1) - i) = i
      BY <2>2
    <3>2. (n + 1) - i \in T
      BY <1>4, <3>1
    <3> QED BY <3>1, <3>2 DEF T
  <2> QED BY <2>1, <2>2
<1> QED BY <1>1, <1>5

LEMMA SumsAgree ==
  ASSUME NEW n \in Nat, NEW i \in 1..n, NEW l \in Nat, l = n - i, NEW len \in [1..n -> Nat],
         NEW p \in [0..n -> Nat], \A k \in 1..n : p[k] = p[k - 1] + len[k],
         NEW q \in [0..l -> Nat], q[0] = 0, \A j \in 1..l : q[j] = q[j - 1] + len[i + j]
  PROVE  q[l] = p[n] - p[i]
<1> DEFINE T == {j \in Nat : j <= l => p[i + j] = p[i] + q[j]}
<1>0. PICK x \in Nat : x = p[i]
  OBVIOUS
<1>1. 0 \in T
  <2>1. i + 0 = i /\ x + 0 = x
    OBVIOUS
  <2> QED BY <1>0, <2>1
<1>2. ASSUME NEW j \in Nat, j \in T PROVE j + 1 \in T
  <2> SUFFICES ASSUME j + 1 <= l PROVE p[i + (j + 1)] = p[i] + q[j + 1]
    OBVIOUS
  <2>1. PICK k \in 1..n, m \in 1..l : /\ k = i + (j + 1) /\ m = j + 1 /\ k - 1 = i + j
                                     /\ m - 1 = j /\ i + m = k /\ j \in 0..l
    <3>1. /\ i + (j + 1) \in 1..n /\ j + 1 \in 1..l /\ (i + (j + 1)) - 1 = i + j
          /\ (j + 1) - 1 = j /\ j \in 0..l
      OBVIOUS
    <3> QED BY <3>1
  <2>2. p[k] = p[k - 1] + len[k] /\ q[m] = q[m - 1] + len[i + m]
    OBVIOUS
  <2>3. PICK y \in Nat, z \in Nat : y = q[j] /\ z = len[k]
    BY <2>1
  <2>4. p[k - 1] = x + y
    BY <1>0, <1>2, <2>1, <2>3
  <2>5. p[k] = (x + y) + z /\ q[m] = y + z
    BY <2>1, <2>2, <2>3, <2>4
  <2>6. p[k] = x + q[m]
    BY <2>5
  <2> QED BY <1>0, <2>1, <2>6
<1> HIDE DEF T
<1>3. l \in T
  BY <1>1, <1>2, Induction
<1>4. i + l = n /\ l <= l
  OBVIOUS
<1>5. p[i + l] = p[i] + q[l]
  BY <1>3, <1>4 DEF T
<1>6. PICK y \in Nat : y = q[l]
  OBVIOUS
<1>7. p[n] = x + y
  BY <1>0, <1>4, <1>5, <1>6
<1> QED BY <1>0, <1>6, <1>7

\* Behind a message of a packet are the bytes up to the end of the packet.
LEMMA BehindIs ==
  ASSUME NEW ms, NEW n \in Nat, Len(ms) = n, NEW ss \in Seq(Seq(Nat)), Len(ss) = n,
         \A i \in 1..n : ss[i] = Message(ms[i]),
         NEW p \in [0..n -> Nat], \A i \in 1..n : p[i] = p[i - 1] + Len(ss[i]),
         NEW i \in 1..n
  PROVE  Behind(ms, i) = p[n] - p[i]
<1>1. PICK l \in Nat : l = n - i
  OBVIOUS
<1>2. PICK rest : rest = [j \in 1..l |-> Message(ms[i + j])]
  OBVIOUS
<1>3. \A j \in 1..l : i + j \in 1..n /\ rest[j] = ss[i + j] /\ ss[i + j] \in Seq(Nat)
  <2>1. ASSUME NEW j \in 1..l PROVE i + j \in 1..n /\ rest[j] = ss[i + j] /\ ss[i + j] \in Seq(Nat)
    <3>1. i + j \in 1..n
      BY <1>1
    <3> QED BY <1>2, <3>1, ElementOfSeq
  <2> QED BY <2>1
<1>4. rest \in Seq(Seq(Nat)) /\ Len(rest) = l
  <2>1. rest = [j \in 1..l |-> rest[j]]
    BY <1>2, Zenon
  <2>2. \A j \in 1..l : rest[j] \in Seq(Nat)
    BY <1>3
  <2>3. PICK S : S = Seq(Nat)
    OBVIOUS
  <2>4. rest \in Seq(S) /\ Len(rest) = l
    BY <2>1, <2>2, <2>3, TupleTyped
  <2> QED BY <2>3, <2>4
<1>5. PICK q : Laid(q, rest, FlattenSeq(rest))
  BY <1>4, FlattenSeqHolds
<1>6. q = [j \in 0..l |-> IF j = 0 THEN 0 ELSE q[j - 1] + Len(rest[j])]
  BY <1>4, <1>5 DEF Laid, BeginsAt
<1>7. q \in [0..l -> Nat] /\ Len(FlattenSeq(rest)) = q[l]
  BY <1>4, <1>5 DEF Laid
<1>8. PICK len : len = [k \in 1..n |-> Len(ss[k])]
  OBVIOUS
<1>9. len \in [1..n -> Nat] /\ \A k \in 1..n : len[k] = Len(ss[k])
  <2>1. \A k \in 1..n : Len(ss[k]) \in Nat
    BY ElementOfSeq, LenProperties
  <2> QED BY <1>8, <2>1
<1>10. \A k \in 1..n : p[k] = p[k - 1] + len[k]
  BY <1>9
<1>11. q[0] = 0
  <2>1. 0 \in 0..l
    OBVIOUS
  <2> QED BY <1>6, <2>1, Zenon
<1>12. \A j \in 1..l : q[j] = q[j - 1] + len[i + j]
  <2>1. ASSUME NEW j \in 1..l PROVE q[j] = q[j - 1] + len[i + j]
    <3>1. j \in 0..l /\ j # 0
      OBVIOUS
    <3>2. q[j] = q[j - 1] + Len(rest[j])
      BY <1>6, <3>1, Zenon
    <3>3. Len(rest[j]) = len[i + j]
      BY <1>3, <1>9
    <3> QED BY <3>2, <3>3
  <2> QED BY <2>1
<1>13. q[l] = p[n] - p[i]
  <2>1. q \in [0..l -> Nat] /\ len \in [1..n -> Nat] /\ l = n - i
    BY <1>1, <1>7, <1>9
  <2> QED BY ZenonT(60), <2>1, <1>10, <1>11, <1>12, SumsAgree
<1>14. Behind(ms, i) = Len(FlattenSeq(rest))
  BY <1>1, <1>2 DEF Behind
<1> QED BY <1>7, <1>13, <1>14

\* The kinds that are read of the messages of a packet: all but those of short ones with
\* three bytes or more behind them are the ones that were sent.
Promised(ms, kinds) ==
  \A i \in DOMAIN ms :
    ms[i].kind \in {"button", "full", "beyond"} \/ (ms[i].kind = "short" /\ Behind(ms, i) < 3)
      => kinds[i] = ms[i].event

LEMMA KindIs ==
  ASSUME NEW ms \in Presses, NEW i \in DOMAIN ms, NEW data, NEW at
  PROVE  /\ KindOf(ms[i], data, at) \in Kinds
         /\ ms[i].kind \in {"button", "full", "beyond"} => KindOf(ms[i], data, at) = ms[i].event
         /\ ms[i].kind = "short" => /\ Message(ms[i]) = Short(ms[i].unit, ms[i].button)
                                    /\ ms[i].event = "RELEASE"
<1>1. PICK m : m = ms[i]
  OBVIOUS
<1>2. \/ m.kind \in {"noise", "other"}
      \/ m.kind = "button" /\ m.event \in DOMAIN ActionByte
      \/ m.kind \in {"full", "beyond"} /\ m.event \in DOMAIN StateByte
      \/ m.kind = "short" /\ m.event = "RELEASE"
  <2>1. \/ ms[i].kind \in {"noise", "other"}
        \/ ms[i].kind = "button" /\ ms[i].event \in DOMAIN ActionByte
        \/ ms[i].kind \in {"full", "beyond"} /\ ms[i].event \in DOMAIN StateByte
        \/ ms[i].kind = "short" /\ ms[i].event = "RELEASE"
    BY PressesAssumption
  <2> QED BY <1>1, <2>1, Zenon
<1>3. KindOf(m, data, at) \in Kinds
  <2>1. ShortKind(data, at) \in Kinds
    BY DEF ShortKind, Kinds, EventOf, StateByte
  <2>2. m.kind = "short" => KindOf(m, data, at) = ShortKind(data, at)
    BY DEF KindOf
  <2>3. m.kind \in {"noise", "other"} => KindOf(m, data, at) = "UNKNOWN"
    BY DEF KindOf
  <2>4. m.kind \in {"button", "full", "beyond"} => KindOf(m, data, at) = m.event
    BY DEF KindOf
  <2>5. "UNKNOWN" \in Kinds /\ DOMAIN StateByte \subseteq Kinds /\ DOMAIN ActionByte \subseteq Kinds
    BY DEF Kinds, StateByte, ActionByte
  <2> QED BY <1>2, <2>1, <2>2, <2>3, <2>4, <2>5
<1>4. m.kind \in {"button", "full", "beyond"} => KindOf(m, data, at) = m.event
  BY DEF KindOf
<1>5. m.kind = "short" => Message(m) = Short(m.unit, m.button) /\ m.event = "RELEASE"
  BY <1>2 DEF Message, Short
<1> QED BY <1>1, <1>3, <1>4, <1>5

\* What parseSwitchEvents yields of a packet of switches is what they said.
THEOREM SwitchesParsed ==
  ASSUME NEW ms \in Presses
  PROVE  \E kinds \in [DOMAIN ms -> Kinds] :
           /\ parseSwitchEvents(Switches(ms).data) = EventsAs(ms, kinds)
           /\ Promised(ms, kinds)
<1>1. PICK n \in Nat : n = Len(ms) /\ DOMAIN ms = 1..n
  BY PressesAssumption
<1>2. PICK ss : ss = [i \in 1..n |-> Message(ms[i])]
  OBVIOUS
<1>4. \A i \in 1..n : \A data, at : Written(ss[i], EventsOf(ms[i], KindOf(ms[i], data, at)), data, at)
  <2>1. ASSUME NEW i \in 1..n, NEW data, NEW at
        PROVE  Written(ss[i], EventsOf(ms[i], KindOf(ms[i], data, at)), data, at)
    <3>1. Written(Message(ms[i]), EventsOf(ms[i], KindOf(ms[i], data, at)), data, at)
      BY <1>1, MessageIs
    <3> QED BY <1>2, <3>1
  <2> QED BY <2>1
<1>5. \A i \in 1..n : ss[i] \in Seq(Nat) /\ Len(ss[i]) \in 1..10
  <2>1. PICK data, at : data = <<>> /\ at = 0
    OBVIOUS
  <2> QED BY <1>4, WrittenIs
<1>6. ss \in Seq(Seq(Nat)) /\ Len(ss) = n
  <2>1. \A i \in 1..n : ss[i] \in Seq(Nat)
    BY <1>5
  <2> QED BY <1>2, <2>1
<1>7. PICK data \in Seq(Nat) : data = FlattenSeq(ss) /\ data = Switches(ms).data
  <2>1. Switches(ms).data = FlattenSeq([i \in 1..n |-> Message(ms[i])])
    BY <1>1 DEF Switches
  <2> QED BY <1>2, <1>6, <2>1, FlattenSeqHolds
<1>8. PICK p : Laid(p, ss, data)
  BY <1>6, <1>7, FlattenSeqHolds
<1>9. /\ p \in [0..n -> Nat] /\ Len(data) = p[n] /\ p[0] = 0
      /\ \A i \in 1..n : p[i] = p[i - 1] + Len(ss[i])
  <2>1. p = [i \in 0..n |-> IF i = 0 THEN 0 ELSE p[i - 1] + Len(ss[i])]
    BY <1>6, <1>8 DEF Laid, BeginsAt
  <2>2. p \in [0..n -> Nat] /\ Len(data) = p[n]
    BY <1>6, <1>8 DEF Laid
  <2> QED BY <2>1, <2>2
<1>10. PICK m \in Nat : m = Len(data) /\ m = p[n]
  BY <1>9
<1>11. \A i \in 1..n : HoldsAt(data, p[i - 1], ss[i])
  <2>1. ASSUME NEW i \in 1..n PROVE HoldsAt(data, p[i - 1], ss[i])
    <3>1. \A j \in 1..Len(ss[i]) : p[i - 1] + j \in 1..m /\ data[p[i - 1] + j] = ss[i][j]
      BY <1>6, <1>8, <1>10 DEF Laid
    <3>2. PICK l \in 1..10 : l = Len(ss[i])
      BY <1>5
    <3>3. PICK at \in Nat : at = p[i - 1]
      <4>1. i - 1 \in 0..n
        OBVIOUS
      <4> QED BY <1>9, <4>1
    <3>4. at + l <= m
      <4>1. l \in 1..l
        OBVIOUS
      <4>2. at + l \in 1..m
        BY <3>1, <3>2, <3>3, <4>1
      <4> QED BY <4>2
    <3> QED BY <1>10, <3>1, <3>2, <3>3, <3>4 DEF HoldsAt
  <2> QED BY <2>1
<1>3. PICK kinds, tt : /\ kinds = [i \in 1..n |-> KindOf(ms[i], data, p[i - 1])]
                       /\ tt = [i \in 1..n |-> EventsOf(ms[i], kinds[i])]
  OBVIOUS
<1>a. \A i \in 1..n : tt[i] = EventsOf(ms[i], KindOf(ms[i], data, p[i - 1]))
  BY <1>3
<1>12. PICK f : /\ Parses(f, data)
                /\ parseSwitchEvents(data) = IF data # <<>> /\ data[1] = 41 THEN <<>> ELSE f[1]
  BY SwitchParseIs
<1>13. \A pos \in 1..(m + 17) :
         /\ pos > m - 2 => f[pos] = <<>>
         /\ ~(pos > m - 2) /\ ~Incomplete(data, pos) =>
              f[pos] = EventsAt(data, pos) \o f[NextMessage(data, pos)]
  <2>1. f = [pos \in 1..(m + 17) |->
               IF pos > m - 2 THEN <<>>
               ELSE IF Incomplete(data, pos) THEN <<>>
               ELSE EventsAt(data, pos) \o f[NextMessage(data, pos)]]
    BY <1>10, <1>12 DEF Parses
  <2> QED BY <2>1, Zenon
<1>14. \A i \in 0..n : p[i] \in Nat /\ p[i] <= m
  <2>1. ASSUME NEW i \in 0..n PROVE p[i] \in Nat /\ p[i] <= m
    <3>1. p[i] \in Nat
      BY <1>9
    <3>2. CASE i = n
      BY <1>10, <3>1, <3>2
    <3>3. CASE i # n
      <4>1. i + 1 \in 1..n /\ (i + 1) - 1 = i
        BY <3>3
      <4>2. HoldsAt(data, p[i], ss[i + 1]) /\ Len(ss[i + 1]) \in Nat
        BY <1>5, <1>11, <4>1
      <4> QED BY <1>10, <3>1, <4>2 DEF HoldsAt
    <3> QED BY <3>2, <3>3
  <2> QED BY <2>1
<1> DEFINE r == [i \in 1..(n + 1) |-> f[p[i - 1] + 1]]
<1>15. \A i \in 1..(n + 1) : r[i] = f[p[i - 1] + 1]
  OBVIOUS
<1>16. r = [i \in 1..(n + 1) |-> r[i]]
  OBVIOUS
<1> HIDE DEF r
<1>17. r[n + 1] = <<>>
  <2>1. n + 1 \in 1..(n + 1) /\ (n + 1) - 1 = n /\ m + 1 \in 1..(m + 17) /\ m + 1 > m - 2
    OBVIOUS
  <2>2. r[n + 1] = f[m + 1]
    BY <1>10, <1>15, <2>1
  <2> QED BY <1>13, <2>1, <2>2
<1>18. ASSUME NEW i \in 1..n PROVE r[i] = tt[i] \o r[i + 1]
  <2>1. i \in 1..(n + 1) /\ i + 1 \in 1..(n + 1) /\ (i + 1) - 1 = i /\ i - 1 \in 0..n /\ i \in 0..n
    OBVIOUS
  <2>2. PICK at \in Nat, l \in 1..10, next \in Nat :
          at = p[i - 1] /\ l = Len(ss[i]) /\ next = p[i] /\ next = at + l /\ next <= m
    <3>1. p[i] = p[i - 1] + Len(ss[i])
      BY <1>9
    <3> QED BY <1>5, <1>14, <2>1, <3>1
  <2>3. r[i] = f[at + 1] /\ r[i + 1] = f[next + 1]
    <3>1. r[i] = f[p[i - 1] + 1] /\ r[i + 1] = f[p[(i + 1) - 1] + 1]
      BY <1>15, <2>1, Zenon
    <3> QED BY <2>1, <2>2, <3>1, Zenon
  <2>4. \/ /\ ~Incomplete(data, at + 1)
           /\ NextMessage(data, at + 1) = at + Len(ss[i]) + 1
           /\ EventsAt(data, at + 1) = tt[i]
           /\ tt[i] # <<>> => at + 1 <= Len(data) - 2
        \/ /\ ReadAs(data, at + 1, at + 7, tt[i])
           /\ ReadAs(data, at + 7, at + Len(ss[i]) + 1, <<>>)
    <3>1. HoldsAt(data, at, ss[i]) /\ Written(ss[i], tt[i], data, at)
      BY <1>4, <1>a, <1>11, <2>2
    <3> QED BY <3>1, WrittenAt
  <2>a. next = at + l /\ next <= m
    BY <2>2
  <2>5. at + 1 \in 1..(m + 17) /\ next + 1 \in 1..(m + 17) /\ at + l + 1 = next + 1
    BY <2>a
  <2>b. at + Len(ss[i]) + 1 = next + 1
    BY <2>2, <2>5
  <2>8. CASE /\ ~Incomplete(data, at + 1)
             /\ NextMessage(data, at + 1) = next + 1
             /\ EventsAt(data, at + 1) = tt[i]
             /\ tt[i] # <<>> => at + 1 <= Len(data) - 2
    <3>1. CASE at + 1 > m - 2
      <4>1. tt[i] = <<>>
        BY <1>10, <2>8, <3>1
      <4>2. f[at + 1] = <<>> /\ f[next + 1] = <<>>
        <5>1. next + 1 > m - 2
          BY <2>2, <3>1
        <5> QED BY <1>13, <2>5, <3>1, <5>1
      <4>3. <<>> \o <<>> = <<>>
        <5>1. <<>> \in Seq(Nat)
          OBVIOUS
        <5> QED BY <5>1, ConcatEmptySeq
      <4> QED BY <2>3, <4>1, <4>2, <4>3, Zenon
    <3>2. CASE ~(at + 1 > m - 2)
      <4>1. f[at + 1] = EventsAt(data, at + 1) \o f[NextMessage(data, at + 1)]
        BY <1>13, <2>5, <2>8, <3>2
      <4> QED BY <2>3, <2>8, <4>1, Zenon
    <3> QED BY <3>1, <3>2
  <2>9. CASE ReadAs(data, at + 1, at + 7, tt[i]) /\ ReadAs(data, at + 7, next + 1, <<>>)
    <3>1. PICK mid \in 1..(m + 17) : mid = at + 7 /\ ~(mid > m - 2) /\ ~(at + 1 > m - 2)
      <4>1. at + 7 <= m - 2
        BY <1>10, <2>9 DEF ReadAs
      <4> QED BY <4>1
    <3>2. f[at + 1] = EventsAt(data, at + 1) \o f[NextMessage(data, at + 1)]
      BY <1>13, <2>5, <2>9, <3>1 DEF ReadAs
    <3>3. f[mid] = EventsAt(data, mid) \o f[NextMessage(data, mid)]
      BY <1>13, <2>9, <3>1 DEF ReadAs
    <3>4. f[at + 1] = tt[i] \o f[mid] /\ f[mid] = <<>> \o f[next + 1]
      BY <2>9, <3>1, <3>2, <3>3 DEF ReadAs
    <3>5. f[next + 1] = <<>> \o f[next + 1]
      BY <1>10, <1>12, <2>5, ParsesTyped
    <3> QED BY <2>3, <3>4, <3>5, Zenon
  <2> QED BY <2>4, <2>b, <2>8, <2>9
<1>19. PICK S : tt \in Seq(Seq(S)) /\ Len(tt) = n
  <2> DEFINE S == UNION {Range(tt[i]) : i \in 1..n}
  <2>1. ASSUME NEW i \in 1..n PROVE tt[i] \in Seq(S)
    <3>1. tt[i] = <<>> \/ \E x : tt[i] = <<x>>
      BY <1>a DEF EventsOf
    <3>2. ASSUME NEW x, tt[i] = <<x>> PROVE tt[i] \in Seq(S)
      <4>1. tt[i][1] = x /\ 1 \in DOMAIN tt[i]
        BY <3>2
      <4>2. x \in S
        BY <4>1 DEF Range
      <4> HIDE DEF S
      <4> QED BY <3>2, <4>2
    <3> HIDE DEF S
    <3>3. <<>> \in Seq(S)
      OBVIOUS
    <3> QED BY <3>1, <3>2, <3>3
  <2> HIDE DEF S
  <2> QED BY <1>3, <2>1
<1>20. r[1] = FlattenSeq(tt)
  <2>1. r \in [1..(Len(tt) + 1) -> Seq(S)]
    BY <1>16, <1>17, <1>18, <1>19, FromEndTyped
  <2> QED BY <1>17, <1>18, <1>19, <2>1, FlattenFromEnd
<1>21. r[1] = f[1]
  <2>1. 1 \in 1..(n + 1) /\ 1 - 1 = 0 /\ p[0] + 1 = 1
    BY <1>9
  <2> QED BY <1>15, <2>1
<1>22. ~(data # <<>> /\ data[1] = 41)
  <2>1. CASE n = 0
    <3>1. Len(data) = 0
      BY <1>9, <2>1
    <3> QED BY <3>1, EmptySeq
  <2>2. CASE n # 0
    <3>1. 1 \in 1..n /\ 1 - 1 = 0 /\ HoldsAt(data, 0, ss[1]) /\ Len(ss[1]) \in 1..10
      BY <1>5, <1>9, <1>11, <2>2
    <3>2. data[1] = ss[1][1]
      <4>1. PICK l \in 1..10 : l = Len(ss[1])
        BY <3>1
      <4>2. 1 \in 1..l /\ 0 + 1 = 1
        OBVIOUS
      <4> QED BY <3>1, <4>1, <4>2 DEF HoldsAt
    <3>3. ss[1][1] # 41
      <4>1. CASE ms[1].kind = "noise"
        <5>1. ss[1] = << 200 >>
          BY <1>2, <3>1, <4>1 DEF Message
        <5> QED BY <5>1
      <4>2. CASE ms[1].kind # "noise"
        <5>1. ms[1].kind # "other"
          BY <1>1, <3>1, PressesAssumption
        <5>2. tt[1] # <<>>
          <6>1. PICK x : tt[1] = <<x>>
            BY <1>a, <3>1, <4>2, <5>1 DEF EventsOf
          <6>2. Len(tt[1]) = 1
            BY <6>1
          <6>3. tt[1] = <<>> => Len(tt[1]) = 0
            OBVIOUS
          <6> QED BY <6>2, <6>3
        <5>3. Written(ss[1], tt[1], data, p[1 - 1])
          BY <1>4, <1>a, <3>1
        <5> QED BY <5>2, <5>3, WrittenIs
      <4> QED BY <4>1, <4>2
    <3> QED BY <3>2, <3>3
  <2> QED BY <2>1, <2>2
<1>23. parseSwitchEvents(Switches(ms).data) = EventsAs(ms, kinds)
  <2>1. parseSwitchEvents(Switches(ms).data) = FlattenSeq(tt)
    BY <1>7, <1>12, <1>20, <1>21, <1>22
  <2>2. tt = [i \in DOMAIN ms |->
               IF ms[i].kind \in {"other", "noise"} THEN <<>>
               ELSE <<[unit |-> ms[i].unit, button |-> ms[i].button, event |-> kinds[i]]>>]
    BY <1>1, <1>3, Zenon DEF EventsOf
  <2> QED BY <2>1, <2>2 DEF EventsAs
<1>24. kinds \in [DOMAIN ms -> Kinds]
  <2>1. \A i \in 1..n : KindOf(ms[i], data, p[i - 1]) \in Kinds
    BY <1>1, KindIs
  <2> QED BY <1>1, <1>3, <2>1
<1>25. Promised(ms, kinds)
  <2>1. ASSUME NEW i \in 1..n, ms[i].kind \in {"button", "full", "beyond"}
        PROVE  kinds[i] = ms[i].event
    BY <1>1, <1>3, <2>1, KindIs
  <2>2. ASSUME NEW i \in 1..n, ms[i].kind = "short", Behind(ms, i) < 3
        PROVE  kinds[i] = ms[i].event
    <3>1. Message(ms[i]) = Short(ms[i].unit, ms[i].button) /\ ms[i].event = "RELEASE"
      BY <1>1, <2>2, KindIs
    <3>2. Len(ss[i]) = 7
      BY <1>2, <3>1 DEF Short
    <3>3. i - 1 \in 0..n /\ i \in 0..n
      OBVIOUS
    <3>4. PICK at \in Nat, q \in Nat : at = p[i - 1] /\ q = p[i] /\ q = at + 7
      BY <1>9, <3>2, <3>3
    <3>5. Behind(ms, i) = p[n] - p[i]
      <4>1. \A k \in 1..n : ss[k] = Message(ms[k])
        BY <1>2
      <4> QED BY <1>1, <1>6, <1>9, <4>1, BehindIs
    <3>6. ~(at + 10 <= Len(data))
      <4>1. m - q < 3
        BY <1>10, <2>2, <3>4, <3>5
      <4> QED BY <1>10, <3>4, <4>1
    <3>7. kinds[i] = ShortKind(data, at)
      BY <1>3, <2>2, <3>4 DEF KindOf
    <3> QED BY <3>1, <3>6, <3>7 DEF ShortKind
  <2> QED BY <1>1, <2>1, <2>2 DEF Promised
<1> QED BY <1>23, <1>24, <1>25
\* Only the handling of a packet takes one out of the air.
LEMMA TakesAPacket ==
  ASSUME Typed, [Next]_vars, air # <<>>, air' = Tail(air)
  PROVE  \E raises \in BOOLEAN : Handle(raises)
<1>1. Len(air) \in Nat /\ Len(air) # 0 /\ Len(air') = Len(air) - 1
  <2>1. air \in Seq(Packets)
    BY DEF Typed
  <2> QED BY <2>1, HeadTailProperties, LenProperties, EmptySeq
<1>2. ASSUME NEW n, air' = Append(air, n) PROVE FALSE
  <2>1. air \in Seq(Packets)
    BY DEF Typed
  <2>2. Len(Append(air, n)) = Len(air) + 1
    BY <2>1
  <2> QED BY <1>1, <1>2, <2>2
<1>3. ASSUME air' = air PROVE FALSE
  <2>1. PICK l \in Nat : l = Len(air) /\ Len(air') = l - 1
    BY <1>1
  <2>2. Len(air') = l
    BY <1>3, <2>1
  <2> QED BY SMTT(40), <2>1, <2>2
<1>4. \A ms : ~Press(ms)
  BY <1>2 DEF Press, Says
<1> QED BY <1>2, <1>3, <1>4, AirSteps DEF Reported

\* The events the library makes of a packet are those its switches have sent, in their
\* order and with their units, buttons and kinds: other messages and stray bytes between
\* them are skipped, and a state byte is found within the declared payload and beyond it.
\* Only the kind of a short message with three bytes or more behind it is left open.
THEOREM EventsAreExact == Spec => EventsExact
<1> DEFINE A == air # <<>> /\ Head(air).type = "switch" /\ air' = Tail(air) =>
                  LET ms == Head(air).said IN
                  \E kinds \in [DOMAIN ms -> Kinds] :
                    /\ events' = EventsAs(ms, kinds)
                    /\ \A i \in DOMAIN ms :
                         ms[i].kind \in {"button", "full", "beyond"} \/ (ms[i].kind = "short" /\ Behind(ms, i) < 3)
                           => kinds[i] = ms[i].event
<1>1. Typed /\ [Next]_vars => [A]_vars
  <2> SUFFICES ASSUME Typed, [Next]_vars, air # <<>>, Head(air).type = "switch", air' = Tail(air)
               PROVE  \E kinds \in [DOMAIN Head(air).said -> Kinds] :
                        events' = EventsAs(Head(air).said, kinds) /\ Promised(Head(air).said, kinds)
    BY DEF Promised
  <2>1. PICK raises \in BOOLEAN : Handle(raises)
    BY TakesAPacket
  <2>2. PICK n \in Packets : n = Head(air)
    BY HeadTailProperties DEF Typed
  <2>3. PICK ms \in Presses : n = Switches(ms)
    <3>1. \/ \E us \in SUBSET Units, fs \in Fixtures : n = Report(us, fs)
          \/ \E ms \in Presses : n = Switches(ms)
      BY <2>2 DEF Packets
    <3>2. ASSUME NEW us, NEW fs, n = Report(us, fs) PROVE FALSE
      <4>1. n.type = "states"
        BY <3>2, EntriesTyped
      <4> QED BY <2>2, <4>1
    <3> QED BY <3>1, <3>2
  <2>4. events' = parseSwitchEvents(n.data) /\ n.said = ms
    BY <2>1, <2>2, <2>3 DEF Handle, Switches
  <2> QED BY <2>2, <2>3, <2>4, SwitchesParsed
<1> QED BY <1>1, TypedAlways, PTL DEF Spec, EventsExact

-----------------------------------------------------------------------------
(* Motors: what a shade or a screen is told and what it does.              *)

\* Python's round errs by half at most.
LEMMA RoundIs ==
  ASSUME NEW a \in Int, NEW b \in Nat \ {0}
  PROVE  /\ RoundDiv(a, b) \in Int
         /\ 2 * a - b <= 2 * (b * RoundDiv(a, b))
         /\ 2 * (b * RoundDiv(a, b)) <= 2 * a + b
<1>1. PICK q \in Int : q = a \div b /\ b * q <= a /\ a < b * q + b
  BY Floor
<1>2. PICK r \in Int : r = a % b /\ a = b * q + r
  BY <1>1
<1>3. RoundDiv(a, b) = IF 2 * r > b \/ (2 * r = b /\ q % 2 = 1) THEN q + 1 ELSE q
  BY <1>1, <1>2 DEF RoundDiv
<1>4. b * (q + 1) = b * q + b /\ b * q \in Int
  BY <1>1
<1> QED BY <1>1, <1>2, <1>3, <1>4

\* A shade is told a percentage, drives to that value of its range or one below it, and
\* shows that percentage or one below it; the ends are shown as they are.
LEMMA PercentIs ==
  ASSUME NEW lo \in Nat, NEW hi \in Nat, hi - lo >= 100, NEW p \in 0..100
  PROVE  /\ percent_to_native(p, lo, hi) \in lo..hi
         /\ p = 0 => percent_to_native(p, lo, hi) = lo
         /\ p = 100 => percent_to_native(p, lo, hi) = hi
         /\ \A x \in lo..hi :
              x \in {percent_to_native(p, lo, hi) - 1, percent_to_native(p, lo, hi)} =>
                 /\ native_to_percent(x, lo, hi) \in (p - 1)..p
                 /\ p \in {0, 100} /\ (x = percent_to_native(p, lo, hi) \/ hi - lo > 200)
                      => native_to_percent(x, lo, hi) = p
<1>1. PICK w \in Nat : w = hi - lo /\ w >= 100 /\ hi = lo + w
  OBVIOUS
<1>2. PICK t \in Int : t = p * w /\ t = w * p
  BY <1>1
<1>3. 0 <= t /\ t <= 100 * w
  <2>1. w * 0 <= w * p /\ w * p <= w * 100
    BY <1>1, Product
  <2> QED BY <1>1, <1>2, <2>1
<1>4. p = 0 => t = 0
  BY <1>2
<1>5. p = 100 => t = 100 * w
  BY <1>2
<1>6. PICK m \in Int : /\ m = RoundDiv(t + 100 * lo, 100)
                       /\ 2 * (t + 100 * lo) - 100 <= 2 * (100 * m)
                       /\ 2 * (100 * m) <= 2 * (t + 100 * lo) + 100
  <2>1. t + 100 * lo \in Int
    BY <1>2
  <2>2. PICK a \in Int : a = t + 100 * lo
    BY <2>1
  <2>3. /\ RoundDiv(a, 100) \in Int
        /\ 2 * a - 100 <= 2 * (100 * RoundDiv(a, 100))
        /\ 2 * (100 * RoundDiv(a, 100)) <= 2 * a + 100
    BY RoundIs
  <2> QED BY <2>2, <2>3
<1>7. PICK k \in Int : m = lo + k /\ t - 50 <= 100 * k /\ 100 * k <= t + 50
  <2>1. m = lo + (m - lo) /\ t - 50 <= 100 * (m - lo) /\ 100 * (m - lo) <= t + 50
    BY <1>2, <1>6
  <2> QED BY <2>1
<1>8. k \in 0..w /\ m \in lo..hi
  BY <1>1, <1>3, <1>7
<1>9. percent_to_native(p, lo, hi) = m
  <2>1. p * (hi - lo) + 100 * lo = t + 100 * lo
    BY <1>1, <1>2
  <2>2. Clamp(m, lo, hi) = m
    BY <1>8, ClampIs
  <2> QED BY <1>6, <2>1, <2>2 DEF percent_to_native
<1>10. ASSUME NEW y \in Nat, y \in {k - 1, k}, y <= w
       PROVE  /\ native_to_percent(lo + y, lo, hi) \in (p - 1)..p
              /\ p \in {0, 100} /\ (y = k \/ w > 200) => native_to_percent(lo + y, lo, hi) = p
  <2>1. PICK q \in Int : /\ q = RoundDiv(y * 100, w)
                         /\ 200 * y - w <= 2 * (w * q) /\ 2 * (w * q) <= 200 * y + w
    <3>1. y * 100 \in Int /\ w \in Nat \ {0} /\ 2 * (y * 100) = 200 * y
      BY <1>1
    <3>2. /\ RoundDiv(y * 100, w) \in Int
          /\ 2 * (y * 100) - w <= 2 * (w * RoundDiv(y * 100, w))
          /\ 2 * (w * RoundDiv(y * 100, w)) <= 2 * (y * 100) + w
      BY <3>1, RoundIs
    <3> QED BY <3>1, <3>2
  <2>2. q <= p
    <3> SUFFICES ASSUME q >= p + 1 PROVE FALSE
      BY <2>1
    <3>1. w * (p + 1) <= w * q /\ w * q \in Int
      BY <1>1, <2>1, Product
    <3>2. w * (p + 1) = t + w
      BY <1>1, <1>2
    <3>3. 2 * t + 2 * w <= 2 * t + 100 + w
      BY <1>1, <1>2, <1>7, <1>10, <2>1, <3>1, <3>2
    <3>4. w = 100
      BY <1>1, <1>2, <3>3
    <3>5. y = q /\ k = p
      BY <1>2, <1>7, <2>1, <3>4
    <3> QED BY <1>10, <3>5
  <2>3. q >= p - 1
    <3> SUFFICES ASSUME q <= p - 2 PROVE FALSE
      BY <2>1
    <3>1. w * q <= w * (p - 2) /\ w * q \in Int
      BY <1>1, <2>1, Product
    <3>2. w * (p - 2) = t - 2 * w
      BY <1>1, <1>2
    <3>3. 2 * t - 300 - w <= 2 * t - 4 * w
      BY <1>1, <1>2, <1>7, <1>10, <2>1, <3>1, <3>2
    <3>4. w = 100
      BY <1>1, <1>2, <3>3
    <3>5. y = q /\ k = p
      BY <1>2, <1>7, <2>1, <3>4
    <3> QED BY <1>10, <3>5
  <2>4. q \in 0..100
    <3> SUFFICES ASSUME q <= -1 PROVE FALSE
      BY <2>1, <2>2
    <3>1. w * q <= w * (-1) /\ w * q \in Int
      BY <1>1, <2>1, Product
    <3> QED BY <1>1, <1>10, <2>1, <3>1
  <2>5. native_to_percent(lo + y, lo, hi) = q
    <3>1. ((lo + y) - lo) * 100 = y * 100 /\ lo # hi
      BY <1>1
    <3>2. Clamp(q, 0, 100) = q
      <4>1. \A a, b, v \in Int : a <= b /\ v \in a..b => Clamp(v, a, b) = v
        BY ClampIs
      <4>2. 0 \in Int /\ 100 \in Int /\ 0 <= 100 /\ q \in Int
        OBVIOUS
      <4> QED BY <2>4, <4>1, <4>2, Zenon
    <3> QED BY <1>1, <2>1, <3>1, <3>2 DEF native_to_percent
  <2>6. ASSUME p = 0 PROVE q = p
    BY <2>2, <2>4, <2>6
  <2>7. ASSUME p = 100, y = k \/ w > 200 PROVE q = p
    <3> SUFFICES ASSUME q <= 99 PROVE FALSE
      BY <2>4, <2>7
    <3>1. w * q <= w * 99 /\ w * q \in Int
      BY <1>1, <2>1, Product
    <3>2. k = w
      BY <1>5, <1>7, <1>8, <2>7
    <3> QED BY <1>1, <1>10, <2>1, <2>7, <3>1, <3>2
  <2> QED BY <2>2, <2>3, <2>5, <2>6, <2>7
<1>11. ASSUME NEW x \in lo..hi, x \in {m - 1, m}
       PROVE  /\ native_to_percent(x, lo, hi) \in (p - 1)..p
              /\ p \in {0, 100} /\ (x = m \/ w > 200) => native_to_percent(x, lo, hi) = p
  <2>1. PICK y \in Nat : y = x - lo /\ x = lo + y /\ y <= w
    BY <1>1
  <2>2. y \in {k - 1, k} /\ (x = m <=> y = k)
    BY <1>7, <1>11, <2>1
  <2> QED BY <1>10, <2>1, <2>2
<1>12. (p = 0 => m = lo) /\ (p = 100 => m = hi)
  BY <1>1, <1>4, <1>5, <1>7
<1> QED BY <1>1, <1>8, <1>9, <1>11, <1>12

-----------------------------------------------------------------------------
Motor(u) == Role(Type[u]) \in {"SHADE", "SCREEN"}

\* A control that is only read, and is none a state command would write.
Sensor(c) == /\ c.type \notin Driven /\ c.readonly /\ c.type \notin Colors
             /\ c.type = "SENSOR" => c.length = 0
             /\ c.type = "LUX" => c.length > 0

Slides(c) ==
  /\ c.type = "SLIDER" /\ c.min \in 0..255 /\ c.max \in 0..255
  /\ c.max - c.min >= 100 /\ c.max - c.min <= Mask(c)

LEMMA MotorControl ==
  ASSUME NEW u \in Units, Motor(u), NEW c, Of(u, c)
  PROVE  \/ Slides(c) /\ ~c.readonly
         \/ c.type = "DIMMER" /\ c.length \in 7..8 /\ ~c.readonly
         \/ c.type = "VERTICAL" /\ c.length <= 8 /\ ~c.readonly
         \/ c.type = "ONOFF" /\ c.length = 1 /\ ~c.readonly
         \/ Sensor(c)
<1>1. IF c.type \in Driven THEN ~c.readonly /\ Drives(c)
      ELSE /\ c.readonly /\ c.type \notin Colors
           /\ c.type = "SENSOR" => c.length = 0
           /\ c.type = "LUX" => c.length > 0
  BY MotorsAssumption DEF Motor, Of
<1>2. CASE c.type \notin Driven
  BY <1>1, <1>2 DEF Sensor
<1>3. CASE c.type = "SLIDER"
  <2>1. ~c.readonly /\ Drives(c)
    BY <1>1, <1>3 DEF Driven
  <2>2. /\ {c.min, c.max} \subseteq 0..255
        /\ c.max - c.min \in 100..Mask(c)
    BY <1>3, <2>1 DEF Drives
  <2> QED BY <1>3, <2>1, <2>2 DEF Slides
<1>4. CASE c.type = "DIMMER"
  BY <1>1, <1>4 DEF Driven, Drives
<1>5. CASE c.type = "VERTICAL"
  BY <1>1, <1>5 DEF Driven, Drives
<1>6. CASE c.type = "ONOFF"
  BY <1>1, <1>6 DEF Driven, Drives
<1> QED BY <1>2, <1>3, <1>4, <1>5, <1>6 DEF Driven

\* A motor has one control of each kind it is driven with.
LEMMA MotorSingle ==
  ASSUME NEW u \in Units, Motor(u), NEW i \in DOMAIN Type[u].controls,
         Type[u].controls[i].type \in Driven,
         NEW j \in DOMAIN Type[u].controls, i # j
  PROVE  Type[u].controls[j].type # Type[u].controls[i].type
BY MotorsAssumption DEF Motor

\* The codes and readings of its controls.
LEMMA SliderIs ==
  ASSUME NEW u \in Units, NEW c, Of(u, c), Slides(c)
  PROVE  \E lo, hi, mask \in Nat :
           /\ lo = c.min /\ hi = c.max /\ mask = Mask(c) /\ mask = Pow[c.length] - 1
           /\ lo < hi /\ hi <= 255 /\ hi - lo >= 100 /\ hi - lo <= mask /\ mask # 0
<1>1. c.length \in 0..31
  BY OfIs
<1>2. PICK mask \in Nat : mask = Mask(c) /\ mask = Pow[c.length] - 1
  BY <1>1, MaskIs
<1>3. PICK lo, hi \in 0..255 : lo = c.min /\ hi = c.max
  BY DEF Slides
<1>4. hi - lo >= 100 /\ hi - lo <= mask
  BY <1>2, <1>3 DEF Slides
<1>5. lo \in Nat /\ hi \in Nat /\ lo < hi /\ hi <= 255 /\ mask # 0
  BY <1>4
<1> QED BY <1>2, <1>3, <1>4, <1>5

LEMMA CodeOf ==
  ASSUME NEW c, c.length \in 0..31, NEW st
  PROVE  /\ ~Writes(c, st) => Code(c, st) = c.default
         /\ Writes(c, st) /\ c.type = "SLIDER" =>
              Code(c, st) = Scaled(Clamp(st["slider"], c.min, c.max), c.min, c.max, Mask(c))
         /\ Writes(c, st) /\ c.type = "DIMMER" => Code(c, st) = st["dimmer"] \div 2 ^ (8 - c.length)
         /\ Writes(c, st) /\ c.type = "VERTICAL" =>
              Code(c, st) = st["vertical"] \div 2 ^ (8 - c.length)
         /\ Writes(c, st) /\ c.type = "ONOFF" => Code(c, st) = IF st["onoff"] THEN 1 ELSE 0
<1>1. /\ Field["SLIDER"] = "slider" /\ Field["DIMMER"] = "dimmer"
      /\ Field["VERTICAL"] = "vertical" /\ Field["ONOFF"] = "onoff"
  BY DEF Field
<1>2. ASSUME Writes(c, st), c.type = "SLIDER"
      PROVE  Code(c, st) = Scaled(Clamp(st["slider"], c.min, c.max), c.min, c.max, Mask(c))
  BY <1>1, <1>2 DEF Code, Levels, Scales
<1>3. ASSUME Writes(c, st), c.type = "DIMMER"
      PROVE  Code(c, st) = st["dimmer"] \div 2 ^ (8 - c.length)
  <2>1. Code(c, st) = st[Field[c.type]] \div 2 ^ (8 - c.length)
    BY <1>3 DEF Code, Levels, Scales
  <2> QED BY <1>1, <1>3, <2>1
<1>4. ASSUME Writes(c, st), c.type = "VERTICAL"
      PROVE  Code(c, st) = st["vertical"] \div 2 ^ (8 - c.length)
  <2>1. Code(c, st) = st[Field[c.type]] \div 2 ^ (8 - c.length)
    BY <1>4 DEF Code, Levels, Scales
  <2> QED BY <1>1, <1>4, <2>1
<1>5. ASSUME Writes(c, st), c.type = "ONOFF"
      PROVE  Code(c, st) = IF st["onoff"] THEN 1 ELSE 0
  BY <1>1, <1>5 DEF Code, Levels, Scales
<1>6. ~Writes(c, st) => Code(c, st) = c.default
  BY DEF Code
<1> QED BY <1>2, <1>3, <1>4, <1>5, <1>6

LEMMA ReadingOf ==
  ASSUME NEW c, c.length \in 0..31, NEW n \in Nat
  PROVE  /\ c.type = "SLIDER" => Reading(c, n) = Unscaled(n, c.min, c.max, Mask(c))
         /\ c.type \in {"DIMMER", "VERTICAL"} => Reading(c, n) = n * 2 ^ (8 - c.length)
         /\ c.type = "ONOFF" => Reading(c, n) = (n # 0)
<1>1. ASSUME c.type = "SLIDER" PROVE Reading(c, n) = Unscaled(n, c.min, c.max, Mask(c))
  BY <1>1 DEF Reading, Levels, Scales
<1>2. ASSUME c.type = "DIMMER" PROVE Reading(c, n) = n * 2 ^ (8 - c.length)
  BY <1>2 DEF Reading, Levels, Scales
<1>3. ASSUME c.type = "VERTICAL" PROVE Reading(c, n) = n * 2 ^ (8 - c.length)
  BY <1>3 DEF Reading, Levels, Scales
<1>4. ASSUME c.type = "ONOFF" PROVE Reading(c, n) = (n # 0)
  BY <1>4 DEF Reading, Levels, Scales
<1> QED BY <1>1, <1>2, <1>3, <1>4

LEMMA PowerIs ==
  ASSUME NEW n \in 0..32
  PROVE  2 ^ n = Pow[n]
BY DEF Pow

\* No report of a motor is refused.
LEMMA MotorRead ==
  ASSUME NEW u \in Units, Motor(u), NEW c, Of(u, c), NEW bits
  PROVE  ~Refused(c, bits)
<1>1. PICK n \in Nat : n = Extract(c, bits) /\ n < Pow[c.length]
  BY OfIs, ExtractBound
<1>2. c.length \in 0..31
  BY OfIs
<1>3. CASE Slides(c)
  <2>1. PICK lo, hi, mask \in Nat :
          /\ lo = c.min /\ hi = c.max /\ mask = Mask(c) /\ mask = Pow[c.length] - 1
          /\ lo < hi /\ hi <= 255 /\ mask # 0
    BY <1>3, SliderIs
  <2>2. n \in 0..mask
    <3>1. PICK q \in Nat : q = Pow[c.length]
      BY <1>2, PowTyped
    <3> QED BY <1>1, <2>1, <3>1
  <2>3. Unscaled(n, lo, hi, mask) \in lo..hi
    <3>1. lo \in Int /\ hi \in Int /\ lo < hi /\ mask \in Nat \ {0}
      BY <2>1
    <3> QED BY <2>2, <3>1, UnscaledInRange
  <2>4. c.type = "SLIDER" /\ Field["SLIDER"] = "slider"
    BY <1>3 DEF Slides, Field
  <2>5. Reading(c, n) \in 0..255
    <3>1. Reading(c, n) = Unscaled(n, c.min, c.max, Mask(c))
      BY <1>2, <2>4, ReadingOf
    <3>2. Reading(c, n) = Unscaled(n, lo, hi, mask)
      BY <2>1, <3>1
    <3>3. lo..hi \subseteq 0..255
      BY <2>1
    <3> QED BY <2>3, <3>2, <3>3
  <2>6. InRange("slider", Reading(c, n))
    BY <2>5 DEF InRange
  <2>7. ~Unreadable(c)
    <3>1. c.length # 0
      <4>1. Pow[0] = 1
        BY PowTyped
      <4> QED BY <2>1, <4>1
    <3> QED BY <2>4, <3>1 DEF Unreadable, Levels, Scales
  <2> QED BY <1>1, <2>4, <2>6, <2>7 DEF Refused
<1>4. CASE c.type \in {"DIMMER", "VERTICAL"} /\ c.length <= 8
  <2>1. c.length \in 0..8 /\ 8 - c.length \in 0..32
    BY <1>2, <1>4
  <2>2. n * Pow[8 - c.length] \in 0..255
    BY <1>1, <2>1, LevelCodes
  <2>3. Reading(c, n) \in 0..255
    <3>1. 2 ^ (8 - c.length) = Pow[8 - c.length]
      BY <2>1, PowerIs
    <3>2. Reading(c, n) = n * 2 ^ (8 - c.length)
      BY <1>2, <1>4, ReadingOf
    <3> QED BY <2>2, <3>1, <3>2
  <2>4. Field["DIMMER"] = "dimmer" /\ Field["VERTICAL"] = "vertical"
    BY DEF Field
  <2>5. InRange(Field[c.type], Reading(c, n))
    BY <1>4, <2>3, <2>4 DEF InRange
  <2>6. ~Unreadable(c)
    <3>1. ~(c.length > 8) /\ c.type \in Levels
      BY <1>4, <2>1 DEF Levels
    <3>2. c.type \notin Scales /\ c.type \notin {"RGB", "XY"}
      BY <1>4 DEF Scales
    <3> QED BY <3>1, <3>2, Zenon DEF Unreadable
  <2> QED BY <1>1, <2>5, <2>6 DEF Refused
<1>5. CASE c.type = "ONOFF"
  <2>1. Field["ONOFF"] = "onoff"
    BY DEF Field
  <2>2. InRange(Field[c.type], Reading(c, n))
    BY <1>5, <2>1 DEF InRange
  <2>3. ~Unreadable(c)
    BY <1>5 DEF Unreadable, Levels, Scales
  <2> QED BY <1>1, <2>2, <2>3 DEF Refused
<1>6. CASE Sensor(c)
  <2> SUFFICES ASSUME Reads(c), ~(c.type = "SENSOR" /\ c.length = 0)
               PROVE  ~Unreadable(c) /\ InRange(Field[c.type], Reading(c, n))
    BY <1>1 DEF Refused
  <2>1. c.type \in DOMAIN Field /\ c.type \notin Driven /\ c.type \notin Colors
    BY <1>6 DEF Reads, Sensor
  <2>2. c.type \in {"SENSOR", "PRESENCE", "LUX", "SENSORGROUP"}
    BY <2>1, FieldIs DEF Driven, Colors
  <2>3. Field[c.type] \in {"sensor", "presence", "lux", "sensorgroup"}
    BY <2>2 DEF Field
  <2>4. InRange(Field[c.type], Reading(c, n))
    BY <2>3 DEF InRange
  <2>5. c.type \in {"PRESENCE", "SENSORGROUP"} \/ (c.type = "LUX" /\ c.length # 0)
    BY <1>2, <1>6, <2>2 DEF Sensor
  <2>6. ~Unreadable(c)
    BY <2>5 DEF Unreadable, Levels, Scales
  <2> QED BY <2>4, <2>6
<1> QED BY <1>3, <1>4, <1>5, <1>6, MotorControl

\* A state a command may send: what is known of the driven controls is in range.
Drivable(st) == \A f \in {"slider", "dimmer", "vertical"} : st[f] = None \/ st[f] \in 0..255

\* Its codes fit, whatever it says.
LEMMA MotorCode ==
  ASSUME NEW u \in Units, Motor(u), NEW c, Of(u, c), NEW st, Drivable(st)
  PROVE  Code(c, st) \in Nat /\ Code(c, st) < Pow[c.length]
<1>1. c.length \in 0..31 /\ c.default \in Nat /\ c.default < Pow[c.length]
  BY OfIs
<1>2. CASE ~Writes(c, st)
  BY <1>1, <1>2, CodeOf
<1>3. CASE Writes(c, st) /\ Slides(c)
  <2>1. PICK lo, hi, mask \in Nat :
          /\ lo = c.min /\ hi = c.max /\ mask = Mask(c) /\ mask = Pow[c.length] - 1
          /\ lo < hi /\ hi <= 255 /\ mask # 0
    BY <1>3, SliderIs
  <2>2. c.type = "SLIDER" /\ Field["SLIDER"] = "slider"
    BY <1>3 DEF Slides, Field
  <2>3. PICK v \in 0..255 : v = st["slider"]
    BY <1>3, <2>2 DEF Writes, Drivable
  <2>4. PICK x \in lo..hi : x = Clamp(v, lo, hi)
    <3>1. lo \in Int /\ hi \in Int /\ v \in Int /\ lo <= hi
      BY <2>1
    <3>2. Clamp(v, lo, hi) \in lo..hi
      BY <3>1, ClampIs
    <3> QED BY <3>2
  <2>5. Scaled(x, lo, hi, mask) \in 0..mask
    <3>1. lo \in Int /\ hi \in Int /\ lo < hi /\ mask \in Nat
      BY <2>1
    <3> QED BY <3>1, ScaledFits
  <2>6. Code(c, st) = Scaled(x, lo, hi, mask)
    BY <1>1, <1>3, <2>1, <2>2, <2>3, <2>4, CodeOf
  <2>7. PICK q \in Nat : q = Pow[c.length]
    BY <1>1, PowTyped
  <2> QED BY <2>1, <2>5, <2>6, <2>7
<1>4. CASE Writes(c, st) /\ c.type \in {"DIMMER", "VERTICAL"} /\ c.length <= 8
  <2>1. c.length \in 0..8 /\ 8 - c.length \in 0..32
    BY <1>1, <1>4
  <2>2. Field["DIMMER"] = "dimmer" /\ Field["VERTICAL"] = "vertical"
    BY DEF Field
  <2>3. PICK v \in 0..255 : v = st[Field[c.type]]
    BY <1>4, <2>2 DEF Writes, Drivable
  <2>4. v \div Pow[8 - c.length] \in Nat /\ v \div Pow[8 - c.length] < Pow[c.length]
    BY <2>1, LevelCodes
  <2>5. Code(c, st) = v \div 2 ^ (8 - c.length)
    BY <1>1, <1>4, <2>2, <2>3, CodeOf
  <2> QED BY <2>1, <2>4, <2>5, PowerIs
<1>5. CASE Writes(c, st) /\ c.type = "ONOFF" /\ c.length = 1
  <2>1. Code(c, st) \in {0, 1}
    BY <1>1, <1>5, CodeOf
  <2>2. Pow[1] = 2
    <3>1. 0 \in 0..31 /\ 0 + 1 = 1
      OBVIOUS
    <3>2. Pow[0 + 1] = 2 * Pow[0]
      BY <3>1, Doubles
    <3> QED BY <3>1, <3>2, PowTyped
  <2> QED BY <1>5, <2>1, <2>2
<1>6. CASE Sensor(c)
  <2>1. ~Writes(c, st)
    <3>1. c.type \notin Colors /\ c.type \notin Driven /\ (c.type = "SENSOR" => c.length = 0)
      BY <1>6 DEF Sensor
    <3> QED BY <3>1 DEF Writes, Levels, Colors, Driven
  <2> QED BY <1>2, <2>1
<1> QED BY <1>2, <1>3, <1>4, <1>5, <1>6, MotorControl

-----------------------------------------------------------------------------
(* A whole state is sent to a motor.                                       *)

\* What a fixture makes of its state when a whole one is sent to it.
Sent(u, old, st) == (old \ Writable(u)) \cup (Encode(Type[u], st) \cap Writable(u))

LEMMA SentIs ==
  ASSUME NEW u \in Units, Motor(u), NEW st, Drivable(st), NEW old, NEW c, Of(u, c)
  PROVE  /\ ~c.readonly => Extract(c, Sent(u, old, st)) = Code(c, st)
         /\ c.readonly => Extract(c, Sent(u, old, st)) = Extract(c, old)
<1>1. \A d \in Range(Type[u].controls) : Of(u, d)
  BY DEF Range, Of
<1>2. c \in Range(Type[u].controls)
  BY OfIs
<1>3. ~c.readonly => Place(c) \subseteq Writable(u)
  BY <1>2 DEF Writable
<1>4. c.readonly => Place(c) \cap Writable(u) = {}
  <2> SUFFICES ASSUME c.readonly,
                      NEW d \in {x \in Range(Type[u].controls) : ~x.readonly}
               PROVE  Place(c) \cap Place(d) = {}
    BY DEF Writable
  <2>1. Of(u, d) /\ c # d
    BY <1>1
  <2> QED BY <2>1, Apart
<1>5. Extract(c, Encode(Type[u], st)) = Code(c, st)
  <2>1. \A d \in Range(Type[u].controls) :
          /\ d.offset \in Nat /\ d.length \in 0..31
          /\ Code(d, st) \in Nat /\ Code(d, st) < Pow[d.length]
    BY <1>1, OfIs, MotorCode
  <2>2. \A d, e \in Range(Type[u].controls) : d # e => Place(d) \cap Place(e) = {}
    BY <1>1, Apart
  <2> QED BY <1>2, <2>1, <2>2, EncodedReadsBack
<1>6. ASSUME ~c.readonly PROVE Sent(u, old, st) \cap Place(c) = Encode(Type[u], st) \cap Place(c)
  BY <1>3, <1>6 DEF Sent
<1>7. ASSUME c.readonly PROVE Sent(u, old, st) \cap Place(c) = old \cap Place(c)
  BY <1>4, <1>7 DEF Sent
<1>8. ASSUME ~c.readonly PROVE Extract(c, Sent(u, old, st)) = Extract(c, Encode(Type[u], st))
  BY <1>6, <1>8 DEF Extract
<1>9. ASSUME c.readonly PROVE Extract(c, Sent(u, old, st)) = Extract(c, old)
  BY <1>7, <1>9 DEF Extract
<1> QED BY <1>5, <1>8, <1>9

\* A report of a motor is decoded completely, and tells each driven control.
LEMMA MotorDecoded ==
  ASSUME NEW u \in Units, Motor(u), NEW st, DOMAIN st = DOMAIN NoState, NEW bits
  PROVE  /\ Decode(Type[u], st, bits).ok
         /\ \A k \in DOMAIN Type[u].controls :
              Type[u].controls[k].type \in Driven =>
                Decode(Type[u], st, bits).state[Field[Type[u].controls[k].type]]
                  = Reading(Type[u].controls[k], Extract(Type[u].controls[k], bits))
<1>1. PICK l \in Nat : DOMAIN Type[u].controls = 1..l /\ Len(Type[u].controls) = l
  BY TypeIs
<1>2. \A i \in 1..l : ~Refused(Type[u].controls[i], bits)
  BY <1>1, MotorRead DEF Of
<1>3. Decode(Type[u], st, bits).ok
  <2>1. PICK n \in 0..l : \E f : Decodes(f, n, Type[u], st, bits)
    BY <1>1, DecodeIs
  <2>2. Decode(Type[u], st, bits).ok =
          (\A i \in DOMAIN Type[u].controls : ~Refused(Type[u].controls[i], bits))
    BY <2>1 DEF Decodes
  <2> QED BY <1>1, <1>2, <2>2
<1>4. ASSUME NEW k \in 1..l, NEW c, c = Type[u].controls[k], c.type \in Driven
      PROVE  Decode(Type[u], st, bits).state[Field[c.type]] = Reading(c, Extract(c, bits))
  <2>1. \A j \in 1..l : j # k => Type[u].controls[j].type # c.type
    BY <1>1, <1>4, MotorSingle
  <2>2. Reads(c) /\ c.type # "SENSOR"
    <3>1. c.type \in DOMAIN Field /\ c.type \in {"SLIDER", "DIMMER", "VERTICAL", "ONOFF"}
      BY <1>4, FieldIs DEF Driven
    <3>2. c.type = "SLIDER" => Ranged(c) /\ c.max # c.min
      <4> SUFFICES ASSUME c.type = "SLIDER" PROVE Ranged(c) /\ c.max # c.min
        OBVIOUS
      <4>1. Of(u, c)
        BY <1>1, <1>4 DEF Of
      <4>2. Slides(c)
        BY <4>1, MotorControl DEF Sensor, Driven
      <4>3. PICK lo, hi \in 0..255 : lo = c.min /\ hi = c.max /\ hi - lo >= 100
        BY <4>2 DEF Slides
      <4> QED BY <4>3, NoneAssumption DEF Ranged
    <3> QED BY <3>1, <3>2 DEF Reads
  <2>3. PICK ty : ty = Type[u]
    OBVIOUS
  <2>4. DOMAIN ty.controls = 1..l /\ Len(ty.controls) = l /\ c = ty.controls[k]
    BY <1>1, <1>4, <2>3
  <2>5. Decode(ty, st, bits).ok /\ \A j \in 1..l : j # k => ty.controls[j].type # c.type
    BY <1>3, <2>1, <2>3
  <2>6. Decode(ty, st, bits).state[Field[c.type]] = Reading(c, Extract(c, bits))
    <3>1. ~(c.type = "SENSOR" /\ c.length = 0)
      BY <2>2
    <3>2. DOMAIN st = DOMAIN NoState /\ l \in Nat /\ k \in 1..l
      OBVIOUS
    <3> QED BY <2>2, <2>4, <2>5, <3>1, <3>2, DecodedField, SMTT(60)
  <2> QED BY <2>3, <2>6
<1> QED BY <1>1, <1>3, <1>4

LEMMA Present ==
  ASSUME NEW u \in Units, NEW t \in ControlTypes(Type[u])
  PROVE  \E k \in DOMAIN Type[u].controls :
           Control(Type[u], t) = Type[u].controls[k] /\ Type[u].controls[k].type = t
<1> DEFINE those == {i \in DOMAIN Type[u].controls : Type[u].controls[i].type = t}
<1>1. those # {}
  BY DEF ControlTypes, Range
<1>2. those \in SUBSET Nat
  BY TypeIs
<1>3. Control(Type[u], t) = Type[u].controls[Min(those)]
  BY <1>1 DEF Control
<1>4. Min(those) \in those
  <2> HIDE DEF those
  <2> QED BY <1>1, <1>2, MinIs
<1> QED BY <1>3, <1>4

\* The control a cover moves.
LEMMA PositionControlIs ==
  ASSUME NEW u \in Units, PositionControl(Type[u]) # None
  PROVE  /\ Motor(u)
         /\ \E k \in DOMAIN Type[u].controls :
              \/ /\ Slides(Type[u].controls[k])
                 /\ PositionControl(Type[u]) = [field |-> "slider", lo |-> Type[u].controls[k].min,
                                                hi |-> Type[u].controls[k].max]
              \/ /\ Type[u].controls[k].type = "DIMMER"
                 /\ PositionControl(Type[u]) = [field |-> "dimmer", lo |-> 0, hi |-> 255]
<1>1. Role(Type[u]) = "SHADE" => {"SLIDER", "ONOFF"} \subseteq ControlTypes(Type[u])
  BY DEF Role
<1>2. Role(Type[u]) = "SCREEN" => {"DIMMER", "ONOFF"} \subseteq ControlTypes(Type[u])
  BY DEF Role
<1>3. CASE Role(Type[u]) = "SHADE"
  <2>1. PICK k \in DOMAIN Type[u].controls :
          Control(Type[u], "SLIDER") = Type[u].controls[k] /\ Type[u].controls[k].type = "SLIDER"
    BY <1>1, <1>3, Present
  <2>2. Slides(Type[u].controls[k])
    BY <1>3, <2>1, MotorControl DEF Motor, Of, Sensor, Driven
  <2>3. PositionControl(Type[u]) =
          [field |-> "slider", lo |-> Type[u].controls[k].min, hi |-> Type[u].controls[k].max]
    BY <1>3, <2>1 DEF PositionControl
  <2> QED BY <1>3, <2>2, <2>3 DEF Motor
<1>4. CASE Role(Type[u]) = "SCREEN"
  <2>1. PICK k \in DOMAIN Type[u].controls :
          Control(Type[u], "DIMMER") = Type[u].controls[k] /\ Type[u].controls[k].type = "DIMMER"
    BY <1>2, <1>4, Present
  <2>2. PositionControl(Type[u]) = [field |-> "dimmer", lo |-> 0, hi |-> 255]
    BY <1>4 DEF PositionControl
  <2> QED BY <1>4, <2>1, <2>2 DEF Motor
<1>5. CASE Role(Type[u]) \notin {"SHADE", "SCREEN"}
  BY <1>5 DEF PositionControl
<1> QED BY <1>3, <1>4, <1>5

\* A value of the range of a slider, and what is read of its code.
LEMMA SliderBack ==
  ASSUME NEW u \in Units, NEW c, Of(u, c), Slides(c), NEW st, NEW m \in Nat,
         st["slider"] = m, m >= c.min, m <= c.max
  PROVE  \E x \in Int : /\ Reading(c, Code(c, st)) = x /\ x \in {m - 1, m}
                        /\ x >= c.min /\ x <= c.max
                        /\ m \in {c.min, c.max} => x = m
<1>1. PICK lo, hi, mask \in Nat :
        /\ lo = c.min /\ hi = c.max /\ mask = Mask(c) /\ mask = Pow[c.length] - 1
        /\ lo < hi /\ hi <= 255 /\ hi - lo <= mask /\ mask # 0
  BY SliderIs
<1>2. c.length \in 0..31 /\ c.type = "SLIDER" /\ Field["SLIDER"] = "slider"
  BY OfIs DEF Slides, Field
<1>3. m \in lo..hi /\ lo \in Int /\ hi \in Int /\ lo < hi /\ mask \in Nat \ {0}
  BY <1>1
<1>4. Writes(c, st)
  <2>1. st[Field[c.type]] # None /\ c.min # None /\ c.max # None
    BY <1>1, <1>2, NoneAssumption
  <2> QED BY <1>2, <2>1 DEF Writes, Ranged
<1>5. PICK s \in 0..mask : s = Scaled(m, lo, hi, mask)
  <2>1. Scaled(m, lo, hi, mask) \in 0..mask
    BY <1>3, ScaledFits
  <2> QED BY <2>1
<1>6. Code(c, st) = s
  <2>1. Clamp(m, lo, hi) = m
    <3>1. lo <= hi /\ m \in Int
      BY <1>3
    <3> QED BY <1>3, <3>1, ClampIs
  <2>2. Code(c, st) = Scaled(Clamp(st["slider"], c.min, c.max), c.min, c.max, Mask(c))
    BY <1>2, <1>4, CodeOf
  <2> QED BY <1>1, <1>5, <2>1, <2>2
<1>7. Reading(c, s) = Unscaled(s, lo, hi, mask)
  <2>1. s \in Nat
    BY <1>5
  <2> QED BY <1>1, <1>2, <2>1, ReadingOf
<1>8. PICK x \in lo..hi : x = Unscaled(s, lo, hi, mask)
  <2>1. Unscaled(s, lo, hi, mask) \in lo..hi
    BY <1>3, UnscaledInRange
  <2> QED BY <2>1
<1>9. x \in {m - 1, m}
  BY <1>1, <1>3, <1>5, <1>8, WrittenAndRead
<1>10. m = lo => x = m
  BY <1>1, <1>5, <1>8, ScaledEnds, UnscaledEnds
<1>11. m = hi => x = m
  BY <1>1, <1>5, <1>8, ScaledEnds, UnscaledEnds
<1> QED BY <1>1, <1>6, <1>7, <1>8, <1>9, <1>10, <1>11

\* The same for a dimmer of seven or eight bits.
LEMMA DimmerBack ==
  ASSUME NEW u \in Units, NEW c, Of(u, c), c.type = "DIMMER", c.length \in 7..8,
         NEW st, NEW m \in 0..255, st["dimmer"] = m
  PROVE  \E x \in 0..255 : Reading(c, Code(c, st)) = x /\ x \in {m - 1, m}
<1>1. PICK p \in Nat \ {0} : p = 2 ^ (8 - c.length) /\ p = Pow[8 - c.length] /\ p \in {1, 2}
  <2>1. 8 - c.length \in {0, 1} /\ 8 - c.length \in 0..32
    OBVIOUS
  <2>2. Pow[0] = 1 /\ Pow[1] = 2
    <3>1. 0 \in 0..31 /\ 0 + 1 = 1
      OBVIOUS
    <3>2. Pow[0 + 1] = 2 * Pow[0]
      BY <3>1, Doubles
    <3> QED BY <3>1, <3>2, PowTyped
  <2>3. 2 ^ (8 - c.length) = Pow[8 - c.length]
    BY <2>1, PowerIs
  <2> QED BY <2>1, <2>2, <2>3
<1>2. c.length \in 0..31 /\ Field["DIMMER"] = "dimmer"
  BY OfIs DEF Field
<1>3. Writes(c, st)
  <2>1. st[Field[c.type]] # None
    BY <1>2, NoneAssumption
  <2> QED BY <2>1 DEF Writes, Levels
<1>4. PICK s \in Int : s = m \div p /\ p * s <= m /\ m < p * s + p
  <2>1. m \in Int
    OBVIOUS
  <2> QED BY <2>1, Floor
<1>5. s \in Nat /\ s * p \in {m - 1, m} /\ s * p \in 0..255
  <2>1. CASE p = 1
    BY <1>4, <2>1
  <2>2. CASE p = 2
    BY <1>4, <2>2
  <2> QED BY <1>1, <2>1, <2>2
<1>6. Code(c, st) = s
  BY <1>1, <1>2, <1>3, <1>4, CodeOf
<1>7. Reading(c, s) = s * p
  BY <1>1, <1>2, <1>5, ReadingOf
<1> QED BY <1>5, <1>6, <1>7

\* What a motor reports after it was told a percentage.
Reached(u, bits) ==
  LET pos == PositionControl(Type[u])
  IN  native_to_percent(Decode(Type[u], NoState, bits).state[pos.field], pos.lo, pos.hi)

LEMMA PositionIs ==
  ASSUME NEW u \in Units, PositionControl(Type[u]) # None, NEW p \in 0..100,
         NEW st, Drivable(st),
         st[PositionControl(Type[u]).field] =
           percent_to_native(p, PositionControl(Type[u]).lo, PositionControl(Type[u]).hi),
         NEW old
  PROVE  /\ Reached(u, Sent(u, old, st)) \in (p - 1)..p
         /\ p \in {0, 100} => Reached(u, Sent(u, old, st)) = p
<1>1. Motor(u)
  BY PositionControlIs
<1>2. PICK k \in DOMAIN Type[u].controls :
        \/ /\ Slides(Type[u].controls[k])
           /\ PositionControl(Type[u]) = [field |-> "slider", lo |-> Type[u].controls[k].min,
                                          hi |-> Type[u].controls[k].max]
        \/ /\ Type[u].controls[k].type = "DIMMER"
           /\ PositionControl(Type[u]) = [field |-> "dimmer", lo |-> 0, hi |-> 255]
  BY PositionControlIs
<1>3. PICK c : c = Type[u].controls[k] /\ Of(u, c)
  BY DEF Of
<1>4. c.type \in {"SLIDER", "DIMMER"}
  BY <1>2, <1>3 DEF Slides
<1>5. ~c.readonly /\ (c.type = "DIMMER" => c.length \in 7..8)
  BY <1>1, <1>3, <1>4, MotorControl DEF Slides, Sensor, Driven
<1>6. PICK bits : bits = Sent(u, old, st)
  OBVIOUS
<1>7. Extract(c, bits) = Code(c, st)
  BY <1>1, <1>3, <1>5, <1>6, SentIs
<1>8. Decode(Type[u], NoState, bits).state[Field[c.type]] = Reading(c, Code(c, st))
  <2>1. c.type \in Driven
    BY <1>4 DEF Driven
  <2>2. Decode(Type[u], NoState, bits).state[Field[c.type]] = Reading(c, Extract(c, bits))
    BY <1>1, <1>3, <2>1, MotorDecoded
  <2> QED BY <1>7, <2>2
<1> DEFINE W(f, lo, hi, m, x) ==
             /\ lo \in Nat /\ hi \in Nat /\ m \in lo..hi /\ hi - lo >= 100
             /\ m = percent_to_native(p, lo, hi)
             /\ PositionControl(Type[u]) = [field |-> f, lo |-> lo, hi |-> hi]
             /\ Decode(Type[u], NoState, bits).state[f] = x
             /\ x \in lo..hi /\ x \in {m - 1, m}
             /\ m \in {lo, hi} => x = m \/ hi - lo > 200
<1> HIDE DEF W
<1>9. PICK f, lo, hi, m, x : W(f, lo, hi, m, x)
  <2>1. CASE Slides(c) /\ PositionControl(Type[u]) = [field |-> "slider", lo |-> c.min, hi |-> c.max]
    <3>1. PICK lo \in Nat, hi \in Nat : lo = c.min /\ hi = c.max /\ hi - lo >= 100
      BY <1>3, <2>1, SliderIs
    <3>2. PICK m \in lo..hi : m = percent_to_native(p, lo, hi)
      <4>1. percent_to_native(p, lo, hi) \in lo..hi
        BY <3>1, PercentIs
      <4> QED BY <4>1
    <3>3. PositionControl(Type[u]) = [field |-> "slider", lo |-> lo, hi |-> hi]
      BY <2>1, <3>1
    <3>4. st["slider"] = m
      BY <3>2, <3>3
    <3>5. PICK x \in Int : /\ Reading(c, Code(c, st)) = x /\ x \in {m - 1, m}
                           /\ x >= c.min /\ x <= c.max /\ (m \in {c.min, c.max} => x = m)
      <4>1. m \in Nat /\ m >= c.min /\ m <= c.max
        BY <3>1, <3>2
      <4> QED BY <1>3, <2>1, <3>4, <4>1, SliderBack
    <3>6. Field[c.type] = "slider"
      BY <2>1 DEF Slides, Field
    <3>7. Decode(Type[u], NoState, bits).state["slider"] = x
      BY <1>8, <3>5, <3>6
    <3>8. x \in lo..hi /\ x \in {m - 1, m} /\ (m \in {lo, hi} => x = m)
      BY <3>1, <3>5
    <3>9. m \in {lo, hi} => x = m \/ hi - lo > 200
      BY <3>8
    <3>10. W("slider", lo, hi, m, x)
      BY <3>1, <3>2, <3>3, <3>7, <3>8, <3>9 DEF W
    <3> QED BY <3>10, Zenon
  <2>2. CASE c.type = "DIMMER" /\ PositionControl(Type[u]) = [field |-> "dimmer", lo |-> 0, hi |-> 255]
    <3>1. PICK lo \in Nat, hi \in Nat : lo = 0 /\ hi = 255 /\ hi - lo >= 100 /\ hi - lo > 200
      OBVIOUS
    <3>2. PICK m \in lo..hi : m = percent_to_native(p, lo, hi)
      <4>1. hi - lo >= 100
        BY <3>1
      <4>2. percent_to_native(p, lo, hi) \in lo..hi
        BY <4>1, PercentIs
      <4> QED BY <4>2
    <3>3. PositionControl(Type[u]) = [field |-> "dimmer", lo |-> lo, hi |-> hi]
      BY <2>2, <3>1
    <3>4. st["dimmer"] = m
      BY <3>2, <3>3
    <3>5. PICK x \in 0..255 : Reading(c, Code(c, st)) = x /\ x \in {m - 1, m}
      <4>1. m \in 0..255
        BY <3>1, <3>2
      <4>2. c.type = "DIMMER" /\ c.length \in 7..8
        BY <1>5, <2>2
      <4>3. Of(u, c)
        BY <1>3
      <4>4. \E x \in 0..255 : Reading(c, Code(c, st)) = x /\ x \in {m - 1, m}
        BY <3>4, <4>1, <4>2, <4>3, DimmerBack
      <4> QED BY <4>4
    <3>6. Field[c.type] = "dimmer"
      BY <2>2 DEF Field
    <3>7. Decode(Type[u], NoState, bits).state["dimmer"] = x
      BY <1>8, <3>5, <3>6
    <3>8. x \in lo..hi /\ x \in {m - 1, m} /\ x \in Int
      BY <3>1, <3>5
    <3>9. m \in {lo, hi} => x = m \/ hi - lo > 200
      BY <3>1
    <3>10. W("dimmer", lo, hi, m, x)
      BY <3>1, <3>2, <3>3, <3>7, <3>8, <3>9 DEF W
    <3> QED BY <3>10, Zenon
  <2> QED BY <1>2, <1>3, <2>1, <2>2
<1>10. /\ lo \in Nat /\ hi \in Nat /\ hi - lo >= 100 /\ m = percent_to_native(p, lo, hi)
       /\ PositionControl(Type[u]) = [field |-> f, lo |-> lo, hi |-> hi]
       /\ Decode(Type[u], NoState, bits).state[f] = x
       /\ x \in lo..hi /\ x \in {m - 1, m}
       /\ m \in {lo, hi} => x = m \/ hi - lo > 200
  BY <1>9 DEF W
<1>11. Reached(u, bits) = native_to_percent(x, lo, hi)
  BY <1>10 DEF Reached
<1>12. /\ native_to_percent(x, lo, hi) \in (p - 1)..p
       /\ p \in {0, 100} => native_to_percent(x, lo, hi) = p
  <2>1. /\ p = 0 => percent_to_native(p, lo, hi) = lo
        /\ p = 100 => percent_to_native(p, lo, hi) = hi
        /\ \A y \in lo..hi :
              y \in {percent_to_native(p, lo, hi) - 1, percent_to_native(p, lo, hi)} =>
                 /\ native_to_percent(y, lo, hi) \in (p - 1)..p
                 /\ p \in {0, 100} /\ (y = percent_to_native(p, lo, hi) \/ hi - lo > 200)
                      => native_to_percent(y, lo, hi) = p
    <3>1. lo \in Nat /\ hi \in Nat /\ hi - lo >= 100
      BY <1>10
    <3> QED BY <3>1, PercentIs
  <2>2. p \in {0, 100} => m \in {lo, hi}
    BY <1>10, <2>1
  <2> QED BY <1>10, <2>1, <2>2
<1> QED BY <1>6, <1>11, <1>12

\* A control whose value was known is written as it was, up to one value of a slider.
LEMMA OthersAre ==
  ASSUME NEW u \in Units, Motor(u), NEW st, Drivable(st), NEW old, NEW base,
         DOMAIN base = DOMAIN NoState, Decode(Type[u], base, old).state = base,
         NEW d, Of(u, d), d.type \in Driven => st[Field[d.type]] = base[Field[d.type]]
  PROVE  /\ d.type = "SLIDER" =>
              Reading(d, Extract(d, Sent(u, old, st))) \in
                (Reading(d, Extract(d, old)) - 1)..Reading(d, Extract(d, old))
         /\ d.type # "SLIDER" => Extract(d, Sent(u, old, st)) = Extract(d, old)
<1>1. d.length \in 0..31
  BY OfIs
<1>2. PICK n \in Nat : n = Extract(d, old) /\ n < Pow[d.length]
  BY OfIs, ExtractBound
<1>3. ASSUME d.type \in Driven
      PROVE  st[Field[d.type]] = Reading(d, n)
  <2>1. Decode(Type[u], base, old).state[Field[d.type]] = Reading(d, Extract(d, old))
    <3>1. PICK k \in DOMAIN Type[u].controls : d = Type[u].controls[k]
      BY DEF Of
    <3>2. PICK s : s = Decode(Type[u], base, old).state
      OBVIOUS
    <3>3. \A j \in DOMAIN Type[u].controls :
            Type[u].controls[j].type \in Driven =>
              s[Field[Type[u].controls[j].type]]
                = Reading(Type[u].controls[j], Extract(Type[u].controls[j], old))
      BY <3>2, MotorDecoded
    <3> QED BY <1>3, <3>1, <3>2, <3>3
  <2> QED BY <1>2, <1>3, <2>1
<1>4. d.type \in Driven /\ ~d.readonly => Extract(d, Sent(u, old, st)) = Code(d, st)
  BY SentIs
<1>5. CASE Slides(d) /\ ~d.readonly
  <2>1. d.type = "SLIDER" /\ d.type \in Driven /\ Field["SLIDER"] = "slider"
    BY <1>5 DEF Slides, Driven, Field
  <2>2. PICK lo, hi, mask \in Nat :
          /\ lo = d.min /\ hi = d.max /\ mask = Mask(d) /\ mask = Pow[d.length] - 1
          /\ lo < hi /\ hi - lo <= mask /\ mask # 0
    BY <1>5, SliderIs
  <2>3. n \in 0..mask /\ mask \in Nat \ {0} /\ lo \in Int /\ hi \in Int /\ lo <= hi
    <3>1. PICK q \in Nat : q = Pow[d.length]
      BY <1>1, PowTyped
    <3> QED BY <1>2, <2>2, <3>1
  <2>4. PICK v \in lo..hi : v = Unscaled(n, lo, hi, mask)
    <3>1. Unscaled(n, lo, hi, mask) \in lo..hi
      BY <2>2, <2>3, UnscaledInRange
    <3> QED BY <3>1
  <2>r. Reading(d, n) = v
    <3>1. Reading(d, n) = Unscaled(n, d.min, d.max, Mask(d))
      BY <1>1, <2>1, ReadingOf
    <3> QED BY <2>2, <2>4, <3>1
  <2>5. st["slider"] = v
    BY <1>3, <2>1, <2>r
  <2>6. Writes(d, st)
    <3>1. st[Field[d.type]] # None /\ d.min # None /\ d.max # None
      BY <2>1, <2>2, <2>4, <2>5, NoneAssumption
    <3> QED BY <2>1, <3>1 DEF Writes, Ranged
  <2>7. Code(d, st) = Scaled(v, lo, hi, mask)
    <3>1. Clamp(v, lo, hi) = v
      <4>1. v \in Int
        BY <2>3
      <4> QED BY <2>3, <4>1, ClampIs
    <3>2. Code(d, st) = Scaled(Clamp(st["slider"], d.min, d.max), d.min, d.max, Mask(d))
      BY <1>1, <2>1, <2>6, CodeOf
    <3> QED BY <2>2, <2>5, <3>1, <3>2
  <2>8. PICK s \in 0..mask : s = Scaled(v, lo, hi, mask)
    <3>1. Scaled(v, lo, hi, mask) \in 0..mask
      BY <2>2, <2>3, ScaledFits
    <3> QED BY <3>1
  <2>9. Reading(d, s) = Unscaled(s, lo, hi, mask)
    <3>1. s \in Nat
      BY <2>8
    <3>2. Reading(d, s) = Unscaled(s, d.min, d.max, Mask(d))
      BY <1>1, <2>1, <3>1, ReadingOf
    <3> QED BY <2>2, <3>2
  <2>10. Unscaled(s, lo, hi, mask) \in {v - 1, v}
    <3>1. lo \in Nat /\ hi \in Nat /\ lo < hi /\ mask \in Nat /\ hi - lo <= mask
      BY <2>2
    <3> QED BY <2>8, <3>1, WrittenAndRead
  <2>11. Reading(d, s) \in (v - 1)..v
    <3>1. v \in Int
      BY <2>3
    <3> QED BY <2>9, <2>10, <3>1
  <2>12. Extract(d, Sent(u, old, st)) = s
    BY <1>4, <1>5, <2>1, <2>7, <2>8
  <2> QED BY <1>2, <2>1, <2>r, <2>11, <2>12
<1>6. CASE d.type \in {"DIMMER", "VERTICAL"} /\ d.length <= 8 /\ ~d.readonly
  <2>1. d.type \in Driven /\ d.type \in Levels
    BY <1>6 DEF Driven, Levels
  <2>2. Field["DIMMER"] = "dimmer" /\ Field["VERTICAL"] = "vertical"
    BY DEF Field
  <2>3. d.length \in 0..8 /\ 8 - d.length \in 0..32
    BY <1>1, <1>6
  <2>4. PICK p : p = 2 ^ (8 - d.length) /\ p = Pow[8 - d.length]
    BY <2>3, PowerIs
  <2>5. n * p \in 0..255 /\ (n * p) \div p = n
    BY <1>2, <2>3, <2>4, LevelCodes
  <2>6. st[Field[d.type]] = n * p
    BY <1>1, <1>3, <1>6, <2>1, <2>4, ReadingOf
  <2>7. Writes(d, st)
    <3>1. st[Field[d.type]] # None
      BY <2>5, <2>6, NoneAssumption
    <3> QED BY <1>6, <2>1, <3>1 DEF Writes
  <2>8. Code(d, st) = n
    BY <1>1, <1>6, <2>2, <2>4, <2>5, <2>6, <2>7, CodeOf
  <2> QED BY <1>2, <1>4, <1>6, <2>1, <2>8
<1>7. CASE d.type = "ONOFF" /\ d.length = 1 /\ ~d.readonly
  <2>1. d.type \in Driven /\ Field["ONOFF"] = "onoff"
    BY <1>7 DEF Driven, Field
  <2>2. n \in {0, 1}
    <3>1. 0 \in 0..31 /\ 0 + 1 = 1
      OBVIOUS
    <3>2. Pow[0 + 1] = 2 * Pow[0]
      BY <3>1, Doubles
    <3>3. Pow[1] = 2
      BY <3>1, <3>2, PowTyped
    <3> QED BY <1>2, <1>7, <3>3
  <2>3. st["onoff"] = (n # 0)
    BY <1>1, <1>3, <1>7, <2>1, ReadingOf
  <2>4. Writes(d, st)
    <3>1. (n # 0) # None
      BY NoneAssumption
    <3>2. st[Field[d.type]] # None
      BY <1>7, <2>1, <2>3, <3>1
    <3> QED BY <1>7, <3>2 DEF Writes
  <2>5. Code(d, st) = IF st["onoff"] THEN 1 ELSE 0
    BY <1>1, <1>7, <2>4, CodeOf
  <2>6. Code(d, st) = n
    BY <2>2, <2>3, <2>5
  <2> QED BY <1>2, <1>4, <1>7, <2>1, <2>6
<1>8. CASE Sensor(d)
  <2>1. Extract(d, Sent(u, old, st)) = Extract(d, old)
    BY <1>8, SentIs DEF Sensor
  <2>2. d.type # "SLIDER"
    BY <1>8 DEF Sensor, Driven
  <2> QED BY <2>1, <2>2
<1> QED BY <1>5, <1>6, <1>7, <1>8, MotorControl

-----------------------------------------------------------------------------
(* What a call carries. A cover's step holds the state it started from and *)
(* the one it will send; any other call that sends a whole state switches  *)
(* a motor, and started from what was known when its packet was built.     *)

Asked == {a[2] : a \in Asks} \cup {[type |-> "ONOFF", value |-> n] : n \in {0, 1}}
         \cup (UNION {Range(a) : a \in Lights})

Start(base) == IF base = None THEN NoState ELSE base

MovedTo(u, base, p) ==
  [Start(base) EXCEPT ![PositionControl(Type[u]).field] =
     percent_to_native(p, PositionControl(Type[u]).lo, PositionControl(Type[u]).hi)]

Switched(base, b) == [Start(base) EXCEPT !["onoff"] = b]

Positions(k, u, base, p) ==
  /\ PositionControl(Type[u]) # None
  /\ base # None => StateOK(base)
  /\ k.target = Unit(u)
  /\ k.todo = << [type |-> "STATE", base |-> base, percent |-> p,
                  value |-> MovedTo(u, base, p)] >>
  /\ k.pc = "sending" => /\ k.packet.op = "SetState" /\ k.base = base
                         /\ k.packet.payload = Encode(Type[u], MovedTo(u, base, p))

Switching(k, u, base, b) ==
  /\ Motor(u) /\ k.target.kind = "unit" /\ k.target.unit = u
  /\ base # None => StateOK(base)
  /\ k.base = base /\ k.packet.payload = Encode(Type[u], Switched(base, b))

CallPlan(k) ==
  \/ k.pc = "idle"
  \/ \E u \in Units, p \in Percents : \E base : Positions(k, u, base, p)
  \/ /\ k.todo \in Seq(Asked) /\ k.todo # <<>>
     /\ k.target.kind = "unit" => k.target.unit \in Units
     /\ k.pc = "sending" /\ k.packet.op = "SetState" =>
          \E u \in Units, b \in BOOLEAN : \E base : Switching(k, u, base, b)

Planned == \A c \in Callers : CallPlan(call[c])

LEMMA AskedIs ==
  /\ \A a \in Lights : Range(a) \subseteq Asked
  /\ \A a \in Asks : a[2] \in Asked
  /\ \A n \in {0, 1} : [type |-> "ONOFF", value |-> n] \in Asked
  /\ \A x \in Asked : x.type # "STATE"
<1> DEFINE A == UNION {Range(a) : a \in Lights}
           B == {a[2] : a \in Asks}
           C == {[type |-> "ONOFF", value |-> n] : n \in {0, 1}}
<1>1. \A a \in Lights : Range(a) \subseteq A
  OBVIOUS
<1>2. \A a \in Asks : a[2] \in B
  OBVIOUS
<1>3. \A n \in {0, 1} : [type |-> "ONOFF", value |-> n] \in C
  OBVIOUS
<1>4. ASSUME NEW x \in A PROVE x.type # "STATE"
  BY AsksAssumption
<1>5. ASSUME NEW x \in B PROVE x.type # "STATE"
  BY AsksAssumption
<1>6. ASSUME NEW x \in C PROVE x.type # "STATE"
  OBVIOUS
<1>7. Asked = B \cup C \cup A
  BY DEF Asked
<1> HIDE DEF A, B, C
<1> QED BY <1>1, <1>2, <1>3, <1>4, <1>5, <1>6, <1>7

\* Which packets of the facade hold a whole state.
LEMMA WholeStates ==
  ASSUME NEW target, NEW t, NEW v, setControl(target, t, v) # None,
         setControl(target, t, v).op = "SetState"
  PROVE  /\ target.kind = "unit" /\ Role(Type[target.unit]) \in {"SHADE", "SCREEN"}
         /\ setControl(target, t, v) =
              setUnitState(target, [Known(target.unit) EXCEPT !["onoff"] = v # 0])
<1>1. \A op, x : Packet(op, target, x).op = op
  BY DEF Packet
<1>2. \A op, x : op # "SetState" /\ setByte(op, target, x) # None =>
                   setByte(op, target, x).op # "SetState"
  BY <1>1 DEF setByte
<1>3. ~ReadOnly(target, t)
  BY DEF setControl
<1>4. t = "ONOFF"
  <2>1. CASE t = "DIMMER"
    BY <1>2, <1>3, <2>1 DEF setControl
  <2>2. CASE t = "VERTICAL"
    BY <1>2, <1>3, <2>2 DEF setControl
  <2>3. CASE t = "WHITE"
    BY <1>2, <1>3, <2>3 DEF setControl
  <2>4. CASE t = "SLIDER"
    BY <1>2, <1>3, <2>4 DEF setControl
  <2>5. CASE t = "TEMPERATURE"
    BY <1>2, <1>3, <2>5 DEF setControl, setTemperature
  <2>6. CASE t = "XY"
    <3>1. setControl(target, t, v) = setColorXY(target, v)
      BY <1>3, <2>6 DEF setControl
    <3>2. setColorXY(target, v).op = "SetColorXY"
      BY <1>1 DEF setColorXY
    <3> QED BY <3>1, <3>2
  <2>7. CASE t = "RGB"
    <3>1. setControl(target, t, v) = setColor(target, v)
      BY <1>3, <2>7 DEF setControl
    <3>2. setColor(target, v) = Packet("SetColor", target, HsCode(v, 10, 8))
      BY <3>1 DEF setColor
    <3> QED BY <1>1, <3>1, <3>2
  <2>8. CASE t \notin {"DIMMER", "VERTICAL", "WHITE", "SLIDER", "TEMPERATURE", "RGB", "XY", "ONOFF"}
    BY <1>3, <2>8 DEF setControl
  <2> QED BY <2>1, <2>2, <2>3, <2>4, <2>5, <2>6, <2>7, <2>8
<1>5. setControl(target, t, v) =
        IF target.kind = "unit" /\ Role(Type[target.unit]) \in {"SHADE", "SCREEN"}
        THEN setUnitState(target, [Known(target.unit) EXCEPT !["onoff"] = v # 0])
        ELSE IF v # 0 THEN Packet("RestoreLevel", target, 255)
        ELSE setByte("SetLevel", target, 0)
  BY <1>3, <1>4 DEF setControl
<1> QED BY <1>1, <1>2, <1>5

LEMMA PlannedInit == Init => Planned
BY DEF Init, Planned, CallPlan, Idle

\* One call at a time changes.
LEMMA PlannedCall ==
  ASSUME Typed, Planned, NEW c \in Callers, NEW k, CallPlan(k), call' = [call EXCEPT ![c] = k]
  PROVE  Planned'
<1>1. \A d \in Callers : call'[d] = call[d] \/ call'[d] = k
  BY DEF Typed
<1>2. \A d \in Callers : CallPlan(call'[d])
  BY <1>1 DEF Planned
<1> QED BY <1>2 DEF Planned

LEMMA PlannedIdle ==
  ASSUME Typed, Planned, NEW c \in Callers, call' = [call EXCEPT ![c] = Idle]
  PROVE  Planned'
<1>1. PICK k : k = Idle
  OBVIOUS
<1>2. CallPlan(k)
  BY <1>1 DEF CallPlan, Idle
<1> QED BY <1>1, <1>2, PlannedCall

LEMMA UnitIs ==
  ASSUME Typed, NEW u \in Units
  PROVE  /\ unit[u].state # None => StateOK(unit[u].state)
         /\ Known(u) = Start(unit[u].state)
BY DEF Typed, UnitsOK, UnitOK, Known, Start

LEMMA PlannedPosition ==
  ASSUME Typed, Planned, NEW c \in Callers, NEW u \in Units, NEW p \in Percents,
         SetPosition(c, u, p)
  PROVE  Planned'
<1> DEFINE pos == PositionControl(Type[u])
<1>1. PICK base : base = unit[u].state
  OBVIOUS
<1>2. PICK k : k = [pc |-> "wait", target |-> Unit(u),
                    todo |-> << [type |-> "STATE", base |-> base, percent |-> p,
                                 value |-> MovedTo(u, base, p)] >>]
  OBVIOUS
<1>3. MovedTo(u, base, p) = [Known(u) EXCEPT ![pos.field] =
                               percent_to_native(p, pos.lo, pos.hi)]
  BY <1>1, UnitIs DEF MovedTo
<1>4. pos # None /\ call' = [call EXCEPT ![c] = k]
  <2>1. Begin(c, Unit(u),
             << [type |-> "STATE", base |-> unit[u].state, percent |-> p,
                 value |-> [Known(u) EXCEPT ![pos.field] =
                              percent_to_native(p, pos.lo, pos.hi)]] >>)
    BY DEF SetPosition
  <2>2. Begin(c, Unit(u), << [type |-> "STATE", base |-> base, percent |-> p,
                              value |-> MovedTo(u, base, p)] >>)
    BY <1>1, <1>3, <2>1
  <2>3. pos # None
    BY DEF SetPosition
  <2> QED BY <1>2, <2>2, <2>3 DEF Begin
<1>5. Positions(k, u, base, p)
  BY <1>1, <1>2, <1>4, UnitIs DEF Positions
<1>6. CallPlan(k)
  BY <1>5 DEF CallPlan
<1> QED BY <1>4, <1>6, PlannedCall

\* What the other calls ask for is no whole state.
LEMMA PlannedAsk ==
  ASSUME Typed, Planned, NEW c \in Callers, NEW target, NEW todo \in Seq(Asked), todo # <<>>,
         target.kind = "unit" => target.unit \in Units, Begin(c, target, todo)
  PROVE  Planned'
<1>1. PICK k : k = [pc |-> "wait", target |-> target, todo |-> todo]
  OBVIOUS
<1>2. CallPlan(k)
  BY <1>1 DEF CallPlan
<1>3. call' = [call EXCEPT ![c] = k]
  BY <1>1 DEF Begin
<1> QED BY <1>2, <1>3, PlannedCall

LEMMA PlannedAsks ==
  ASSUME Typed, Planned, NEW c \in Callers
  PROVE  /\ \A u \in Units, a \in Lights : TurnOn(c, u, a) => Planned'
         /\ \A u \in Units : TurnOff(c, u) => Planned'
         /\ \A a \in Asks : UseLibrary(c, a[1], a[2]) => Planned'
<1>1. \A x \in Asked : << x >> \in Seq(Asked) /\ << x >> # <<>>
  OBVIOUS
<1>2. \A n \in {0, 1} : [type |-> "ONOFF", value |-> n] \in Asked
  BY AskedIs
<1>3. \A u \in Units : Unit(u).kind = "unit" => Unit(u).unit \in Units
  BY DEF Unit
<1>4. ASSUME NEW u \in Units, NEW a \in Lights, TurnOn(c, u, a) PROVE Planned'
  <2>1. CASE a = <<>>
    <3>1. PICK x : x = [type |-> "ONOFF", value |-> 1]
      OBVIOUS
    <3>2. x \in Asked
      BY <1>2, <3>1
    <3>3. Begin(c, Unit(u), << x >>)
      BY <1>4, <2>1, <3>1 DEF TurnOn
    <3> QED BY <1>1, <1>3, <3>2, <3>3, PlannedAsk
  <2>2. CASE a # <<>>
    <3>1. a \in Seq(Range(a)) /\ Range(a) \subseteq Asked
      BY AsksAssumption, AskedIs
    <3>2. a \in Seq(Asked)
      BY <3>1
    <3>3. Begin(c, Unit(u), a)
      BY <1>4, <2>2 DEF TurnOn
    <3> QED BY <1>3, <2>2, <3>2, <3>3, PlannedAsk
  <2> QED BY <2>1, <2>2
<1>5. ASSUME NEW u \in Units, TurnOff(c, u) PROVE Planned'
  <2>1. PICK x : x = [type |-> "ONOFF", value |-> 0]
    OBVIOUS
  <2>2. x \in Asked
    BY <1>2, <2>1
  <2>3. Begin(c, Unit(u), << x >>)
    BY <1>5, <2>1 DEF TurnOff
  <2> QED BY <1>1, <1>3, <2>2, <2>3, PlannedAsk
<1>6. ASSUME NEW a \in Asks, UseLibrary(c, a[1], a[2]) PROVE Planned'
  <2>1. PICK target, x : target = a[1] /\ x = a[2]
    OBVIOUS
  <2>2. x \in Asked /\ (target.kind = "unit" => target.unit \in Units)
    BY <2>1, AsksAssumption, AskedIs
  <2>3. Begin(c, target, << x >>)
    BY <1>6, <2>1 DEF UseLibrary
  <2> QED BY <1>1, <2>2, <2>3, PlannedAsk
<1> QED BY <1>4, <1>5, <1>6

\* The packet of a whole state, if it can be built.
LEMMA StateIs ==
  ASSUME NEW target, NEW st, setUnitState(target, st) # None
  PROVE  /\ setUnitState(target, st).op = "SetState"
         /\ setUnitState(target, st).payload = Encode(Type[target.unit], st)
<1>1. setUnitState(target, st) = Packet("SetState", target, Encode(Type[target.unit], st))
  BY DEF setUnitState
<1> QED BY <1>1 DEF Packet

LEMMA PlannedBuild ==
  ASSUME Typed, Planned, NEW c \in Callers, Build(c)
  PROVE  Planned'
<1> DEFINE k      == call[c]
           step   == Head(k.todo)
           packet == IF step.type = "STATE" THEN setUnitState(k.target, step.value)
                     ELSE IF step.type = "SCENE" THEN switchToScene(k.target, step.value)
                     ELSE setControl(k.target, step.type, step.value)
           base   == IF step.type = "STATE" THEN step.base
                     ELSE IF k.target.kind = "unit" THEN unit[k.target.unit].state
                     ELSE None
           sends  == [pc |-> "sending", target |-> k.target, todo |-> k.todo,
                      packet |-> packet, base |-> base]
<1>1. \/ call' = [call EXCEPT ![c] = Idle]
      \/ packet # None /\ call' = [call EXCEPT ![c] = sends]
  <2>1. IF packet = None
        THEN call' = [call EXCEPT ![c] = Idle] /\ UNCHANGED origin
        ELSE /\ call' = [call EXCEPT ![c] =
                  [pc |-> "sending", target |-> @.target, todo |-> @.todo, packet |-> packet,
                   base |-> IF step.type = "STATE" THEN step.base
                            ELSE IF @.target.kind = "unit" THEN unit[@.target.unit].state
                            ELSE None]]
             /\ origin' = origin + 1
    BY DEF Build
  <2> HIDE DEF packet
  <2> QED BY <2>1
<1>2. k.pc = "wait" /\ CallPlan(k)
  BY DEF Build, Planned
<1>3. CASE \E u \in Units, p \in Percents : \E b : Positions(k, u, b, p)
  <2>0. PICK u \in Units, p \in Percents : \E b : Positions(k, u, b, p)
    BY <1>3
  <2>1. PICK b : Positions(k, u, b, p)
    BY <2>0
  <2>2. PICK x : x = [type |-> "STATE", base |-> b, percent |-> p, value |-> MovedTo(u, b, p)]
    OBVIOUS
  <2>3. k.todo = << x >> /\ step = x
    BY <2>1, <2>2 DEF Positions
  <2>4. base = b /\ packet = setUnitState(Unit(u), MovedTo(u, b, p))
    BY <2>1, <2>2, <2>3 DEF Positions
  <2>5. setUnitState(Unit(u), MovedTo(u, b, p)) # None =>
           /\ setUnitState(Unit(u), MovedTo(u, b, p)).op = "SetState"
           /\ setUnitState(Unit(u), MovedTo(u, b, p)).payload = Encode(Type[u], MovedTo(u, b, p))
    BY StateIs DEF Unit
  <2> HIDE DEF packet, base, step
  <2>6. packet # None => Positions(sends, u, b, p)
    BY <2>1, <2>4, <2>5 DEF Positions
  <2>7. packet # None => CallPlan(sends)
    BY <2>6 DEF CallPlan
  <2> HIDE DEF sends
  <2> QED BY <1>1, <2>7, PlannedCall, PlannedIdle
<1>4. CASE /\ k.todo \in Seq(Asked) /\ k.todo # <<>>
           /\ k.target.kind = "unit" => k.target.unit \in Units
  <2>1. step \in Asked
    BY <1>4, HeadTailProperties
  <2>2. step.type # "STATE"
    BY <2>1, AskedIs
  <2>3. ASSUME packet # None, packet.op = "SetState"
        PROVE  \E u \in Units, b \in BOOLEAN : \E x : Switching(sends, u, x, b)
    <3>1. CASE step.type = "SCENE"
      <4>1. packet = switchToScene(k.target, step.value)
        BY <2>2, <3>1
      <4> HIDE DEF packet, step
      <4>2. packet.op = "SetLevel"
        BY <2>3, <4>1 DEF switchToScene, setByte, Packet
      <4> QED BY <2>3, <4>2
    <3>2. CASE step.type # "SCENE"
      <4>1. PICK target, t, v : target = k.target /\ t = step.type /\ v = step.value
        OBVIOUS
      <4>2. packet = setControl(target, t, v)
        BY <2>2, <3>2, <4>1
      <4> HIDE DEF packet
      <4>3. /\ target.kind = "unit" /\ Role(Type[target.unit]) \in {"SHADE", "SCREEN"}
            /\ packet = setUnitState(target, [Known(target.unit) EXCEPT !["onoff"] = v # 0])
        BY <2>3, <4>2, WholeStates
      <4>4. PICK u \in Units : u = target.unit
        BY <1>4, <4>1, <4>3
      <4>5. PICK b \in BOOLEAN : b = (v # 0)
        OBVIOUS
      <4>6. PICK x : x = unit[u].state
        OBVIOUS
      <4>7. packet.payload = Encode(Type[u], Switched(x, b))
        <5>1. PICK st : st = [Known(u) EXCEPT !["onoff"] = b]
          OBVIOUS
        <5>2. packet = setUnitState(target, st) /\ packet # None
          BY <2>3, <4>3, <4>4, <4>5, <5>1
        <5>3. packet.payload = Encode(Type[u], st)
          BY <4>4, <5>2, StateIs
        <5>4. st = Switched(x, b)
          BY <4>6, <5>1, UnitIs DEF Switched
        <5> QED BY <5>3, <5>4
      <4>8. base = x
        BY <2>2, <4>1, <4>3, <4>4, <4>6
      <4>9. x # None => StateOK(x)
        BY <4>6, UnitIs
      <4> HIDE DEF base
      <4>10. Switching(sends, u, x, b)
        BY <4>1, <4>3, <4>4, <4>7, <4>8, <4>9 DEF Switching, Motor
      <4> QED BY <4>10
    <3> QED BY <3>1, <3>2
  <2> HIDE DEF packet, base, step
  <2>4. packet # None => CallPlan(sends)
    BY <1>4, <2>3 DEF CallPlan
  <2> HIDE DEF sends
  <2> QED BY <1>1, <2>4, PlannedCall, PlannedIdle
<1> QED BY <1>2, <1>3, <1>4 DEF CallPlan

LEMMA PlannedTransmit ==
  ASSUME Typed, Planned, NEW c \in Callers, Transmit(c)
  PROVE  Planned'
<1>1. PICK k : k = call[c]
  OBVIOUS
<1>2. k.pc = "sending" /\ CallPlan(k)
  BY <1>1 DEF Transmit, Transmitting, Planned
<1> DEFINE rest == [pc |-> "wait", target |-> k.target, todo |-> Tail(k.todo)]
<1>3. \/ Len(k.todo) = 1 /\ call' = [call EXCEPT ![c] = Idle]
      \/ Len(k.todo) # 1 /\ call' = [call EXCEPT ![c] = rest]
  BY <1>1 DEF Transmit
<1>4. CASE \E u \in Units, p \in Percents : \E b : Positions(k, u, b, p)
  <2>1. \E x : k.todo = << x >>
    BY <1>4 DEF Positions
  <2>2. Len(k.todo) = 1
    BY <2>1
  <2> HIDE DEF rest
  <2> QED BY <1>3, <2>2, PlannedIdle
<1>5. CASE /\ k.todo \in Seq(Asked) /\ k.todo # <<>>
           /\ k.target.kind = "unit" => k.target.unit \in Units
  <2>1. Tail(k.todo) \in Seq(Asked) /\ (Len(k.todo) # 1 => Tail(k.todo) # <<>>)
    <3>1. PICK s \in Seq(Asked) : s = k.todo
      BY <1>5
    <3>2. Tail(s) \in Seq(Asked) /\ Len(Tail(s)) = Len(s) - 1 /\ Len(s) \in Nat
      BY <1>5, <3>1, HeadTailProperties, LenProperties
    <3>3. Len(s) # 1 => Len(Tail(s)) # 0
      BY <3>2
    <3> QED BY <3>1, <3>2, <3>3, EmptySeq
  <2>2. Len(k.todo) # 1 => CallPlan(rest)
    BY <1>5, <2>1 DEF CallPlan
  <2> HIDE DEF rest
  <2> QED BY <1>3, <2>2, PlannedCall, PlannedIdle
<1> QED BY <1>2, <1>4, <1>5 DEF CallPlan

LEMMA PlannedStep ==
  ASSUME Typed, Planned, [Next]_vars
  PROVE  Planned'
<1>1. ASSUME UNCHANGED call PROVE Planned'
  BY <1>1 DEF Planned
<1>2. ASSUME NEW c \in Callers, Calls(c) PROVE Planned'
  <2>1. ASSUME NEW u \in Units, NEW p \in Percents, SetPosition(c, u, p) PROVE Planned'
    BY <2>1, PlannedPosition
  <2>2. ASSUME NEW u \in Units, NEW a \in Lights, TurnOn(c, u, a) PROVE Planned'
    BY <2>2, PlannedAsks
  <2>3. ASSUME NEW u \in Units, TurnOff(c, u) PROVE Planned'
    BY <2>3, PlannedAsks
  <2>4. ASSUME NEW a \in Asks, UseLibrary(c, a[1], a[2]) PROVE Planned'
    BY <2>4, PlannedAsks
  <2>5. ASSUME SendFails(c) PROVE Planned'
    BY <2>5, PlannedIdle DEF SendFails
  <2> QED BY <1>2, <2>1, <2>2, <2>3, <2>4, <2>5, PlannedBuild, PlannedTransmit DEF Calls
<1>3. Environment => UNCHANGED call
  BY DEF Environment
<1>4. ASSUME NEW t \in Touches, Touch(t[1], t[2], t[3]) PROVE Environment
  BY <1>4 DEF Touch
<1>5. ASSUME NEW u \in Units, NEW tag \in DOMAIN Readings[u], NEW r \in Readings[u][tag],
             Sense(u, tag, r)
      PROVE  Environment
  BY <1>5 DEF Sense
<1>6. ASSUME NEW ms \in Presses, Press(ms) PROVE Environment
  BY <1>6 DEF Press
<1>7. ASSUME NEW raises \in BOOLEAN, Handle(raises) PROVE UNCHANGED call
  BY <1>7 DEF Handle
<1>8. CASE ApplyUpdate
  BY <1>1, <1>8 DEF ApplyUpdate
<1>9. CASE UNCHANGED vars
  BY <1>1, <1>9 DEF vars
<1> QED BY <1>1, <1>2, <1>3, <1>4, <1>5, <1>6, <1>7, <1>8, <1>9 DEF Next

LEMMA PlannedAlways == Spec => []Planned
BY PlannedInit, PlannedStep, TypedAlways, PTL DEF Spec

-----------------------------------------------------------------------------
(* What a delivered state does to a motor.                                 *)

LEMMA DeliveredIs ==
  ASSUME Typed, [Next]_vars, NEW c \in Callers, Delivered(c)
  PROVE  Transmit(c)
<1>0. call'[c] # call[c] /\ air' # air
  BY DEF Delivered
<1>1. ASSUME NEW d \in Callers, Calls(d) PROVE Transmit(c)
  <2>1. ASSUME NEW u \in Units, NEW p \in Percents, SetPosition(d, u, p) PROVE air' = air
    BY <2>1 DEF SetPosition, Begin
  <2>2. ASSUME NEW u \in Units, NEW a \in Lights, TurnOn(d, u, a) PROVE air' = air
    BY <2>2 DEF TurnOn, Begin
  <2>3. ASSUME NEW u \in Units, TurnOff(d, u) PROVE air' = air
    BY <2>3 DEF TurnOff, Begin
  <2>4. ASSUME NEW a \in Asks, UseLibrary(d, a[1], a[2]) PROVE air' = air
    BY <2>4 DEF UseLibrary, Begin
  <2>5. ASSUME Build(d) PROVE air' = air
    BY <2>5 DEF Build
  <2>6. ASSUME SendFails(d) PROVE air' = air
    BY <2>6 DEF SendFails
  <2>7. ASSUME Transmit(d) PROVE d = c
    <3>1. \E x : call' = [call EXCEPT ![d] = x]
      BY <2>7 DEF Transmit
    <3> QED BY <1>0, <3>1 DEF Typed
  <2> QED BY <1>0, <1>1, <2>1, <2>2, <2>3, <2>4, <2>5, <2>6, <2>7 DEF Calls
<1>2. Environment => UNCHANGED call
  BY DEF Environment
<1>3. ASSUME NEW t \in Touches, Touch(t[1], t[2], t[3]) PROVE Environment
  BY <1>3 DEF Touch
<1>4. ASSUME NEW u \in Units, NEW tag \in DOMAIN Readings[u], NEW r \in Readings[u][tag],
             Sense(u, tag, r)
      PROVE  Environment
  BY <1>4 DEF Sense
<1>5. ASSUME NEW ms \in Presses, Press(ms) PROVE Environment
  BY <1>5 DEF Press
<1>6. ASSUME NEW raises \in BOOLEAN, Handle(raises) PROVE UNCHANGED call
  BY <1>6 DEF Handle
<1>7. CASE ApplyUpdate
  BY <1>0, <1>7 DEF ApplyUpdate
<1>8. CASE UNCHANGED vars
  BY <1>0, <1>8 DEF vars
<1> QED BY <1>0, <1>1, <1>2, <1>3, <1>4, <1>5, <1>6, <1>7, <1>8 DEF Next

LEMMA SentBits ==
  ASSUME NEW c \in Callers, Transmit(c), NEW u \in Units, NEW st,
         call[c].target.kind = "unit", call[c].target.unit = u,
         call[c].packet.op = "SetState", call[c].packet.payload = Encode(Type[u], st)
  PROVE  fixture'[u].bits = Sent(u, fixture[u].bits, st)
<1>1. u \in Addressed(call[c].target)
  BY DEF Addressed
<1>2. fixture'[u] = With(u, Applied(u, call[c].packet.op, call[c].packet.payload))
  BY <1>1 DEF Transmit
<1>3. Applied(u, "SetState", Encode(Type[u], st)) = Sent(u, fixture[u].bits, st)
  BY DEF Applied, Sent
<1> QED BY <1>2, <1>3, WithIs

\* The states of calls can be sent.
LEMMA StartIs ==
  ASSUME NEW base, base # None => StateOK(base)
  PROVE  /\ DOMAIN Start(base) = DOMAIN NoState
         /\ Drivable(Start(base))
<1>1. \A f \in {"slider", "dimmer", "vertical"} :
        f \in Range(Field) /\ (\A v : InRange(f, v) => v \in 0..255)
  <2>1. /\ Field["SLIDER"] = "slider" /\ Field["DIMMER"] = "dimmer"
        /\ Field["VERTICAL"] = "vertical"
        /\ "SLIDER" \in DOMAIN Field /\ "DIMMER" \in DOMAIN Field /\ "VERTICAL" \in DOMAIN Field
    BY DEF Field
  <2>2. "slider" \in Range(Field) /\ "dimmer" \in Range(Field) /\ "vertical" \in Range(Field)
    BY <2>1 DEF Range
  <2> QED BY <2>2 DEF InRange
<1>2. CASE base = None
  <2>1. \A f \in {"slider", "dimmer", "vertical"} : NoState[f] = None
    BY <1>1 DEF NoState
  <2> QED BY <1>2, <2>1 DEF Start, Drivable
<1>3. CASE base # None
  BY <1>1, <1>3 DEF Start, Drivable, StateOK
<1> QED BY <1>2, <1>3

LEMMA DrivenFields ==
  /\ \A t \in Driven : Field[t] \in DOMAIN NoState
  /\ \A t \in Driven : Field[t] = "onoff" => t = "ONOFF"
  /\ \A t \in Driven : Field[t] = "slider" => t = "SLIDER"
  /\ \A t \in Driven : Field[t] = "dimmer" => t = "DIMMER"
  /\ {"slider", "dimmer", "onoff"} \subseteq DOMAIN NoState
<1>1. /\ Field["SLIDER"] = "slider" /\ Field["DIMMER"] = "dimmer"
      /\ Field["VERTICAL"] = "vertical" /\ Field["ONOFF"] = "onoff"
      /\ "SLIDER" \in DOMAIN Field /\ "DIMMER" \in DOMAIN Field
      /\ "VERTICAL" \in DOMAIN Field /\ "ONOFF" \in DOMAIN Field
  BY DEF Field
<1>2. {"slider", "dimmer", "vertical", "onoff"} \subseteq DOMAIN NoState
  <2>1. {"slider", "dimmer", "vertical", "onoff"} \subseteq Range(Field)
    BY <1>1 DEF Range
  <2> QED BY <2>1 DEF NoState
<1> QED BY <1>1, <1>2 DEF Driven

LEMMA MovedIs ==
  ASSUME NEW u \in Units, PositionControl(Type[u]) # None, NEW p \in 0..100,
         NEW base, base # None => StateOK(base)
  PROVE  /\ Motor(u) /\ Drivable(MovedTo(u, base, p))
         /\ MovedTo(u, base, p)[PositionControl(Type[u]).field] =
              percent_to_native(p, PositionControl(Type[u]).lo, PositionControl(Type[u]).hi)
         /\ \A t \in Driven \ {"SLIDER", "DIMMER"} :
              MovedTo(u, base, p)[Field[t]] = Start(base)[Field[t]]
<1>1. PICK f, lo, hi :
        /\ f \in {"slider", "dimmer"} /\ lo \in 0..255 /\ hi \in 0..255 /\ hi - lo >= 100
        /\ PositionControl(Type[u]) = [field |-> f, lo |-> lo, hi |-> hi]
  <2>1. PICK k \in DOMAIN Type[u].controls :
          \/ /\ Slides(Type[u].controls[k])
             /\ PositionControl(Type[u]) = [field |-> "slider", lo |-> Type[u].controls[k].min,
                                            hi |-> Type[u].controls[k].max]
          \/ /\ Type[u].controls[k].type = "DIMMER"
             /\ PositionControl(Type[u]) = [field |-> "dimmer", lo |-> 0, hi |-> 255]
    BY PositionControlIs
  <2>2. CASE /\ Slides(Type[u].controls[k])
             /\ PositionControl(Type[u]) = [field |-> "slider", lo |-> Type[u].controls[k].min,
                                            hi |-> Type[u].controls[k].max]
    BY <2>2 DEF Slides
  <2>3. CASE PositionControl(Type[u]) = [field |-> "dimmer", lo |-> 0, hi |-> 255]
    <3>1. PICK lo, hi \in 0..255 : lo = 0 /\ hi = 255 /\ hi - lo >= 100
      OBVIOUS
    <3> QED BY <2>3, <3>1
  <2> QED BY <2>1, <2>2, <2>3
<1>2. PICK m \in 0..255 : m = percent_to_native(p, lo, hi)
  <2>1. lo \in Nat /\ hi \in Nat /\ hi - lo >= 100
    BY <1>1
  <2>2. percent_to_native(p, lo, hi) \in lo..hi
    BY <2>1, PercentIs
  <2> QED BY <1>1, <2>2
<1>3. PICK st : st = MovedTo(u, base, p) /\ st = [Start(base) EXCEPT ![f] = m]
  <2>1. MovedTo(u, base, p) = [Start(base) EXCEPT ![f] = m]
    <3>1. PICK pos : pos = PositionControl(Type[u]) /\ pos = [field |-> f, lo |-> lo, hi |-> hi]
      BY <1>1
    <3>2. MovedTo(u, base, p) =
            [Start(base) EXCEPT ![pos.field] = percent_to_native(p, pos.lo, pos.hi)]
      BY <3>1 DEF MovedTo
    <3>3. pos.field = f /\ pos.lo = lo /\ pos.hi = hi
      BY <3>1
    <3> QED BY <1>2, <3>2, <3>3
  <2> QED BY <2>1
<1>4. DOMAIN Start(base) = DOMAIN NoState /\ Drivable(Start(base))
  BY StartIs
<1>5. f \in DOMAIN Start(base)
  BY <1>1, <1>4, DrivenFields
<1>6. st[f] = m /\ \A g \in DOMAIN NoState : g # f => st[g] = Start(base)[g]
  BY <1>3, <1>4, <1>5
<1>7. Drivable(st)
  BY <1>3, <1>4, <1>5 DEF Drivable
<1>8. \A t \in Driven \ {"SLIDER", "DIMMER"} : st[Field[t]] = Start(base)[Field[t]]
  BY <1>1, <1>6, DrivenFields
<1>9. Motor(u)
  BY PositionControlIs
<1> QED BY <1>1, <1>2, <1>3, <1>6, <1>7, <1>8, <1>9

LEMMA SwitchedIs ==
  ASSUME NEW base, base # None => StateOK(base), NEW b \in BOOLEAN
  PROVE  /\ Drivable(Switched(base, b))
         /\ \A t \in Driven \ {"ONOFF"} :
              Switched(base, b)[Field[t]] = Start(base)[Field[t]]
<1>1. DOMAIN Start(base) = DOMAIN NoState /\ Drivable(Start(base))
  BY StartIs
<1>2. \A g \in DOMAIN NoState : g # "onoff" => Switched(base, b)[g] = Start(base)[g]
  BY <1>1 DEF Switched
<1>3. Drivable(Switched(base, b))
  BY <1>1 DEF Drivable, Switched
<1>4. \A t \in Driven \ {"ONOFF"} :
        Switched(base, b)[Field[t]] = Start(base)[Field[t]]
  BY <1>2, DrivenFields
<1> QED BY <1>3, <1>4

\* The two kinds of calls that send a whole state.
LEMMA PlanOf ==
  ASSUME Planned, NEW c \in Callers, call[c].pc = "sending"
  PROVE  /\ Head(call[c].todo).type = "STATE" =>
              \E u \in Units, p \in Percents : \E base :
                Positions(call[c], u, base, p) /\ Head(call[c].todo).percent = p
         /\ Head(call[c].todo).type # "STATE" /\ call[c].packet.op = "SetState" =>
              \E u \in Units, b \in BOOLEAN : \E base : Switching(call[c], u, base, b)
<1>1. PICK k : k = call[c]
  OBVIOUS
<1>2. CallPlan(k) /\ k.pc = "sending"
  BY <1>1 DEF Planned
<1>3. ASSUME NEW u \in Units, NEW p \in Percents, NEW base, Positions(k, u, base, p)
      PROVE  Head(k.todo).type = "STATE" /\ Head(k.todo).percent = p
  <2>1. PICK x : /\ x = [type |-> "STATE", base |-> base, percent |-> p,
                         value |-> MovedTo(u, base, p)]
                 /\ k.todo = << x >>
    BY <1>3 DEF Positions
  <2>2. Head(k.todo) = x
    BY <2>1
  <2> QED BY <2>1, <2>2
<1>4. ASSUME k.todo \in Seq(Asked), k.todo # <<>> PROVE Head(k.todo).type # "STATE"
  <2>1. Head(k.todo) \in Asked
    BY <1>4, HeadTailProperties
  <2> QED BY <2>1, AskedIs
<1>5. CASE \E u \in Units, p \in Percents : \E base : Positions(k, u, base, p)
  BY <1>1, <1>3, <1>5
<1>6. CASE /\ k.todo \in Seq(Asked) /\ k.todo # <<>>
           /\ k.packet.op = "SetState" =>
                \E u \in Units, b \in BOOLEAN : \E base : Switching(k, u, base, b)
  BY <1>1, <1>4, <1>6
<1> QED BY <1>2, <1>5, <1>6 DEF CallPlan

\* A cover that was told a position reports that position or one percent less, and
\* exactly 0 and 100 when it was closed or opened: rounding on the way there, in the
\* codec and on the way back adds up to no more (_logic.py:75-103, _unit.py:567-573,
\* 763-771), whatever the fixture's state was.
THEOREM PositionsReached == Spec => PositionReached
<1> DEFINE A == \A c \in Callers :
             Delivered(c) /\ Head(call[c].todo).type = "STATE" =>
               LET u   == call[c].target.unit
                   pos == PositionControl(Type[u])
                   p   == Head(call[c].todo).percent
                   q   == native_to_percent(
                            Decode(Type[u], NoState, fixture'[u].bits).state[pos.field],
                            pos.lo, pos.hi)
               IN  q \in (p - 1)..p /\ (p \in {0, 100} => q = p)
<1>1. Typed /\ Planned /\ [Next]_vars => A
  <2> SUFFICES ASSUME Typed, Planned, [Next]_vars, NEW c \in Callers, Delivered(c),
                      Head(call[c].todo).type = "STATE"
               PROVE  /\ Reached(call[c].target.unit, fixture'[call[c].target.unit].bits)
                           \in (Head(call[c].todo).percent - 1)..Head(call[c].todo).percent
                      /\ Head(call[c].todo).percent \in {0, 100} =>
                           Reached(call[c].target.unit, fixture'[call[c].target.unit].bits)
                             = Head(call[c].todo).percent
    BY DEF Reached
  <2>1. Transmit(c) /\ call[c].pc = "sending"
    BY DeliveredIs DEF Delivered
  <2>2. PICK u \in Units, p \in Percents :
          \E base : Positions(call[c], u, base, p) /\ Head(call[c].todo).percent = p
    BY <2>1, PlanOf
  <2>3. PICK base : Positions(call[c], u, base, p) /\ Head(call[c].todo).percent = p
    BY <2>2
  <2>4. PICK st : st = MovedTo(u, base, p)
    OBVIOUS
  <2>5. /\ call[c].target = Unit(u) /\ call[c].packet.op = "SetState"
        /\ call[c].packet.payload = Encode(Type[u], st)
        /\ PositionControl(Type[u]) # None /\ (base # None => StateOK(base))
    BY <2>1, <2>3, <2>4 DEF Positions
  <2>6. call[c].target.kind = "unit" /\ call[c].target.unit = u
    BY <2>5 DEF Unit
  <2>7. fixture'[u].bits = Sent(u, fixture[u].bits, st)
    BY <2>1, <2>5, <2>6, SentBits
  <2>8. p \in 0..100
    BY AsksAssumption
  <2>9. /\ Drivable(st)
        /\ st[PositionControl(Type[u]).field] =
             percent_to_native(p, PositionControl(Type[u]).lo, PositionControl(Type[u]).hi)
    BY <2>4, <2>5, <2>8, MovedIs
  <2>10. /\ Reached(u, Sent(u, fixture[u].bits, st)) \in (p - 1)..p
         /\ p \in {0, 100} => Reached(u, Sent(u, fixture[u].bits, st)) = p
    BY <2>5, <2>8, <2>9, PositionIs
  <2> QED BY <2>3, <2>6, <2>7, <2>10
<1>2. A => [A]_vars
  OBVIOUS
<1> QED BY <1>1, <1>2, TypedAlways, PlannedAlways, PTL DEF Spec, PositionReached

\* What a control of a motor is after a state was sent to it.
OtherKept(u, own, d, old, new) ==
  CASE d.type \in own    -> TRUE
    [] d.type = "SLIDER" /\ d.type \notin own ->
         Reading(d, Extract(d, new)) \in
           (Reading(d, Extract(d, old)) - 1)..Reading(d, Extract(d, old))
    [] OTHER             -> Extract(d, new) = Extract(d, old)

LEMMA OtherIsKept ==
  ASSUME NEW u \in Units, Motor(u), NEW own, NEW st, Drivable(st), NEW base,
         base # None, StateOK(base), NEW old, Decode(Type[u], base, old).state = base,
         \A t \in Driven \ own : st[Field[t]] = base[Field[t]], NEW d, Of(u, d)
  PROVE  OtherKept(u, own, d, old, Sent(u, old, st))
<1>1. DOMAIN base = DOMAIN NoState
  BY DEF StateOK
<1>2. CASE d.type \in own
  BY <1>2 DEF OtherKept
<1>3. CASE d.type \notin own
  <2>1. d.type \in Driven => st[Field[d.type]] = base[Field[d.type]]
    BY <1>3
  <2>2. /\ d.type = "SLIDER" =>
             Reading(d, Extract(d, Sent(u, old, st))) \in
               (Reading(d, Extract(d, old)) - 1)..Reading(d, Extract(d, old))
        /\ d.type # "SLIDER" => Extract(d, Sent(u, old, st)) = Extract(d, old)
    BY <1>1, <2>1, OthersAre
  <2> QED BY <1>3, <2>2 DEF OtherKept
<1> QED BY <1>2, <1>3

\* A command that sends a whole state changes only the control it is for, if the state it
\* started from was current: nothing it merely carries along is disturbed, and a position
\* among it creeps down by at most one value (_unit.py:521-607, 640-790, cover.py:131-146).
THEOREM OthersStayKept == Spec => OthersKept
<1> DEFINE A == \A c \in Callers :
             Delivered(c) /\ call[c].packet.op = "SetState" =>
               LET u    == call[c].target.unit
                   step == Head(call[c].todo)
                   own  == IF step.type = "STATE" THEN {"SLIDER", "DIMMER"} ELSE {"ONOFF"}
               IN  Current(u, call[c].base) =>
                     \A d \in Range(Type[u].controls) :
                       LET old == Extract(d, fixture[u].bits)
                           new == Extract(d, fixture'[u].bits)
                       IN  CASE d.type \in own    -> TRUE
                             [] d.type = "SLIDER" /\ d.type \notin own ->
                                  Reading(d, new) \in (Reading(d, old) - 1)..Reading(d, old)
                             [] OTHER             -> new = old
<1>1. Typed /\ Planned /\ [Next]_vars => A
  <2> SUFFICES ASSUME Typed, Planned, [Next]_vars, NEW c \in Callers, Delivered(c),
                      call[c].packet.op = "SetState",
                      Current(call[c].target.unit, call[c].base),
                      NEW d \in Range(Type[call[c].target.unit].controls)
               PROVE  OtherKept(call[c].target.unit,
                                IF Head(call[c].todo).type = "STATE" THEN {"SLIDER", "DIMMER"}
                                ELSE {"ONOFF"},
                                d, fixture[call[c].target.unit].bits,
                                fixture'[call[c].target.unit].bits)
    BY DEF OtherKept
  <2>1. Transmit(c) /\ call[c].pc = "sending"
    BY DeliveredIs DEF Delivered
  <2>2. PICK u, own, base : /\ u = call[c].target.unit /\ base = call[c].base
                            /\ own = IF Head(call[c].todo).type = "STATE"
                                     THEN {"SLIDER", "DIMMER"} ELSE {"ONOFF"}
    OBVIOUS
  <2>3. /\ base # None
        /\ Decode(Type[u], base, fixture[u].bits).state = base
    BY <2>2 DEF Current
  <2>4. PICK st : /\ u \in Units /\ Motor(u) /\ Drivable(st) /\ StateOK(base)
                  /\ \A t \in Driven \ own : st[Field[t]] = base[Field[t]]
                  /\ call[c].target.kind = "unit"
                  /\ call[c].packet.payload = Encode(Type[u], st)
    <3>1. CASE Head(call[c].todo).type = "STATE"
      <4>1. PICK v \in Units, p \in Percents :
              \E b : Positions(call[c], v, b, p) /\ Head(call[c].todo).percent = p
        BY <2>1, <3>1, PlanOf
      <4>2. PICK b : Positions(call[c], v, b, p)
        BY <4>1
      <4>3. /\ call[c].target = Unit(v) /\ call[c].base = b
            /\ call[c].packet.payload = Encode(Type[v], MovedTo(v, b, p))
            /\ PositionControl(Type[v]) # None /\ (b # None => StateOK(b))
        BY <2>1, <4>2 DEF Positions
      <4>4. v = u /\ b = base /\ call[c].target.kind = "unit"
        BY <2>2, <4>3 DEF Unit
      <4>5. p \in 0..100
        BY AsksAssumption
      <4>6. PICK st : st = MovedTo(v, b, p)
        OBVIOUS
      <4>7. /\ Motor(v) /\ Drivable(st)
            /\ \A t \in Driven \ {"SLIDER", "DIMMER"} : st[Field[t]] = Start(b)[Field[t]]
        BY <4>3, <4>5, <4>6, MovedIs
      <4>8. Start(b) = base /\ own = {"SLIDER", "DIMMER"}
        BY <2>2, <2>3, <3>1, <4>4 DEF Start
      <4> QED BY <2>3, <4>3, <4>4, <4>6, <4>7, <4>8
    <3>2. CASE Head(call[c].todo).type # "STATE"
      <4>1. PICK v \in Units, x \in BOOLEAN : \E b : Switching(call[c], v, b, x)
        BY <2>1, <3>2, PlanOf
      <4>2. PICK b : Switching(call[c], v, b, x)
        BY <4>1
      <4>3. /\ Motor(v) /\ call[c].target.kind = "unit" /\ call[c].target.unit = v
            /\ call[c].base = b /\ (b # None => StateOK(b))
            /\ call[c].packet.payload = Encode(Type[v], Switched(b, x))
        BY <4>2 DEF Switching
      <4>4. v = u /\ b = base
        BY <2>2, <4>3
      <4>5. PICK st : st = Switched(b, x)
        OBVIOUS
      <4>6. /\ Drivable(st)
            /\ \A t \in Driven \ {"ONOFF"} : st[Field[t]] = Start(b)[Field[t]]
        BY <4>3, <4>5, SwitchedIs
      <4>7. Start(b) = base /\ own = {"ONOFF"}
        BY <2>2, <2>3, <3>2, <4>4 DEF Start
      <4> QED BY <2>3, <4>3, <4>4, <4>5, <4>6, <4>7
    <3> QED BY <3>1, <3>2
  <2>5. fixture'[u].bits = Sent(u, fixture[u].bits, st)
    BY <2>1, <2>2, <2>4, SentBits
  <2>6. Of(u, d)
    BY <2>2 DEF Of, Range
  <2>7. OtherKept(u, own, d, fixture[u].bits, Sent(u, fixture[u].bits, st))
    BY <2>3, <2>4, <2>6, OtherIsKept
  <2> QED BY <2>2, <2>5, <2>7
<1>2. A => [A]_vars
  OBVIOUS
<1> QED BY <1>1, <1>2, TypedAlways, PlannedAlways, PTL DEF Spec, OthersKept
=============================================================================

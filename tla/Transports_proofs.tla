------------------------- MODULE Transports_proofs --------------------------
(***************************************************************************)
(* Proofs about the transports, for any configurations, advertisements and *)
(* bounds: no notification handler outlives its connection, a connection   *)
(* that says it is up has its link or is about to be told otherwise, a     *)
(* disconnect leaves no link behind, and what discover lists over a proxy  *)
(* is every mesh its devices name, once.                                   *)
(***************************************************************************)
EXTENDS Transports, Sequence_proofs, FiniteSetTheorems

Raised == {"none", "ValueError", "ImportError", "BluetoothError", "Cancelled", "raw"}
Failures == {"none", "BluetoothError", "Cancelled", "raw"}
Opening == {"checking", "opening", "establishing", "scanning"}
Using == {"linking", "fetching", "gatt"}
Uses == {"notify", "read", "write", "stop"}

\* What runs where: connect and discover have the first half of the awaits, with
\* the last connection closed when it is connect; the operations have the others,
\* on a connection that is open.
Places ==
  /\ kind = "none" => n = 0 /\ pc = "idle"
  /\ pc \in Opening =>
       /\ op \in {"connect", "discover"}
       /\ op = "connect" => closed /\ n < MaxConns
  /\ pc \in Using => op \in Uses
  /\ pc \in Using \cup {"closing"} => ~closed
  /\ ~closed => n > 0
  /\ pc = "scanning" => op = "discover"
  /\ pc = "establishing" => kind = "bleak" /\ op = "connect"
  /\ pc \in {"checking", "opening", "linking", "fetching"} => Proxied
  /\ ~Proxied => link # "opening" /\ events = <<>>

\* An operation ends.
Ended == pc' = "idle" /\ op' = "none" /\ raised' \in Failures

\* It waits at another await.
Waits(o, at) == pc' = at /\ op' = o /\ raised' = raised

-----------------------------------------------------------------------------
(* What the helpers of the actions do.                                     *)

Ops == {"connect", "discover", "notify", "read", "write", "stop", "disconnect"}

LEMMA EndIs ==
  ASSUME NEW o \in Ops, NEW e \in Failures, End(o, e)
  PROVE  Ended
<1>1. Caught[o] \in Failures
  BY DEF Caught, Failures, Ops
<1> QED BY <1>1 DEF End, Ended, Failures

LEMMA GoesIs ==
  ASSUME NEW o, NEW at, Goes(o, at)
  PROVE  Waits(o, at)
BY DEF Goes, Waits

\* The connection object of connect.
Renewed ==
  /\ n' = n + 1 /\ alive' = TRUE /\ regs' = {} /\ stored' = 0
  /\ ~up' /\ up' \in BOOLEAN /\ cached' \in BOOLEAN
  /\ ~closed' /\ closed' \in BOOLEAN /\ left' = left

LEMMA NewConnectionIs ==
  ASSUME NewConnection
  PROVE  Ended /\ Renewed
<1>1. Ended
  BY EndIs DEF NewConnection, Failures, Ops
<1> QED BY <1>1 DEF NewConnection, Renewed

LEMMA HaveApiIs ==
  ASSUME NEW o, HaveApi(o)
  PROVE  \/ o = "connect" /\ Ended /\ Renewed
         \/ o # "connect" /\ Waits(o, "scanning") /\ UNCHANGED <<n, conn>>
BY NewConnectionIs, GoesIs DEF HaveApi

LEMMA GetApiIs ==
  ASSUME NEW o, GetApi(o)
  PROVE  \/ o = "connect" /\ Ended /\ Renewed
         \/ o # "connect" /\ Waits(o, "scanning") /\ UNCHANGED <<n, conn>>
         \/ Waits(o, "opening") /\ UNCHANGED <<n, conn>>
BY HaveApiIs, GoesIs DEF GetApi

LEMMA CallIs ==
  ASSUME NEW o \in Ops, Call(o)
  PROVE  \/ o = "notify" /\ alive /\ live' = live \cup {n} /\ Ended
         \/ o = "notify" /\ live' = live /\ Ended
         \/ o = "stop" /\ live' = live \ {n} /\ Ended
         \/ Waits(o, "gatt") /\ live' = live
<1>1. CASE o = "notify" /\ alive
  BY <1>1, EndIs DEF Call, Failures, Ops
<1>2. CASE o = "notify" /\ ~alive
  BY <1>2, EndIs DEF Call, Failures, Ops
<1>3. CASE o = "stop"
  BY <1>3, EndIs DEF Call, Failures, Ops
<1>4. CASE o \notin {"notify", "stop"}
  BY <1>4, GoesIs DEF Call
<1> QED BY <1>1, <1>2, <1>3, <1>4

\* What an operation does from the moment its link is there.
Proceeds(o) ==
  \/ live' \in {live, live \cup {n}, live \ {n}} /\ Ended
  \/ \E at \in {"fetching", "gatt"} : Waits(o, at) /\ live' = live

LEMMA WithServicesIs ==
  ASSUME NEW o \in Ops, WithServices(o)
  PROVE  Proceeds(o)
<1>1. CASE cached
  BY <1>1, CallIs DEF WithServices, Proceeds
<1>2. CASE ~cached
  BY <1>2, GoesIs DEF WithServices, Proceeds
<1> QED BY <1>1, <1>2

LEMMA ConfigureIs ==
  ASSUME NEW cfg, Configure(cfg)
  PROVE  /\ kind = "none"
         /\ \/ raised' \in {"ValueError", "ImportError"} /\ kind' = "none"
            \/ raised' = "none" /\ kind' \in {"bleak", "esphome", "homeassistant"}
         /\ UNCHANGED <<api, checked, pc, op, n, conn, wait, live, env, cnt, scan>>
<1> DEFINE t == IF cfg.type = "default" THEN get_transport(cfg)
                                        ELSE get_transport_by_type(cfg)
<1>1. get_transport(cfg) \in {"bleak", "esphome"}
  BY DEF get_transport
<1>2. get_transport_by_type(cfg)
        \in {"bleak", "esphome", "homeassistant", "ValueError", "ImportError"}
  BY DEF get_transport_by_type
<1>3. t \in {"bleak", "esphome", "homeassistant", "ValueError", "ImportError"}
  BY <1>1, <1>2
<1> HIDE DEF t
<1> QED BY <1>3 DEF Configure, t

-----------------------------------------------------------------------------
(* What the steps of the user's task are, whichever transport it uses.     *)

\* Of connect or discover.
OpeningStep(o) ==
  /\ pc = "idle" \/ (pc \in Opening /\ op = o)
  /\ o \in {"connect", "discover"} /\ kind # "none"
  /\ o = "connect" => closed /\ n < MaxConns
  /\ api' \in BOOLEAN /\ checked' \in BOOLEAN
  /\ UNCHANGED <<kind, wait, events, cnt>>
  /\ \/ Ended /\ UNCHANGED <<n, conn, live, link>>
     \/ o = "connect" /\ Ended /\ Renewed /\ Proxied /\ UNCHANGED <<live, link>>
     \/ o = "connect" /\ Ended /\ Renewed /\ kind = "bleak" /\ live' = {} /\ link' = "up"
     \/ \E at \in Opening :
          /\ Waits(o, at) /\ UNCHANGED <<n, conn, live, link>>
          /\ at = "scanning" => o = "discover"
          /\ at = "establishing" => kind = "bleak" /\ o = "connect"
          /\ at \in {"checking", "opening"} => Proxied

LEMMA GetApiOpens ==
  ASSUME NEW o \in {"connect", "discover"}, GetApi(o) \/ HaveApi(o), Proxied, UNCHANGED <<live, link>>
  PROVE  \/ o = "connect" /\ Ended /\ Renewed /\ Proxied /\ UNCHANGED <<live, link>>
         \/ \E at \in Opening :
              /\ Waits(o, at) /\ UNCHANGED <<n, conn, live, link>>
              /\ at = "scanning" => o = "discover"
              /\ at = "establishing" => kind = "bleak" /\ o = "connect"
              /\ at \in {"checking", "opening"} => Proxied
<1>1. CASE o = "connect" /\ Ended /\ Renewed
  BY <1>1
<1>2. CASE o # "connect" /\ Waits(o, "scanning") /\ UNCHANGED <<n, conn>>
  BY <1>2 DEF Opening
<1>3. CASE Waits(o, "opening") /\ UNCHANGED <<n, conn>>
  BY <1>3 DEF Opening
<1> QED BY <1>1, <1>2, <1>3, GetApiIs, HaveApiIs

LEMMA BeginIs ==
  ASSUME TypeOK, NEW o \in {"connect", "discover"}, Begin(o)
  PROVE  OpeningStep(o)
<1>1. /\ pc = "idle" /\ kind # "none" /\ (o = "connect" => closed /\ n < MaxConns)
      /\ UNCHANGED <<kind, wait, live, env, cnt>> /\ UNCHANGED <<api, checked>>
  BY DEF Begin, sel
<1>2. api \in BOOLEAN /\ checked \in BOOLEAN /\ UNCHANGED <<live, link, events>>
  BY <1>1 DEF TypeOK, env
<1>3. CASE kind = "bleak"
  <2>1. /\ Waits(o, IF o = "connect" THEN "establishing" ELSE "scanning")
        /\ UNCHANGED <<n, conn>>
    BY <1>3, GoesIs DEF Begin
  <2>2. CASE o = "connect"
    BY <1>1, <1>2, <1>3, <2>1, <2>2 DEF OpeningStep, Opening
  <2>3. CASE o # "connect"
    BY <1>1, <1>2, <1>3, <2>1, <2>3 DEF OpeningStep, Opening
  <2> QED BY <2>2, <2>3
<1>4. CASE kind = "homeassistant" /\ ~checked
  <2>1. Waits(o, "checking") /\ UNCHANGED <<n, conn>>
    BY <1>4, GoesIs DEF Begin
  <2> QED BY <1>1, <1>2, <1>4, <2>1 DEF OpeningStep, Opening, Proxied
<1>5. CASE Proxied /\ (kind = "homeassistant" => checked)
  <2>1. GetApi(o)
    BY <1>5 DEF Begin, Proxied
  <2> HIDE DEF Proxied
  <2> QED BY <1>1, <1>2, <1>5, <2>1, GetApiOpens DEF OpeningStep
<1>6. kind = "bleak" \/ Proxied
  BY <1>1 DEF TypeOK, Proxied
<1> QED BY <1>3, <1>4, <1>5, <1>6

LEMMA CheckedIs ==
  ASSUME TypeOK, Places, NEW ok, Checked(ok)
  PROVE  OpeningStep(op)
<1>1. /\ pc = "checking" /\ pc \in Opening /\ op \in {"connect", "discover"} /\ Proxied
      /\ (op = "connect" => closed /\ n < MaxConns) /\ kind # "none"
  BY DEF Checked, Places, Opening, Proxied
<1>2. UNCHANGED <<kind, wait, live, link, events, cnt>> /\ api' \in BOOLEAN
  BY DEF Checked, env, TypeOK
<1>3. CASE ok
  BY <1>1, <1>2, <1>3, GetApiOpens DEF Checked, OpeningStep
<1>4. CASE ~ok
  <2>1. Ended /\ UNCHANGED <<checked, n, conn>>
    BY <1>1, <1>4, EndIs DEF Checked, Failures, Ops
  <2> QED BY <1>1, <1>2, <2>1 DEF OpeningStep, TypeOK
<1> QED BY <1>3, <1>4

LEMMA OpenedIs ==
  ASSUME TypeOK, Places, NEW ok, Opened(ok)
  PROVE  OpeningStep(op)
<1>1. /\ pc = "opening" /\ pc \in Opening /\ op \in {"connect", "discover"} /\ Proxied
      /\ (op = "connect" => closed /\ n < MaxConns) /\ kind # "none"
  BY DEF Opened, Places, Opening, Proxied
<1>2. UNCHANGED <<kind, wait, live, link, events, cnt>> /\ checked' \in BOOLEAN
  BY DEF Opened, env, TypeOK
<1>3. CASE ok
  BY <1>1, <1>2, <1>3, GetApiOpens DEF Opened, OpeningStep
<1>4. CASE ~ok
  <2>1. Ended /\ UNCHANGED <<api, n, conn>>
    BY <1>1, <1>4, EndIs DEF Opened, Failures, Ops
  <2> QED BY <1>1, <1>2, <2>1 DEF OpeningStep, TypeOK
<1> QED BY <1>3, <1>4

LEMMA EstablishIs ==
  ASSUME TypeOK, Places, NEW ok, Establish(ok)
  PROVE  OpeningStep(op)
<1>1. /\ pc = "establishing" /\ pc \in Opening /\ op \in {"connect", "discover"}
      /\ closed /\ n < MaxConns /\ kind = "bleak" /\ op = "connect"
  BY DEF Establish, Places, Opening
<1>2. UNCHANGED <<kind, wait, events, cnt>> /\ api' \in BOOLEAN /\ checked' \in BOOLEAN
  BY DEF Establish, sel, TypeOK
<1>3. CASE ok
  BY <1>1, <1>2, <1>3, NewConnectionIs DEF Establish, OpeningStep
<1>4. CASE ~ok
  <2>1. Ended /\ UNCHANGED <<n, conn, link, live>>
    BY <1>1, <1>4, EndIs DEF Establish, Failures, Ops
  <2> QED BY <1>1, <1>2, <2>1 DEF OpeningStep
<1> QED BY <1>3, <1>4

LEMMA ScanEndsIs ==
  ASSUME TypeOK, Places, ScanFails \/ \E advs \in Scans : Scanned(advs)
  PROVE  OpeningStep(op)
<1>1. pc = "scanning" /\ UNCHANGED <<sel, n, conn, wait, live, env, cnt>>
      /\ (End(op, "none") \/ End(op, "BluetoothError") \/ End(op, "raw"))
  BY DEF ScanFails, Scanned
<1>2. Ended
  <2>1. op \in Ops
    BY <1>1 DEF Places, Ops
  <2> QED BY <1>1, <2>1, EndIs DEF Failures
<1>3. /\ pc \in Opening /\ op \in {"connect", "discover"} /\ kind # "none"
      /\ (op = "connect" => closed /\ n < MaxConns)
  BY <1>1 DEF Places, Opening
<1>4. /\ UNCHANGED <<kind, wait, events, link, live, cnt>>
      /\ api' \in BOOLEAN /\ checked' \in BOOLEAN
  BY <1>1 DEF sel, env, TypeOK
<1> QED BY <1>1, <1>2, <1>3, <1>4 DEF OpeningStep

\* The wait for a link: begun, over with the link there, given up.
Asks(o) ==
  /\ pc = "idle" /\ Waits(o, "linking") /\ Proxied /\ alive /\ ~up /\ links < MaxLinks
  /\ links' = links + 1 /\ regs' = regs \cup {links + 1}
  /\ waiting' = links + 1 /\ complete' = FALSE /\ stored' = stored /\ left' = left
  /\ \/ link = "up" /\ link' = "up" /\ events' = Append(events, "up")
     \/ link # "up" /\ link' = "opening" /\ events' = events

LinkMade ==
  /\ pc = "linking" /\ complete /\ up /\ pc' # "linking"
  /\ stored' = waiting /\ waiting' = 0 /\ complete' = FALSE
  /\ UNCHANGED <<regs, links, left, env>>

GivenUp ==
  /\ pc = "linking" /\ Ended
  /\ \/ complete /\ ~up /\ complete' = FALSE /\ left' = left
     \/ ~complete /\ complete' = complete /\ left' = TRUE
  /\ regs' = regs \ {waiting} /\ waiting' = 0
  /\ UNCHANGED <<stored, links, env>>

NoLink == /\ pc # "linking" /\ pc' # "linking"
          /\ UNCHANGED <<regs, stored, wait, links, left, env>>

\* Of an operation on the connection.
UsingStep(o) ==
  /\ pc = "idle" \/ (pc \in Using /\ op = o)
  /\ o \in Uses /\ kind # "none" /\ ~closed /\ n > 0
  /\ live' \in {live, live \cup {n}, live \ {n}} /\ cached' \in BOOLEAN
  /\ UNCHANGED <<sel, n, up, alive, closed, drops, cancels>>
  /\ \/ Ended
     \/ \E at \in Using : Waits(o, at) /\ (at # "gatt" => Proxied)
  /\ NoLink \/ Asks(o) \/ LinkMade \/ GivenUp

LEMMA ProceedsIs ==
  ASSUME NEW o, Proceeds(o), Proxied
  PROVE  /\ live' \in {live, live \cup {n}, live \ {n}}
         /\ \/ Ended
            \/ \E at \in Using : Waits(o, at) /\ (at # "gatt" => Proxied)
         /\ pc' # "linking"
BY DEF Proceeds, Ended, Waits, Using

LEMMA ConnectIs ==
  ASSUME TypeOK, NEW o \in Uses, _connect(o), links < MaxLinks, Proxied, ~up, pc = "idle",
         UNCHANGED <<live, stored, left>>
  PROVE  /\ Ended \/ Waits(o, "linking")
         /\ Asks(o) \/ NoLink
<1>1. CASE alive
  BY <1>1, GoesIs DEF _connect, Asks, TypeOK
<1>2. CASE ~alive
  <2>1. Ended /\ UNCHANGED <<links, regs, wait, env>>
    BY <1>2, EndIs DEF _connect, Failures, Ops, Uses
  <2> QED BY <2>1 DEF NoLink, Ended
<1> QED BY <1>1, <1>2

LEMMA BeginGattIs ==
  ASSUME TypeOK, Places, NEW o \in Uses, BeginGatt(o)
  PROVE  UsingStep(o)
<1>1. /\ pc = "idle" /\ ~closed /\ n > 0 /\ kind # "none" /\ cached' \in BOOLEAN
      /\ UNCHANGED <<sel, n, up, alive, closed, drops, cancels>> /\ stored' = stored /\ left' = left
  BY DEF BeginGatt, Places, TypeOK
<1>2. CASE kind = "bleak"
  <2>1. UNCHANGED <<live, links, regs, wait, env>>
    BY <1>2 DEF BeginGatt
  <2>2. Ended \/ Waits(o, "gatt")
    <3>1. CASE link = "up"
      BY <1>2, <3>1, GoesIs DEF BeginGatt
    <3>2. CASE link # "up"
      <4>1. End(o, "none") \/ End(o, "BluetoothError")
        BY <1>2, <3>2 DEF BeginGatt
      <4> QED BY <4>1, EndIs DEF Failures, Ops, Uses
    <3> QED BY <3>1, <3>2
  <2>3. NoLink
    BY <1>1, <2>1, <2>2 DEF NoLink, Ended, Waits
  <2>4. \/ Ended
        \/ \E at \in Using : Waits(o, at) /\ (at # "gatt" => Proxied)
    BY <2>2 DEF Using
  <2> QED BY <1>1, <2>1, <2>3, <2>4 DEF UsingStep
<1>3. CASE kind # "bleak"
  <2>1. Proxied
    BY <1>1, <1>3 DEF Proxied, TypeOK
  <2>2. CASE up /\ WithServices(o) /\ UNCHANGED <<links, regs, wait, env>>
    <3>1. /\ live' \in {live, live \cup {n}, live \ {n}}
          /\ \/ Ended
             \/ \E at \in Using : Waits(o, at) /\ (at # "gatt" => Proxied)
          /\ pc' # "linking"
      BY <2>1, <2>2, WithServicesIs, ProceedsIs DEF Ops, Uses
    <3>2. NoLink
      BY <1>1, <2>2, <3>1 DEF NoLink
    <3> QED BY <1>1, <3>1, <3>2 DEF UsingStep
  <2>3. CASE ~up /\ o = "stop" /\ End(o, "none") /\ UNCHANGED <<live, links, regs, wait, env>>
    <3>1. Ended
      BY <2>3, EndIs DEF Failures, Ops
    <3>2. NoLink
      BY <1>1, <2>3, <3>1 DEF NoLink, Ended
    <3> QED BY <1>1, <2>3, <3>1, <3>2 DEF UsingStep
  <2>4. CASE ~up /\ o # "stop" /\ links < MaxLinks /\ _connect(o) /\ UNCHANGED live
    <3>1. /\ Ended \/ Waits(o, "linking")
          /\ Asks(o) \/ NoLink
      BY <1>1, <2>1, <2>4, ConnectIs
    <3>2. \/ Ended
          \/ \E at \in Using : Waits(o, at) /\ (at # "gatt" => Proxied)
      BY <2>1, <3>1 DEF Using
    <3> QED BY <1>1, <2>4, <3>1, <3>2 DEF UsingStep
  <2> QED BY <1>3, <2>2, <2>3, <2>4 DEF BeginGatt
<1> QED BY <1>2, <1>3

LEMMA LinkedIs ==
  ASSUME TypeOK, Places, Linked
  PROVE  UsingStep(op)
<1>1. /\ pc = "linking" /\ complete /\ waiting' = 0 /\ complete' = FALSE
      /\ UNCHANGED <<sel, n, up, cached, alive, closed, left, env, cnt>>
  BY DEF Linked
<1>2. /\ pc \in Using /\ op \in Uses /\ ~closed /\ n > 0 /\ Proxied /\ kind # "none"
      /\ cached' \in BOOLEAN
      /\ UNCHANGED <<links, drops, cancels>>
  BY <1>1 DEF Places, Using, Proxied, TypeOK, cnt
<1>3. CASE up
  <2>1. stored' = waiting /\ WithServices(op) /\ UNCHANGED regs
    BY <1>3 DEF Linked
  <2>2. /\ live' \in {live, live \cup {n}, live \ {n}}
        /\ \/ Ended
           \/ \E at \in Using : Waits(op, at) /\ (at # "gatt" => Proxied)
        /\ pc' # "linking"
    BY <1>2, <2>1, WithServicesIs, ProceedsIs DEF Ops, Uses
  <2>3. LinkMade
    BY <1>1, <1>2, <1>3, <2>1, <2>2 DEF LinkMade
  <2> QED BY <1>1, <1>2, <2>2, <2>3 DEF UsingStep
<1>4. CASE ~up
  <2>1. regs' = regs \ {waiting} /\ Ended /\ UNCHANGED <<stored, live>>
    BY <1>2, <1>4, EndIs DEF Linked, Failures, Ops, Uses
  <2>2. GivenUp
    BY <1>1, <1>2, <1>4, <2>1 DEF GivenUp
  <2> QED BY <1>1, <1>2, <2>1, <2>2 DEF UsingStep
<1> QED BY <1>3, <1>4

LEMMA LinkTimeoutIs ==
  ASSUME TypeOK, Places, LinkTimeout
  PROVE  UsingStep(op)
<1>1. /\ pc = "linking" /\ ~complete /\ waiting' = 0 /\ regs' = regs \ {waiting}
      /\ complete' = complete
      /\ UNCHANGED <<sel, n, up, cached, alive, stored, closed, live, env, cnt>> /\ left' = TRUE
  BY DEF LinkTimeout
<1>2. /\ pc \in Using /\ op \in Uses /\ ~closed /\ n > 0 /\ kind # "none"
      /\ cached' \in BOOLEAN
      /\ UNCHANGED <<links, drops, cancels>>
  BY <1>1 DEF Places, Using, Proxied, TypeOK, cnt
<1>3. Ended
  BY <1>2, EndIs DEF LinkTimeout, Failures, Ops, Uses
<1>4. GivenUp
  BY <1>1, <1>2, <1>3 DEF GivenUp
<1> QED BY <1>1, <1>2, <1>3, <1>4 DEF UsingStep

LEMMA FetchedIs ==
  ASSUME TypeOK, Places, NEW ok \in BOOLEAN, Fetched(ok)
  PROVE  UsingStep(op)
<1>1. /\ pc = "fetching"
      /\ UNCHANGED <<sel, n, up, alive, regs, stored, closed, left, wait, env, cnt>>
  BY DEF Fetched
<1>2. /\ pc \in Using /\ op \in Uses /\ ~closed /\ n > 0 /\ Proxied /\ kind # "none"
      /\ UNCHANGED <<links, drops, cancels>>
  BY <1>1 DEF Places, Using, Proxied, TypeOK, cnt
<1>3. CASE ok
  <2>1. cached' = TRUE /\ Call(op)
    BY <1>3 DEF Fetched
  <2>2. Proceeds(op)
    BY <1>2, <2>1, CallIs DEF Proceeds, Ops, Uses
  <2>3. /\ live' \in {live, live \cup {n}, live \ {n}}
        /\ \/ Ended
           \/ \E at \in Using : Waits(op, at) /\ (at # "gatt" => Proxied)
        /\ pc' # "linking"
    BY <1>2, <2>2, ProceedsIs
  <2>4. NoLink
    BY <1>1, <1>2, <2>3 DEF NoLink
  <2> QED BY <1>1, <1>2, <2>1, <2>3, <2>4 DEF UsingStep
<1>4. CASE ~ok
  <2>1. Ended /\ UNCHANGED <<cached, live>>
    BY <1>2, <1>4, EndIs DEF Fetched, Failures, Ops, Uses
  <2>2. NoLink
    BY <1>1, <1>2, <2>1 DEF NoLink, Ended
  <2>3. cached' \in BOOLEAN
    BY <2>1 DEF TypeOK
  <2> QED BY <1>1, <1>2, <2>1, <2>2, <2>3 DEF UsingStep
<1> QED BY <1>3, <1>4

LEMMA GattEndsIs ==
  ASSUME TypeOK, Places, NEW ok \in BOOLEAN, GattEnds(ok)
  PROVE  UsingStep(op)
<1>1. /\ pc = "gatt" /\ live' \in {live, live \cup {n}, live \ {n}}
      /\ UNCHANGED <<sel, n, conn, wait, env, cnt>>
  BY DEF GattEnds
<1>2. /\ pc \in Using /\ op \in Uses /\ ~closed /\ n > 0 /\ kind # "none"
      /\ UNCHANGED <<links, drops, cancels, regs, stored, up, alive, closed, left>>
      /\ cached' \in BOOLEAN
  BY <1>1 DEF Places, Using, Proxied, TypeOK, cnt, conn
<1>3. Ended
  BY <1>2, EndIs DEF GattEnds, Failures, Ops, Uses
<1>4. NoLink
  BY <1>1, <1>2, <1>3 DEF NoLink, Ended
<1> QED BY <1>1, <1>2, <1>3, <1>4 DEF UsingStep

\* Of disconnect, to its await or to its end.
ClosingStep ==
  /\ pc \in {"idle", "closing"} /\ ~closed /\ kind # "none"
  /\ UNCHANGED <<sel, n, cached, alive, stored, wait, events, cnt>>
  /\ \/ Waits("disconnect", "closing") /\ UNCHANGED <<regs, live, closed, link, up, left>>
     \/ /\ closed' = TRUE /\ Ended /\ regs' \in {regs, regs \ {stored}}
        /\ \/ link' = link /\ up' = up /\ left' = left /\ ~is_connected
           \/ link' = link /\ up' = up /\ left' = TRUE
           \/ link' = "down" /\ up' = FALSE /\ left' = FALSE /\ events = <<>>
        /\ live' = live \ {n} \/ (live' = live /\ kind = "bleak" /\ link' # "down")

LEMMA TidyIs ==
  ASSUME Tidy
  PROVE  /\ closed' = TRUE /\ Ended /\ regs' \in {regs, regs \ {stored}}
         /\ live' = live \ {n} \/ (live' = live /\ kind = "bleak" /\ link' # "down")
BY EndIs DEF Tidy, Failures, Ops

LEMMA BeginCloseIs ==
  ASSUME TypeOK, Places, BeginClose
  PROVE  ClosingStep
<1>1. /\ pc = "idle" /\ ~closed /\ kind # "none"
      /\ UNCHANGED <<sel, n, up, cached, alive, stored, left, wait, events, cnt>>
  BY DEF BeginClose, Places, TypeOK
<1>2. CASE is_connected
  <2>1. Waits("disconnect", "closing") /\ UNCHANGED <<regs, live, closed, link>>
    BY <1>2, GoesIs DEF BeginClose
  <2> QED BY <1>1, <2>1 DEF ClosingStep
<1>3. CASE ~is_connected
  <2>1. link' = link /\ Tidy
    BY <1>3 DEF BeginClose
  <2>2. /\ closed' = TRUE /\ Ended /\ regs' \in {regs, regs \ {stored}}
        /\ live' = live \ {n} \/ (live' = live /\ kind = "bleak" /\ link' # "down")
    BY <2>1, TidyIs
  <2> QED BY <1>1, <1>3, <2>1, <2>2 DEF ClosingStep
<1> QED BY <1>2, <1>3

LEMMA ClosesIs ==
  ASSUME TypeOK, Places, NEW ok \in BOOLEAN, Closes(ok)
  PROVE  ClosingStep
<1>1. /\ pc = "closing" /\ UNCHANGED <<sel, n, cached, alive, stored, wait, events, cnt>>
      /\ Tidy
  BY DEF Closes
<1>2. \/ link' = link /\ up' = up /\ left' = TRUE
      \/ link' = "down" /\ up' = FALSE /\ left' = FALSE /\ events = <<>>
  BY DEF Closes, TypeOK
<1>3. ~closed /\ kind # "none"
  BY <1>1 DEF Places
<1> QED BY <1>1, <1>2, <1>3, TidyIs DEF ClosingStep

LEMMA CancelIs ==
  ASSUME TypeOK, Cancel
  PROVE  /\ Ended /\ waiting' = 0 /\ complete' = FALSE
         /\ cancels < MaxCancels /\ cancels' = cancels + 1
         /\ left' = (left \/ pc = "linking")
         /\ UNCHANGED <<sel, n, up, cached, alive, regs, stored, closed, live, env, links, drops>>
<1>1. op \in Ops
  BY DEF Cancel, TypeOK, Ops
<1> QED BY <1>1, EndIs DEF Cancel, Failures

-----------------------------------------------------------------------------
(* The invariant.                                                          *)

\* News of the link: what is last on its way to the connection is how the link
\* is; a connection that says it is up is still registered to hear otherwise; one
\* that waits for its link is registered, and not up before it is told.
News ==
  /\ events # <<>> /\ events[Len(events)] = "up" => link = "up"
  /\ Proxied /\ up /\ alive /\ ~closed => regs # {}
  /\ pc = "linking" /\ alive => waiting \in regs /\ (complete \/ ~up)

Faults == kind # "none" => raised \in Failures

Inv == TypeOK /\ Places /\ News /\ UpIsUp /\ NoStray /\ Faults

\* What is not the task's: the proxy, the radio, and a Cancel.
Outer == \/ \E cfg \in Configs : Configure(cfg)
         \/ \E ok \in BOOLEAN : ProxyLinks(ok)
         \/ Deliver \/ LinkDrops \/ ApiDrops \/ Cancel

LEMMA NextIs ==
  ASSUME TypeOK, Places, Next
  PROVE  \/ \E o \in {"connect", "discover"} : OpeningStep(o)
         \/ \E o \in Uses : UsingStep(o)
         \/ ClosingStep
         \/ Outer
<1>1. ASSUME NEW o \in {"connect", "discover"}, Begin(o)
      PROVE  OpeningStep(o)
  BY <1>1, BeginIs
<1>2. ASSUME NEW o \in {"notify", "read", "write", "stop"}, BeginGatt(o)
      PROVE  o \in Uses /\ UsingStep(o)
  BY <1>2, BeginGattIs DEF Uses
<1>3. ASSUME NEW ok \in BOOLEAN, Checked(ok) \/ Opened(ok) \/ Establish(ok)
      PROVE  OpeningStep(op)
  BY <1>3, CheckedIs, OpenedIs, EstablishIs
<1>4. ASSUME NEW ok \in BOOLEAN, Fetched(ok) \/ GattEnds(ok)
      PROVE  UsingStep(op)
  BY <1>4, FetchedIs, GattEndsIs
<1>5. ASSUME NEW ok \in BOOLEAN, Closes(ok)
      PROVE  ClosingStep
  BY <1>5, ClosesIs
<1>6. (ScanFails \/ \E advs \in Scans : Scanned(advs)) => OpeningStep(op)
  BY ScanEndsIs
<1>7. (Linked \/ LinkTimeout) => UsingStep(op)
  BY LinkedIs, LinkTimeoutIs
<1>8. BeginClose => ClosingStep
  BY BeginCloseIs
<1>9. ASSUME NEW o, OpeningStep(o)
      PROVE  o \in {"connect", "discover"}
  BY <1>9 DEF OpeningStep
<1>10. ASSUME NEW o, UsingStep(o)
       PROVE  o \in Uses
  BY <1>10 DEF UsingStep
<1> QED
  BY <1>1, <1>2, <1>3, <1>4, <1>5, <1>6, <1>7, <1>8, <1>9, <1>10 DEF Next, Ends, Outer

LEMMA OpeningKeeps ==
  ASSUME Inv, NEW o \in {"connect", "discover"}, OpeningStep(o)
  PROVE  Inv'
<1>1. TypeOK /\ Places /\ News /\ UpIsUp /\ NoStray /\ Faults
  BY DEF Inv
<1>2. /\ o \in {"connect", "discover"} /\ kind # "none" /\ (o = "connect" => closed /\ n < MaxConns)
      /\ api' \in BOOLEAN /\ checked' \in BOOLEAN
      /\ UNCHANGED <<kind, waiting, complete, events, links, drops, cancels>>
  BY DEF OpeningStep, wait, cnt
<1>3. CASE Ended /\ UNCHANGED <<n, conn, live, link>>
  <2>1. /\ pc' = "idle" /\ op' = "none" /\ raised' \in Failures
        /\ UNCHANGED <<n, up, cached, alive, regs, stored, closed, left, live, link>>
    BY <1>3 DEF Ended, conn
  <2>2. TypeOK'
    BY <1>1, <1>2, <2>1 DEF TypeOK, Failures
  <2>3. Places' /\ News'
    BY <1>1, <1>2, <2>1 DEF Places, News, Opening, Using, Proxied
  <2>4. UpIsUp' /\ NoStray'
    BY <1>1, <1>2, <2>1 DEF UpIsUp, NoStray, is_connected
  <2>5. Faults'
    BY <1>1, <1>2, <2>1 DEF Faults, Failures
  <2> QED BY <2>2, <2>3, <2>4, <2>5 DEF Inv
<1>4. CASE o = "connect" /\ Ended /\ Renewed
           /\ \/ Proxied /\ UNCHANGED <<live, link>>
              \/ kind = "bleak" /\ live' = {} /\ link' = "up"
  <2>1. /\ pc' = "idle" /\ op' = "none" /\ raised' \in Failures
        /\ n' = n + 1 /\ alive' = TRUE /\ regs' = {} /\ stored' = 0
        /\ ~up' /\ up' \in BOOLEAN /\ cached' \in BOOLEAN
        /\ ~closed' /\ closed' \in BOOLEAN /\ left' = left
    BY <1>4 DEF Ended, Renewed
  <2>2. /\ n \in Nat /\ n + 1 \in 0..MaxConns /\ live \subseteq 1..n
        /\ link' \in {"down", "opening", "up"}
    BY <1>1, <1>2, <1>4, BoundsAssumption DEF TypeOK
  <2>3. live' = {}
    BY <1>1, <1>2, <1>4 DEF NoStray, Proxied
  <2>4. TypeOK'
    BY <1>1, <1>2, <2>1, <2>2, <2>3 DEF TypeOK, Failures
  <2>5. Places' /\ News'
    BY <1>1, <1>2, <1>4, <2>1, <2>2 DEF Places, News, Opening, Using, Proxied
  <2>6. UpIsUp' /\ NoStray'
    BY <1>1, <1>2, <1>4, <2>1, <2>3 DEF UpIsUp, NoStray, is_connected, Proxied
  <2>7. Faults'
    BY <1>1, <1>2, <2>1 DEF Faults, Failures
  <2> QED BY <2>4, <2>5, <2>6, <2>7 DEF Inv
<1>5. ASSUME NEW at \in Opening,
             Waits(o, at) /\ UNCHANGED <<n, conn, live, link>>,
             at = "scanning" => o = "discover",
             at = "establishing" => kind = "bleak" /\ o = "connect",
             at \in {"checking", "opening"} => Proxied
      PROVE  Inv'
  <2>1. /\ pc' = at /\ op' = o /\ raised' = raised
        /\ UNCHANGED <<n, up, cached, alive, regs, stored, closed, left, live, link>>
    BY <1>5 DEF Waits, conn
  <2>2. TypeOK'
    BY <1>1, <1>2, <2>1 DEF TypeOK, Opening
  <2>3. Places' /\ News'
    BY <1>1, <1>2, <1>5, <2>1 DEF Places, News, Opening, Using, Proxied
  <2>4. UpIsUp' /\ NoStray'
    BY <1>1, <1>2, <2>1 DEF UpIsUp, NoStray, is_connected
  <2>5. Faults'
    BY <1>1, <1>2, <2>1 DEF Faults
  <2> QED BY <2>2, <2>3, <2>4, <2>5 DEF Inv
<1> QED BY <1>3, <1>4, <1>5 DEF OpeningStep

LEMMA UsingKeeps ==
  ASSUME Inv, NEW o \in Uses, UsingStep(o)
  PROVE  Inv'
<1>1. TypeOK /\ Places /\ News /\ UpIsUp /\ NoStray /\ Faults
  BY DEF Inv
<1>2. /\ kind # "none" /\ ~closed /\ n > 0 /\ cached' \in BOOLEAN
      /\ live' \in {live, live \cup {n}, live \ {n}}
      /\ UNCHANGED <<kind, api, checked, n, up, alive, closed, drops, cancels>>
  BY DEF UsingStep, sel
<1>3. \/ /\ pc' = "idle" /\ op' = "none" /\ raised' \in Failures
       \/ /\ pc' \in Using /\ op' = o /\ raised' = raised /\ (pc' # "gatt" => Proxied)
  BY DEF UsingStep, Ended, Waits
<1>4. NoLink \/ Asks(o) \/ LinkMade \/ GivenUp
  BY DEF UsingStep
<1>5. live' \subseteq {n} /\ live' \subseteq 1..n
  BY <1>1, <1>2 DEF NoStray, TypeOK
<1>t. /\ regs \subseteq 1..links /\ stored \in 0..links /\ waiting \in 0..links
      /\ link \in {"down", "opening", "up"} /\ events \in Seq({"up", "down"})
      /\ links \in 0..MaxLinks /\ MaxLinks \in Nat /\ complete \in BOOLEAN
  BY <1>1, BoundsAssumption DEF TypeOK
<1>6a. complete' \in BOOLEAN /\ left' \in BOOLEAN
  <2>1. left \in BOOLEAN
    BY <1>1 DEF TypeOK
  <2> QED BY <1>4, <1>t, <2>1 DEF NoLink, Asks, LinkMade, GivenUp, wait
<1>6b. /\ regs' \subseteq 1..links' /\ stored' \in 0..links' /\ waiting' \in 0..links'
       /\ link' \in {"down", "opening", "up"}
       /\ events' \in Seq({"up", "down"}) /\ links' \in 0..MaxLinks
  <2>1. CASE NoLink
    BY <1>t, <2>1 DEF NoLink, wait, env
  <2>2. CASE Asks(o)
    <3>1. /\ links' = links + 1 /\ regs' = regs \cup {links + 1} /\ links < MaxLinks
          /\ waiting' = links + 1 /\ stored' = stored
          /\ \/ link' = "up" /\ events' = Append(events, "up")
             \/ link' = "opening" /\ events' = events
      BY <2>2 DEF Asks
    <3> QED BY <1>t, <3>1
  <2>3. CASE LinkMade
    BY <1>t, <2>3 DEF LinkMade, env
  <2>4. CASE GivenUp
    BY <1>t, <2>4 DEF GivenUp, env
  <2> QED BY <1>4, <2>1, <2>2, <2>3, <2>4
<1>6. /\ regs' \subseteq 1..links' /\ stored' \in 0..links' /\ waiting' \in 0..links'
      /\ complete' \in BOOLEAN /\ left' \in BOOLEAN /\ link' \in {"down", "opening", "up"}
      /\ events' \in Seq({"up", "down"}) /\ links' \in 0..MaxLinks
  BY <1>6a, <1>6b
<1>7. TypeOK'
  BY <1>1, <1>2, <1>3, <1>5, <1>6 DEF TypeOK, Failures, Using, Uses
<1>8. ~Proxied => link' = link /\ events' = events
  BY <1>4 DEF NoLink, Asks, LinkMade, GivenUp, env
<1>9. Places'
  BY <1>1, <1>2, <1>3, <1>8 DEF Places, Opening, Using, Proxied
<1>10. News' /\ UpIsUp'
  <2>1. CASE NoLink
    BY <1>1, <1>2, <2>1 DEF NoLink, News, UpIsUp, is_connected, Proxied, wait, env
  <2>2. CASE Asks(o)
    <3>1. /\ ~up' /\ kind' # "bleak" /\ waiting' \in regs'
      BY <1>2, <2>2 DEF Asks, Proxied
    <3>2. events' # <<>> /\ events'[Len(events')] = "up" => link' = "up"
      <4>1. CASE link = "up" /\ link' = "up"
        BY <4>1
      <4>2. CASE link # "up" /\ events' = events
        BY <1>1, <4>2 DEF News
      <4> QED BY <2>2, <4>1, <4>2 DEF Asks
    <3> QED BY <3>1, <3>2 DEF News, UpIsUp, is_connected
  <2>3. CASE LinkMade
    BY <1>1, <1>2, <2>3 DEF LinkMade, News, UpIsUp, is_connected, Proxied, env
  <2>4. CASE GivenUp
    <3>1. pc' = "idle" /\ (alive => ~up)
      BY <1>1, <2>4 DEF GivenUp, News, Ended
    <3> QED BY <1>1, <1>2, <2>4, <3>1 DEF GivenUp, News, UpIsUp, is_connected, Proxied, env
  <2> QED BY <1>4, <2>1, <2>2, <2>3, <2>4
<1>11. NoStray'
  BY <1>2, <1>5 DEF NoStray
<1>12. Faults'
  BY <1>1, <1>2, <1>3 DEF Faults, Failures
<1> QED BY <1>7, <1>9, <1>10, <1>11, <1>12 DEF Inv

LEMMA ClosingKeeps ==
  ASSUME Inv, ClosingStep
  PROVE  Inv'
<1>1. TypeOK /\ Places /\ News /\ UpIsUp /\ NoStray /\ Faults
  BY DEF Inv
<1>2. /\ ~closed /\ kind # "none"
      /\ UNCHANGED <<kind, api, checked, n, cached, alive, stored, waiting, complete,
                    events, links, drops, cancels>>
  BY DEF ClosingStep, sel, wait, cnt
<1>3. CASE Waits("disconnect", "closing") /\ UNCHANGED <<regs, live, closed, link, up, left>>
  <2>1. pc' = "closing" /\ op' = "disconnect" /\ raised' = raised
    BY <1>3 DEF Waits
  <2>2. TypeOK'
    BY <1>1, <1>2, <1>3, <2>1 DEF TypeOK
  <2>3. Places' /\ News'
    BY <1>1, <1>2, <1>3, <2>1 DEF Places, News, Opening, Using, Proxied
  <2>4. UpIsUp' /\ NoStray' /\ Faults'
    BY <1>1, <1>2, <1>3, <2>1 DEF UpIsUp, NoStray, Faults, is_connected
  <2> QED BY <2>2, <2>3, <2>4 DEF Inv
<1>4. CASE /\ closed' = TRUE /\ Ended /\ regs' \in {regs, regs \ {stored}}
           /\ \/ link' = link /\ up' = up /\ left' \in {left, TRUE}
              \/ link' = "down" /\ up' = FALSE /\ left' = FALSE /\ events = <<>>
           /\ live' = live \ {n} \/ (live' = live /\ kind = "bleak" /\ link' # "down")
  <2>1. /\ pc' = "idle" /\ op' = "none" /\ raised' \in Failures
    BY <1>4 DEF Ended
  <2>a. up' \in BOOLEAN /\ left' \in BOOLEAN /\ link' \in {"down", "opening", "up"}
    BY <1>1, <1>4 DEF TypeOK
  <2>b. /\ \A b \in {up', cached', alive', closed', left', complete'} : b \in BOOLEAN
        /\ live' \subseteq 1..n' /\ regs' \subseteq 1..links'
    BY <1>1, <1>2, <1>4, <2>a DEF TypeOK
  <2>2. TypeOK'
    BY ZenonT(60), <1>1, <1>2, <2>1, <2>a, <2>b DEF TypeOK, Failures
  <2>3. Places' /\ News' /\ UpIsUp'
    BY <1>1, <1>2, <1>4, <2>1 DEF Places, News, UpIsUp, Opening, Using, Proxied
  <2>4. NoStray'
    BY <1>1, <1>2, <1>4 DEF NoStray
  <2>5. Faults'
    BY <1>1, <1>2, <2>1 DEF Faults, Failures
  <2> QED BY <2>2, <2>3, <2>4, <2>5 DEF Inv
<1> QED BY <1>3, <1>4 DEF ClosingStep

LEMMA LastOf ==
  ASSUME NEW s \in Seq({"up", "down"}), NEW e \in {"up", "down"}
  PROVE  /\ Append(s, e) # <<>> /\ Append(s, e)[Len(Append(s, e))] = e
         /\ Append(s, e) \in Seq({"up", "down"})
         /\ s # <<>> => /\ Tail(s) \in Seq({"up", "down"})
                        /\ Head(s) \in {"up", "down"}
                        /\ Tail(s) # <<>> => Tail(s)[Len(Tail(s))] = s[Len(s)]
                        /\ Tail(s) = <<>> => Head(s) = s[Len(s)]
<1>1. Append(s, e) # <<>> /\ Append(s, e)[Len(Append(s, e))] = e
  OBVIOUS
<1>2. Append(s, e) \in Seq({"up", "down"})
  OBVIOUS
<1>3. ASSUME s # <<>>
      PROVE  Tail(s) \in Seq({"up", "down"}) /\ Head(s) \in {"up", "down"}
  BY <1>3
<1>4. ASSUME s # <<>>, Tail(s) # <<>>
      PROVE  Tail(s)[Len(Tail(s))] = s[Len(s)]
  <2>1. Len(s) \in Nat /\ Len(Tail(s)) = Len(s) - 1 /\ Len(s) - 1 >= 1
    BY <1>3, <1>4
  <2> QED BY <1>4, <2>1
<1>5. ASSUME s # <<>>, Tail(s) = <<>>
      PROVE  Head(s) = s[Len(s)]
  <2>1. Len(s) \in Nat /\ Len(s) # 0 /\ Head(s) = s[1]
    BY <1>5
  <2>2. Len(Tail(s)) = Len(s) - 1
    BY <1>5, <2>1
  <2>3. Len(<<>>) = 0
    OBVIOUS
  <2>4. Len(s) = 1
    <3> DEFINE t == Tail(s)
    <3>1. t = <<>> /\ Len(t) = Len(s) - 1
      BY <1>5, <2>2
    <3> HIDE DEF t
    <3>2. Len(t) = 0
      BY <3>1, <2>3
    <3> QED BY <2>1, <3>1, <3>2
  <2> QED BY <2>1, <2>4
<1> QED BY <1>1, <1>2, <1>3, <1>4, <1>5

LEMMA OuterKeeps ==
  ASSUME Inv, Outer
  PROVE  Inv'
<1>1. TypeOK /\ Places /\ News /\ UpIsUp /\ NoStray /\ Faults
  BY DEF Inv
<1>2. ASSUME NEW cfg \in Configs, Configure(cfg)
      PROVE  Inv'
  <2>1. /\ kind = "none"
        /\ \/ raised' \in {"ValueError", "ImportError"} /\ kind' = "none"
           \/ raised' = "none" /\ kind' \in {"bleak", "esphome", "homeassistant"}
        /\ UNCHANGED <<api, checked, pc, op, n, up, cached, alive, regs, stored, closed,
                      left, waiting, complete, live, link, events, links, drops, cancels>>
    BY <1>2, ConfigureIs DEF conn, wait, env, cnt
  <2>2. TypeOK'
    BY <1>1, <2>1 DEF TypeOK
  <2>3. n = 0 /\ pc = "idle" /\ closed
    BY <1>1, <2>1 DEF Places, TypeOK
  <2>4. Places' /\ News' /\ UpIsUp'
    BY <1>1, <2>1, <2>3 DEF Places, News, UpIsUp, Opening, Using, Proxied
  <2>5. NoStray' /\ Faults'
    BY <1>1, <2>1, <2>3 DEF NoStray, TypeOK, Faults, Failures
  <2> QED BY <2>2, <2>4, <2>5 DEF Inv
<1>3. ASSUME NEW ok \in BOOLEAN, ProxyLinks(ok)
      PROVE  Inv'
  <2>1. /\ link = "opening" /\ link' \in {"up", "down"} /\ events' = Append(events, link')
        /\ UNCHANGED <<kind, api, checked, pc, op, raised, n, up, cached, alive, regs, stored,
                      closed, left, waiting, complete, live, links, drops, cancels>>
    BY <1>3 DEF ProxyLinks, sel, conn, wait, cnt
  <2>2. /\ events' # <<>> /\ events'[Len(events')] = link'
        /\ events' \in Seq({"up", "down"})
    BY <1>1, <2>1, LastOf DEF TypeOK
  <2>3. TypeOK'
    BY <1>1, <2>1, <2>2 DEF TypeOK
  <2>4. Places' /\ News' /\ UpIsUp'
    BY <1>1, <2>1, <2>2 DEF Places, News, UpIsUp, is_connected, Opening, Using, Proxied
  <2>5. kind # "bleak"
    BY <1>1, <2>1 DEF Places, Proxied
  <2>6. NoStray' /\ Faults'
    BY <1>1, <2>1, <2>5 DEF NoStray, Faults
  <2> QED BY <2>3, <2>4, <2>6 DEF Inv
<1>4. CASE Deliver
  <2>1. /\ events # <<>> /\ events' = Tail(events) /\ complete' = (complete \/ waiting \in regs)
        /\ up' = (IF regs = {} THEN up ELSE Head(events) = "up")
        /\ UNCHANGED <<kind, api, checked, pc, op, raised, n, cached, alive, regs, stored,
                      closed, left, waiting, live, link, links, drops, cancels>>
    BY <1>4 DEF Deliver, sel, cnt
  <2>2. /\ events' \in Seq({"up", "down"}) /\ Head(events) \in {"up", "down"}
        /\ events' # <<>> => events'[Len(events')] = events[Len(events)]
        /\ events' = <<>> => Head(events) = events[Len(events)]
        /\ events[Len(events)] \in {"up", "down"}
    BY <1>1, <2>1, LastOf DEF TypeOK
  <2>3. up' \in BOOLEAN /\ complete' \in BOOLEAN
    BY <1>1, <2>1 DEF TypeOK
  <2>4. TypeOK'
    BY SMTT(40), <1>1, <2>1, <2>2, <2>3 DEF TypeOK
  <2>5. Proxied
    BY <1>1, <2>1 DEF Places
  <2>6. Places'
    BY <1>1, <2>1, <2>5 DEF Places, Opening, Using, Proxied
  <2>7. events' # <<>> /\ events'[Len(events')] = "up" => link' = "up"
    BY <1>1, <2>1, <2>2 DEF News
  <2>8. pc = "linking" /\ alive => waiting \in regs /\ complete'
    BY <1>1, <2>1 DEF News
  <2>9. Proxied /\ up' /\ alive /\ ~closed => regs # {}
    BY <1>1, <2>1 DEF News
  <2>10. News'
    BY <2>1, <2>7, <2>8, <2>9 DEF News, Proxied
  <2>11. Proxied /\ up' /\ alive /\ ~closed => Head(events) = "up"
    BY <2>1, <2>9
  <2>12. Proxied /\ up' /\ alive /\ ~closed
          => link = "up" \/ (events' # <<>> /\ events'[Len(events')] = "down")
    <3>1. CASE events[Len(events)] = "up"
      BY <1>1, <2>1, <3>1 DEF News
    <3>2. CASE events[Len(events)] = "down"
      BY <2>2, <2>11, <3>2
    <3> QED BY <2>2, <3>1, <3>2
  <2>13. UpIsUp'
    BY <2>1, <2>5, <2>12 DEF UpIsUp, is_connected, Proxied
  <2>14. NoStray' /\ Faults'
    BY <1>1, <2>1 DEF NoStray, Faults
  <2> QED BY <2>4, <2>6, <2>10, <2>13, <2>14 DEF Inv
<1>5. CASE LinkDrops
  <2>1. /\ link = "up" /\ link' = "down" /\ drops < MaxDrops /\ drops' = drops + 1
        /\ \/ Proxied /\ events' = Append(events, "down") /\ live' = live
           \/ ~Proxied /\ live' = {} /\ events' = events
        /\ UNCHANGED <<kind, api, checked, pc, op, raised, n, up, cached, alive, regs, stored,
                      closed, left, waiting, complete, links, cancels>>
    BY <1>5 DEF LinkDrops, sel, conn, wait
  <2>2. drops' \in 0..MaxDrops
    BY <1>1, <2>1, BoundsAssumption DEF TypeOK
  <2>3. CASE Proxied /\ events' = Append(events, "down") /\ live' = live
    <3>1. /\ events' # <<>> /\ events'[Len(events')] = "down"
          /\ events' \in Seq({"up", "down"})
      BY <1>1, <2>3, LastOf DEF TypeOK
    <3>2. TypeOK'
      BY <1>1, <2>1, <2>2, <2>3, <3>1 DEF TypeOK
    <3>3. Places' /\ News' /\ UpIsUp'
      BY <1>1, <2>1, <2>3, <3>1 DEF Places, News, UpIsUp, Opening, Using, Proxied
    <3>4. NoStray' /\ Faults'
      BY <1>1, <2>1, <2>3 DEF NoStray, Faults, Proxied
    <3> QED BY <3>2, <3>3, <3>4 DEF Inv
  <2>4. CASE ~Proxied /\ live' = {} /\ events' = events
    <3>1. TypeOK'
      BY <1>1, <2>1, <2>2, <2>4 DEF TypeOK
    <3>2. events = <<>> /\ (kind = "none" => n = 0 /\ closed) /\ kind \in {"none", "bleak"}
      BY <1>1, <2>4 DEF Places, TypeOK, Proxied
    <3>3. Places' /\ News'
      BY <1>1, <2>1, <2>4, <3>2 DEF Places, News, Opening, Using, Proxied
    <3>4. UpIsUp' /\ NoStray' /\ Faults'
      BY <1>1, <2>1, <2>4, <3>2 DEF UpIsUp, is_connected, NoStray, Faults
    <3> QED BY <3>1, <3>3, <3>4 DEF Inv
  <2> QED BY <2>1, <2>3, <2>4
<1>6. CASE ApiDrops
  <2>1. /\ drops < MaxDrops /\ drops' = drops + 1 /\ api' = FALSE /\ ~alive' /\ alive' = FALSE
        /\ link' = "down" /\ events' = <<>> /\ regs' = {} /\ live' = {}
        /\ UNCHANGED <<kind, checked, pc, op, raised, n, up, cached, stored, closed, left,
                      waiting, complete, links, cancels>>
    BY <1>6 DEF ApiDrops, wait
  <2>2. drops' \in 0..MaxDrops /\ events' \in Seq({"up", "down"}) /\ regs' \subseteq 1..links'
    BY <1>1, <2>1, BoundsAssumption DEF TypeOK
  <2>b. \A b \in {up', cached', alive', closed', left', complete'} : b \in BOOLEAN
    <3>1. \A b \in {up, cached, closed, left, complete} : b \in BOOLEAN
      BY <1>1 DEF TypeOK
    <3>2. alive' \in BOOLEAN
      BY <2>1
    <3> QED BY <2>1, <3>1, <3>2
  <2>3. TypeOK'
    BY ZenonT(60), <1>1, <2>1, <2>2, <2>b DEF TypeOK
  <2>4. Places' /\ News' /\ UpIsUp'
    BY <1>1, <2>1 DEF Places, News, UpIsUp, Opening, Using, Proxied
  <2>5. NoStray' /\ Faults'
    BY <1>1, <2>1 DEF NoStray, Faults
  <2> QED BY <2>3, <2>4, <2>5 DEF Inv
<1>7. CASE Cancel
  <2>1. /\ pc' = "idle" /\ op' = "none" /\ raised' \in Failures /\ waiting' = 0
        /\ complete' = FALSE
        /\ cancels < MaxCancels /\ cancels' = cancels + 1 /\ left' = (left \/ pc = "linking")
        /\ UNCHANGED <<kind, api, checked, n, up, cached, alive, regs, stored, closed,
                      live, link, events, links, drops>>
    BY <1>1, <1>7, CancelIs DEF Ended, sel, conn, env
  <2>2. cancels' \in 0..MaxCancels /\ waiting' \in 0..links'
    BY <1>1, <2>1, BoundsAssumption DEF TypeOK
  <2>a. left' \in BOOLEAN
    BY <2>1
  <2>3. TypeOK'
    BY <1>1, <2>1, <2>2, <2>a DEF TypeOK, Failures
  <2>4. Places' /\ News' /\ UpIsUp'
    BY <1>1, <2>1 DEF Places, News, UpIsUp, is_connected, Opening, Using, Proxied
  <2>5. NoStray' /\ Faults'
    BY <1>1, <2>1 DEF NoStray, Faults, Failures
  <2> QED BY <2>3, <2>4, <2>5 DEF Inv
<1> QED BY <1>2, <1>3, <1>4, <1>5, <1>6, <1>7 DEF Outer

LEMMA InitInv == Init => Inv
<1> SUFFICES ASSUME Init PROVE Inv
  OBVIOUS
<1>1. TypeOK
  <2>1. /\ 0 \in 0..MaxConns /\ 0 \in 0..MaxLinks /\ 0 \in 0..MaxDrops /\ 0 \in 0..MaxCancels
    BY BoundsAssumption
  <2>2. up = FALSE /\ cached = FALSE /\ alive = FALSE /\ closed = TRUE /\ left = FALSE
        /\ complete = FALSE
    BY DEF Init
  <2>3. \A b \in {up, cached, alive, closed, left, complete} : b \in BOOLEAN
    BY <2>2
  <2>4. api \in BOOLEAN /\ checked \in BOOLEAN
    BY DEF Init
  <2>5. events \in Seq({"up", "down"}) /\ live \subseteq 1..n /\ regs \subseteq 1..links
    BY DEF Init
  <2> QED BY <2>1, <2>3, <2>4, <2>5 DEF Init, TypeOK
<1>2. Places /\ News /\ UpIsUp /\ NoStray /\ Faults
  BY DEF Init, Places, News, UpIsUp, NoStray, Faults, Opening, Using, Proxied
<1> QED BY <1>1, <1>2 DEF Inv

LEMMA NextInv == Inv /\ [Next]_vars => Inv'
<1> SUFFICES ASSUME Inv, [Next]_vars PROVE Inv'
  OBVIOUS
<1>1. CASE Next
  <2>1. TypeOK /\ Places
    BY DEF Inv
  <2> QED BY <1>1, <2>1, NextIs, OpeningKeeps, UsingKeeps, ClosingKeeps, OuterKeeps
<1>2. CASE UNCHANGED vars
  BY <1>2 DEF Inv, TypeOK, Places, News, UpIsUp, NoStray, Faults, is_connected,
              Opening, Using, Uses, Proxied, vars, sel, conn, wait, env, cnt, scan
<1> QED BY <1>1, <1>2

LEMMA Invariance == Spec => []Inv
BY InitInv, NextInv, PTL DEF Spec

-----------------------------------------------------------------------------
(* What is left of a link.                                                 *)

UpDown == Append(<< "up" >>, "down")

\* The events on their way tell what the connection does not know yet. While none
\* was given up, the link is there only if the connection knows or is being told.
Released ==
  /\ ~alive => link = "down" /\ events = <<>>
  /\ ~left /\ closed => link = "down" /\ events = <<>>
  /\ ~left /\ Proxied /\ pc # "linking" /\ ~up => link = "down" /\ events = <<>>
  /\ ~left /\ Proxied /\ up => \/ link = "up" /\ events = <<>>
                               \/ link = "down" /\ events \in {<<>>, << "down" >>}
  /\ ~left /\ pc = "linking" /\ complete /\ ~up => link = "down" /\ events = <<>>
  /\ ~left /\ pc = "linking" /\ ~complete /\ ~up =>
       \/ link = "opening" /\ events = <<>>
       \/ link = "up" /\ events = << "up" >>
       \/ link = "down" /\ events \in {<<>>, << "down" >>, UpDown}

LEMMA EventsAre ==
  /\ Append(<<>>, "up") = << "up" >> /\ Append(<<>>, "down") = << "down" >>
  /\ Tail(<< "up" >>) = <<>> /\ Tail(<< "down" >>) = <<>> /\ Tail(UpDown) = << "down" >>
  /\ Head(<< "up" >>) = "up" /\ Head(<< "down" >>) = "down" /\ Head(UpDown) = "up"
<1>1. Append(<<>>, "up") = << "up" >> /\ Append(<<>>, "down") = << "down" >>
  OBVIOUS
<1>2. \A e : Tail(Append(<<>>, e)) = <<>>
  <2>1. <<>> \in Seq({"up", "down"})
    OBVIOUS
  <2> QED BY <2>1, HeadTailAppend
<1>3. Tail(<< "up" >>) = <<>> /\ Tail(<< "down" >>) = <<>>
  BY <1>1, <1>2, Zenon
<1>4. Tail(UpDown) = << "down" >> /\ Head(UpDown) = "up"
  <2>1. PICK q \in Seq({"up", "down"}) : q = << "up" >>
    <3>1. <<>> \in Seq({"up", "down"}) /\ "up" \in {"up", "down"}
      OBVIOUS
    <3>2. Append(<<>>, "up") \in Seq({"up", "down"})
      BY <3>1, AppendProperties
    <3> QED BY <1>1, <3>2
  <2>2. q # <<>> /\ Head(q) = "up" /\ Tail(q) = <<>>
    <3>1. Len(q) = 1 /\ q[1] = "up"
      BY <2>1
    <3> QED BY <1>3, <2>1, <3>1
  <2>3. /\ Head(Append(q, "down")) = IF q = <<>> THEN "down" ELSE Head(q)
        /\ Tail(Append(q, "down")) = IF q = <<>> THEN <<>> ELSE Append(Tail(q), "down")
    BY HeadTailAppend
  <2>4. UpDown = Append(q, "down")
    BY <2>1 DEF UpDown
  <2> QED BY <1>1, <2>2, <2>3, <2>4
<1>5. Head(<< "up" >>) = "up" /\ Head(<< "down" >>) = "down"
  OBVIOUS
<1> QED BY <1>1, <1>3, <1>4, <1>5

LEMMA ReleasedKept == Inv /\ Released /\ [Next]_vars => Released'
<1> SUFFICES ASSUME Inv, Released, [Next]_vars PROVE Released'
  OBVIOUS
<1>1. TypeOK /\ Places /\ News
  BY DEF Inv
<1>2. ASSUME NEW o \in {"connect", "discover"}, OpeningStep(o) PROVE Released'
  <2>1. /\ kind # "none" /\ UNCHANGED <<kind, waiting, complete, events>>
        /\ pc # "linking" /\ (o = "connect" => closed)
    BY <1>2 DEF OpeningStep, Opening, wait
  <2>2. CASE Ended /\ UNCHANGED <<n, conn, live, link>>
    BY <2>1, <2>2 DEF Released, Proxied, Ended, conn
  <2>3. CASE o = "connect" /\ Ended /\ Renewed /\ Proxied /\ UNCHANGED <<live, link>>
    BY <2>1, <2>3 DEF Released, Proxied, Ended, Renewed
  <2>4. CASE o = "connect" /\ Ended /\ Renewed /\ kind = "bleak" /\ live' = {} /\ link' = "up"
    BY <2>1, <2>4 DEF Released, Proxied, Ended, Renewed
  <2>5. ASSUME NEW at \in Opening, Waits(o, at) /\ UNCHANGED <<n, conn, live, link>>
        PROVE  Released'
    BY <2>1, <2>5 DEF Released, Proxied, Waits, Opening, conn
  <2> QED BY <1>2, <2>2, <2>3, <2>4, <2>5 DEF OpeningStep
<1>3. ASSUME NEW o \in Uses, UsingStep(o) PROVE Released'
  <2>1. /\ UNCHANGED <<kind, up, alive, closed>> /\ ~closed
    BY <1>3 DEF UsingStep, sel
  <2>2. CASE NoLink
    BY <2>1, <2>2 DEF NoLink, Released, Proxied, wait, env
  <2>3. CASE Asks(o)
    <3>1. /\ ~up /\ alive /\ Proxied /\ left' = left /\ pc' = "linking" /\ ~complete'
          /\ ~left => link' = "opening" /\ events' = <<>>
      BY <2>3 DEF Asks, Waits, Released
    <3> QED BY <2>1, <3>1 DEF Released, Proxied
  <2>4. CASE LinkMade
    BY <2>1, <2>4 DEF LinkMade, Released, Proxied, env
  <2>5. CASE GivenUp
    BY <1>1, <2>1, <2>5 DEF GivenUp, Released, Proxied, Ended, Places, env
  <2> QED BY <1>3, <2>2, <2>3, <2>4, <2>5 DEF UsingStep
<1>4. CASE ClosingStep
  <2>1. /\ UNCHANGED <<kind, alive, complete, events>> /\ pc # "linking" /\ ~closed
        /\ kind # "none"
    BY <1>4 DEF ClosingStep, sel, wait
  <2>2. CASE Waits("disconnect", "closing") /\ UNCHANGED <<regs, live, closed, link, up, left>>
    BY <2>1, <2>2 DEF Released, Proxied, Waits
  <2>3. CASE Ended /\ link' = link /\ up' = up /\ left' = left /\ ~is_connected
    BY <1>1, <2>1, <2>3 DEF Released, Proxied, Ended, is_connected, TypeOK, Places
  <2>4. CASE Ended /\ link' = link /\ up' = up /\ left' = TRUE
    BY <2>1, <2>4 DEF Released, Proxied, Ended
  <2>5. CASE Ended /\ link' = "down" /\ up' = FALSE /\ left' = FALSE /\ events = <<>>
    BY <2>1, <2>5 DEF Released, Proxied, Ended
  <2> QED BY <1>4, <2>2, <2>3, <2>4, <2>5 DEF ClosingStep
<1>5. ASSUME NEW cfg \in Configs, Configure(cfg) PROVE Released'
  <2>1. kind = "none" /\ pc = "idle" /\ UNCHANGED <<pc, conn, wait, env>>
    BY <1>1, <1>5 DEF Configure, Places
  <2>2. closed /\ ~Proxied
    BY <1>1, <2>1 DEF Places, TypeOK, Proxied
  <2> QED BY <2>1, <2>2 DEF Released, conn, wait, env
<1>6. ASSUME NEW ok \in BOOLEAN, ProxyLinks(ok) PROVE Released'
  <2>1. /\ link = "opening" /\ link' \in {"up", "down"} /\ events' = Append(events, link')
        /\ UNCHANGED <<kind, pc, up, alive, closed, left, complete>>
    BY <1>6 DEF ProxyLinks, sel, conn, wait
  <2>2. Proxied
    BY <1>1, <2>1 DEF Places
  <2> QED BY <2>1, <2>2, EventsAre DEF Released, Proxied
<1>7. CASE Deliver
  <2>1. /\ events # <<>> /\ events' = Tail(events) /\ complete' = (complete \/ waiting \in regs)
        /\ up' = (IF regs = {} THEN up ELSE Head(events) = "up")
        /\ UNCHANGED <<kind, pc, alive, closed, left, link, regs>>
    BY <1>7 DEF Deliver, sel
  <2>2. Proxied /\ alive
    BY <1>1, <2>1 DEF Places, Released
  <2>3. ~left /\ pc # "linking" => up /\ regs # {} /\ events = << "down" >> /\ link = "down"
    BY <1>1, <2>1, <2>2 DEF Released, News
  <2>4. pc = "linking" => waiting \in regs /\ regs # {} /\ complete' = TRUE
    BY <1>1, <2>1, <2>2 DEF News
  <2>5. CASE left
    BY <2>1, <2>2, <2>5 DEF Released
  <2>6. CASE ~left /\ pc # "linking"
    BY <2>1, <2>2, <2>3, <2>6, EventsAre DEF Released, Proxied
  <2>7. CASE ~left /\ pc = "linking"
    <3>1. ~closed
      BY <1>1, <2>7 DEF Places, Using
    <3>2. up => events = << "down" >> /\ link = "down"
      BY <2>1, <2>2, <2>7 DEF Released
    <3>3. ~up => \/ link = "up" /\ events = << "up" >>
                 \/ link = "down" /\ events \in {<< "down" >>, UpDown}
      BY <2>1, <2>7 DEF Released
    <3>4. CASE events = << "down" >> /\ link = "down"
      BY <2>1, <2>2, <2>4, <2>7, <3>1, <3>4, EventsAre DEF Released, Proxied
    <3>5. CASE events = << "up" >> /\ link = "up"
      BY <2>1, <2>2, <2>4, <2>7, <3>1, <3>5, EventsAre DEF Released, Proxied
    <3>6. CASE events = UpDown /\ link = "down"
      BY <2>1, <2>2, <2>4, <2>7, <3>1, <3>6, EventsAre DEF Released, Proxied
    <3> QED BY <3>2, <3>3, <3>4, <3>5, <3>6
  <2> QED BY <2>5, <2>6, <2>7
<1>8. CASE LinkDrops
  <2>1. /\ link = "up" /\ link' = "down"
        /\ \/ Proxied /\ events' = Append(events, "down")
           \/ ~Proxied /\ events' = events
        /\ UNCHANGED <<kind, pc, up, alive, closed, left, complete>>
    BY <1>8 DEF LinkDrops, sel, conn, wait
  <2>2. CASE Proxied /\ events' = Append(events, "down")
    BY <2>1, <2>2, EventsAre DEF Released, Proxied, UpDown
  <2>3. CASE ~Proxied /\ events' = events
    <3>1. events = <<>> /\ pc # "linking"
      BY <1>1, <2>3 DEF Places
    <3> QED BY <2>1, <2>3, <3>1 DEF Released, Proxied
  <2> QED BY <2>1, <2>2, <2>3
<1>9. CASE ApiDrops
  BY <1>9 DEF ApiDrops, Released, Proxied, wait
<1>10. CASE Cancel
  <2>1. /\ pc' = "idle" /\ left' = (left \/ pc = "linking")
        /\ UNCHANGED <<kind, up, alive, closed, link, events>>
    BY <1>1, <1>10, CancelIs DEF Ended, sel, env
  <2>2. CASE pc = "linking"
    BY <2>1, <2>2 DEF Released
  <2>3. CASE pc # "linking"
    BY <2>1, <2>3 DEF Released, Proxied
  <2> QED BY <2>2, <2>3
<1>11. CASE UNCHANGED vars
  BY <1>11 DEF vars, Released, Proxied, sel, conn, wait, env
<1>12. CASE Next
  BY <1>1, <1>12, NextIs, <1>2, <1>3, <1>4, <1>5, <1>6, <1>7, <1>8, <1>9, <1>10 DEF Outer
<1> QED BY <1>11, <1>12

-----------------------------------------------------------------------------
(* Advertisements: what the parser makes of the bytes a device sends, and  *)
(* what discover makes of that.                                            *)

\* The structure at a position, and the recursion of _parse_ad_structures.
AdAt(data, i) == [type |-> data[i + 1], payload |-> SubSeq(data, i + 2, i + data[i])]

Stops(data, i) == i > Len(data) \/ data[i] = 0 \/ i + data[i] > Len(data)

Ads(f, data, i) == IF Stops(data, i) THEN <<>> ELSE <<AdAt(data, i)>> \o f[i + 1 + data[i]]

\* There is a function with that recursion: by induction from its end.
LEMMA AdsExist ==
  ASSUME NEW data \in Seq(Nat)
  PROVE  \E f : f = [i \in 1..(Len(data) + 1) |-> Ads(f, data, i)]
<1> DEFINE N == Len(data) + 1
           Holds(f, k) == /\ f = [i \in 1..N |-> f[i]]
                          /\ \A i \in 1..N : i > N - k => f[i] = Ads(f, data, i)
           T == {k \in Nat : k <= N => \E f : Holds(f, k)}
<1>0. N \in Nat /\ N = Len(data) + 1 /\ Len(data) \in Nat
  BY LenProperties
<1> HIDE DEF N
<1>1. 0 \in T
  <2> DEFINE h == [i \in 1..N |-> <<>>]
  <2>1. h = [i \in 1..N |-> h[i]]
    OBVIOUS
  <2>2. Holds(h, 0)
    BY <1>0, <2>1
  <2> HIDE DEF h
  <2> QED BY <2>2
<1>2. ASSUME NEW k \in Nat, k \in T PROVE k + 1 \in T
  <2> SUFFICES ASSUME k + 1 <= N PROVE \E f : Holds(f, k + 1)
    OBVIOUS
  <2>1. PICK f : Holds(f, k)
    BY <1>0, <1>2
  <2>a. N - k \in 1..N
    BY <1>0
  <2>2. PICK lo \in 1..N : lo = N - k
    BY <2>a
  <2> DEFINE h == [i \in 1..N |-> IF i = lo THEN Ads(f, data, lo) ELSE f[i]]
  <2>3. h = [i \in 1..N |-> h[i]] /\ \A i \in 1..N : i # lo => h[i] = f[i]
    OBVIOUS
  <2>4. h[lo] = Ads(f, data, lo)
    OBVIOUS
  <2> HIDE DEF h
  <2>5. ASSUME NEW i \in 1..N, i >= lo
        PROVE  Ads(h, data, i) = Ads(f, data, i)
    <3>1. CASE Stops(data, i)
      BY <3>1 DEF Ads
    <3>2. CASE ~Stops(data, i)
      <4>1. i \in 1..Len(data)
        BY <1>0, <3>2 DEF Stops
      <4>2. PICK l \in Nat : l = data[i]
        <5>1. data[i] \in Nat
          BY <4>1, ElementOfSeq
        <5> QED BY <5>1
      <4>a. l # 0 /\ i + l <= Len(data)
        BY <1>0, <3>2, <4>1, <4>2 DEF Stops
      <4>3. i + 1 + l \in 1..N /\ i + 1 + l # lo
        BY <1>0, <2>5, <4>a
      <4>4. h[i + 1 + data[i]] = f[i + 1 + data[i]]
        BY <2>3, <4>2, <4>3
      <4> QED BY <4>4 DEF Ads
    <3> QED BY <3>1, <3>2
  <2>6. ASSUME NEW i \in 1..N, i > N - (k + 1)
        PROVE  h[i] = Ads(h, data, i)
    <3>1. i >= lo /\ (i # lo => i > N - k)
      BY SMTT(40), <1>0, <2>2, <2>6
    <3>2. Ads(h, data, i) = Ads(f, data, i)
      BY <2>5, <3>1
    <3>3. CASE i = lo
      BY <2>4, <3>2, <3>3
    <3>4. CASE i # lo
      BY <2>1, <2>3, <3>1, <3>2, <3>4
    <3> QED BY <3>3, <3>4
  <2>7. Holds(h, k + 1)
    BY <2>3, <2>6
  <2> QED BY <2>7
<1> HIDE DEF T
<1>3. N \in T
  BY <1>0, <1>1, <1>2, Induction
<1>4. PICK f : Holds(f, N)
  BY <1>0, <1>3 DEF T
<1>5. \A i \in 1..N : f[i] = Ads(f, data, i)
  BY <1>0, <1>4
<1>6. f = [i \in 1..N |-> Ads(f, data, i)]
  BY <1>4, <1>5
<1> QED BY <1>0, <1>6

\* The parser is that function at the first byte.
LEMMA AdsAre ==
  ASSUME NEW data \in Seq(Nat)
  PROVE  \E f : /\ _parse_ad_structures(data) = f[1]
                /\ \A i \in 1..(Len(data) + 1) : f[i] = Ads(f, data, i)
<1> DEFINE from[i \in 1..(Len(data) + 1)] ==
             IF i > Len(data) THEN <<>>
             ELSE IF data[i] = 0 \/ i + data[i] > Len(data) THEN <<>>
             ELSE <<[type |-> data[i + 1], payload |-> SubSeq(data, i + 2, i + data[i])]>>
                  \o from[i + 1 + data[i]]
<1>1. _parse_ad_structures(data) = from[1]
  BY DEF _parse_ad_structures
<1>2. from = [i \in 1..(Len(data) + 1) |-> Ads(from, data, i)]
  <2>1. PICK f : f = [i \in 1..(Len(data) + 1) |-> Ads(f, data, i)]
    BY AdsExist
  <2>2. f = [i \in 1..(Len(data) + 1) |->
             IF i > Len(data) THEN <<>>
             ELSE IF data[i] = 0 \/ i + data[i] > Len(data) THEN <<>>
             ELSE <<[type |-> data[i + 1], payload |-> SubSeq(data, i + 2, i + data[i])]>>
                  \o f[i + 1 + data[i]]]
    BY <2>1, Zenon DEF Ads, Stops, AdAt
  <2>3. from = [i \in 1..(Len(data) + 1) |->
             IF i > Len(data) THEN <<>>
             ELSE IF data[i] = 0 \/ i + data[i] > Len(data) THEN <<>>
             ELSE <<[type |-> data[i + 1], payload |-> SubSeq(data, i + 2, i + data[i])]>>
                  \o from[i + 1 + data[i]]]
    BY <2>2
  <2> QED BY <2>3, Zenon DEF Ads, Stops, AdAt
<1> HIDE DEF from
<1> QED BY <1>1, <1>2

\* What a device sent, as structures.
Packed(bodies) == [k \in 1..Len(bodies) |-> <<Len(bodies[k])>> \o bodies[k]]

Unpacked(bodies, k) == [type |-> bodies[k][1], payload |-> SubSeq(bodies[k], 2, Len(bodies[k]))]

\* The end of an advertisement that is no structure.
IsEnd(rest) == rest = <<>> \/ rest[1] = 0 \/ rest[1] >= Len(rest)

\* A structure is its length and its bytes.
LEMMA PackedIs ==
  ASSUME NEW bodies \in Seq(Seq(Nat)), \A k \in 1..Len(bodies) : Len(bodies[k]) \in 1..255
  PROVE  /\ Packed(bodies) \in Seq(Seq(Nat)) /\ Len(Packed(bodies)) = Len(bodies)
         /\ \A k \in 1..Len(bodies) :
              /\ Len(Packed(bodies)[k]) = 1 + Len(bodies[k])
              /\ Packed(bodies)[k][1] = Len(bodies[k])
              /\ \A j \in 1..Len(bodies[k]) : Packed(bodies)[k][1 + j] = bodies[k][j]
<1>0. Len(bodies) \in Nat
  BY LenProperties
<1>1. ASSUME NEW k \in 1..Len(bodies)
      PROVE  /\ Packed(bodies)[k] \in Seq(Nat)
             /\ Len(Packed(bodies)[k]) = 1 + Len(bodies[k])
             /\ Packed(bodies)[k][1] = Len(bodies[k])
             /\ \A j \in 1..Len(bodies[k]) : Packed(bodies)[k][1 + j] = bodies[k][j]
  <2>1. bodies[k] \in Seq(Nat)
    BY ElementOfSeq
  <2>2. PICK l \in 1..255 : l = Len(bodies[k])
    OBVIOUS
  <2>3. PICK b \in Seq(Nat) : b = bodies[k]
    BY <2>1
  <2>4. l \in Nat
    OBVIOUS
  <2>5. <<l>> \in Seq(Nat) /\ Len(<<l>>) = 1 /\ <<l>>[1] = l
    BY <2>4
  <2>6. /\ <<l>> \o b \in Seq(Nat) /\ Len(<<l>> \o b) = 1 + l
        /\ \A x \in 1..(1 + l) : (<<l>> \o b)[x] = IF x <= 1 THEN <<l>>[x] ELSE b[x - 1]
    BY <2>2, <2>3, <2>5, ConcatProperties
  <2>7. Packed(bodies)[k] = <<l>> \o b
    BY <2>2, <2>3 DEF Packed
  <2>8. (<<l>> \o b)[1] = l
    BY <2>5, <2>6
  <2>9. \A j \in 1..l : (<<l>> \o b)[1 + j] = b[j]
    BY <2>6
  <2> QED BY <2>2, <2>3, <2>6, <2>7, <2>8, <2>9
<1>2. Packed(bodies) \in Seq(Seq(Nat)) /\ Len(Packed(bodies)) = Len(bodies)
  <2>1. PICK z \in Nat : z = Len(bodies)
    BY <1>0
  <2>2. \E T : T = Seq(Nat)
    OBVIOUS
  <2>a. PICK T : T = Seq(Nat)
    BY <2>2
  <2>3. \A k \in 1..z : Packed(bodies)[k] \in T
    BY <1>1, <2>1, <2>a
  <2>4. PICK q : q = Packed(bodies)
    OBVIOUS
  <2>5. q = [k \in 1..z |-> q[k]]
    BY <2>1, <2>4 DEF Packed
  <2>6. q \in [1..z -> T]
    BY <2>3, <2>4, <2>5
  <2>7. q \in Seq(T) /\ Len(q) = z
    BY <2>1, <2>6, Arranged, Zenon
  <2> QED BY <2>1, <2>a, <2>4, <2>7
<1> QED BY <1>1, <1>2

\* A structure stands after the first s bytes.
Stands(data, s, b, l) ==
  /\ s + 1 + l <= Len(data) /\ Len(b) = l
  /\ data[s + 1] = l /\ \A j \in 1..l : data[s + 1 + j] = b[j]

Read(data, s, b, l) == AdAt(data, s + 1) = [type |-> b[1], payload |-> SubSeq(b, 2, l)]

\* It is read as the type and the payload it has.
LEMMA AdAtIs ==
  ASSUME NEW data \in Seq(Nat), NEW b \in Seq(Nat), NEW s \in Nat, NEW l \in 1..255,
         Stands(data, s, b, l)
  PROVE  Read(data, s, b, l)
<1> USE DEF Stands
<1>1. data[(s + 1) + 1] = b[1]
  <2>1. 1 \in 1..l
    OBVIOUS
  <2> QED BY <2>1
<1>2. PICK d \in Nat : d = l - 1
  OBVIOUS
<1>3. PICK u \in Nat, v \in Nat, x \in Nat, y \in Nat :
        u = s + 3 /\ v = 2 /\ x = s + 1 + l /\ y = l
  OBVIOUS
<1>4. u > 0 /\ v > 0 /\ x = u + d - 1 /\ y = v + d - 1
  BY <1>2, <1>3
<1>5. x <= Len(data) /\ y <= Len(b)
  BY <1>3
<1>6. ASSUME NEW i \in 0..(d - 1) PROVE data[u + i] = b[v + i]
  <2>1. 2 + i \in 1..l /\ u + i = s + 1 + (2 + i) /\ v + i = 2 + i
    BY <1>2, <1>3
  <2>2. data[s + 1 + (2 + i)] = b[2 + i]
    BY <2>1
  <2> QED BY <2>1, <2>2
<1>7. Agree(data, u, x, b, v, y, d)
  BY <1>4, <1>5, <1>6 DEF Agree
<1>8. SubSeq(data, u, x) = SubSeq(b, v, y)
  <2>1. Cut(data, u, x) = Cut(b, v, y)
    BY <1>7, SameSlice
  <2> QED BY <2>1 DEF Cut
<1>9. (s + 1) + 2 = u /\ (s + 1) + data[s + 1] = x /\ v = 2 /\ y = l
  BY <1>3
<1> QED BY <1>1, <1>8, <1>9 DEF AdAt, Read

\* The parser finds what was packed, whatever follows that is no structure.
LEMMA ParsedBack ==
  ASSUME NEW bodies \in Seq(Seq(Nat)), \A k \in 1..Len(bodies) : Len(bodies[k]) \in 1..255,
         NEW rest \in Seq(Nat), IsEnd(rest), NEW data, data = FlattenSeq(Packed(bodies)) \o rest
  PROVE  _parse_ad_structures(data) = [k \in 1..Len(bodies) |-> Unpacked(bodies, k)]
<1>1. PICK z \in Nat : z = Len(bodies)
  BY SMTT(40), LenProperties
<1> DEFINE ss == Packed(bodies)
           flat == FlattenSeq(ss)
<1>2. /\ ss \in Seq(Seq(Nat)) /\ Len(ss) = z
      /\ \A k \in 1..z : /\ Len(ss[k]) = 1 + Len(bodies[k])
                         /\ ss[k][1] = Len(bodies[k])
                         /\ \A j \in 1..Len(bodies[k]) : ss[k][1 + j] = bodies[k][j]
  BY <1>1, PackedIs
<1> HIDE DEF ss
<1>3. PICK p : flat \in Seq(Nat) /\ Laid(p, ss, flat)
  BY <1>2, FlattenSeqHolds
<1>4. data = flat \o rest
  BY DEF ss
<1> HIDE DEF flat
<1>5. /\ p \in [0..z -> Nat] /\ p[0] = 0 /\ Len(flat) = p[z]
      /\ \A k \in 1..z : p[k] = p[k - 1] + 1 + Len(bodies[k])
  <2>1. p = [i \in 0..z |-> IF i = 0 THEN 0 ELSE p[i - 1] + Len(ss[i])] /\ p \in [0..z -> Nat]
        /\ Len(flat) = p[z]
    BY <1>2, <1>3 DEF Laid, BeginsAt
  <2>2. p[0] = 0
    BY <2>1, <1>1
  <2>3. ASSUME NEW k \in 1..z PROVE p[k] = p[k - 1] + 1 + Len(bodies[k])
    <3>1. k \in 0..z /\ k # 0 /\ k - 1 \in 0..z
      OBVIOUS
    <3>2. p[k] = p[k - 1] + Len(ss[k])
      BY SMTT(40), <2>1, <3>1
    <3>3. PICK l \in 1..255, q \in Nat : l = Len(bodies[k]) /\ q = p[k - 1]
      <4>1. Len(bodies[k]) \in 1..255
        BY <1>1
      <4>2. p[k - 1] \in Nat
        BY <2>1, <3>1
      <4> QED BY <4>1, <4>2
    <3>4. Len(ss[k]) = 1 + l
      BY <1>2, <3>3
    <3>5. q + (1 + l) = q + 1 + l
      OBVIOUS
    <3> QED BY <3>2, <3>3, <3>4, <3>5
  <2> QED BY <2>1, <2>2, <2>3
<1>6. PICK m \in Nat : m = Len(rest)
  BY LenProperties
<1>7. /\ data \in Seq(Nat) /\ Len(data) = p[z] + m
      /\ \A x \in 1..p[z] : data[x] = flat[x]
      /\ m > 0 => data[p[z] + 1] = rest[1]
  <2>1. PICK e \in Nat : e = p[z]
    BY <1>5
  <2>2. /\ flat \o rest \in Seq(Nat) /\ Len(flat \o rest) = e + m
        /\ \A x \in 1..(e + m) : (flat \o rest)[x] = IF x <= e THEN flat[x] ELSE rest[x - e]
    <3>1. flat \in Seq(Nat) /\ Len(flat) = e /\ Len(rest) = m
      BY <1>3, <1>5, <1>6, <2>1
    <3> QED BY <3>1, ConcatProperties
  <2>3. \A x \in 1..e : (flat \o rest)[x] = flat[x]
    BY <2>2
  <2>4. m > 0 => (flat \o rest)[e + 1] = rest[1]
    <3> SUFFICES ASSUME m > 0 PROVE (flat \o rest)[e + 1] = rest[1]
      OBVIOUS
    <3>1. e + 1 \in 1..(e + m) /\ ~(e + 1 <= e) /\ (e + 1) - e = 1
      OBVIOUS
    <3> QED BY <2>2, <3>1
  <2> QED BY <1>4, <2>1, <2>2, <2>3, <2>4
<1>8. PICK f : /\ _parse_ad_structures(data) = f[1]
               /\ \A i \in 1..(Len(data) + 1) : f[i] = Ads(f, data, i)
  BY <1>7, AdsAre
<1>9. ASSUME NEW k \in 1..z
      PROVE  f[p[k - 1] + 1] = <<Unpacked(bodies, k)>> \o f[p[k] + 1]
  <2>1. PICK l \in 1..255 : l = Len(bodies[k])
    BY SMTT(40), <1>1
  <2>2. PICK s \in Nat, e \in Nat : s = p[k - 1] /\ e = p[z] /\ p[k] = s + 1 + l
    <3>1. k - 1 \in 0..z /\ z \in 0..z
      OBVIOUS
    <3>2. p[k - 1] \in Nat /\ p[z] \in Nat
      BY <1>5, <3>1
    <3> QED BY <1>5, <2>1, <3>2
  <2>3. ASSUME NEW j \in 1..(1 + l)
        PROVE  s + j \in 1..e /\ data[s + j] = ss[k][j]
    <3>1. p[k - 1] + j \in 1..Len(flat) /\ flat[p[k - 1] + j] = ss[k][j]
      BY <1>2, <1>3, <2>1 DEF Laid
    <3> QED BY <1>5, <1>7, <2>2, <3>1
  <2>4. data[s + 1] = l /\ s + 1 + l <= e /\ \A j \in 1..l : data[s + 1 + j] = bodies[k][j]
    <3>1. 1 \in 1..(1 + l) /\ 1 + l \in 1..(1 + l)
      BY SMTT(40)
    <3>2. data[s + 1] = l
      BY <1>2, <2>1, <2>3, <3>1
    <3>3. s + (1 + l) \in 1..e
      BY <2>3, <3>1
    <3>4. ASSUME NEW j \in 1..l PROVE data[s + 1 + j] = bodies[k][j]
      <4>1. 1 + j \in 1..(1 + l) /\ s + (1 + j) = s + 1 + j
        BY SMTT(40)
      <4>2. data[s + (1 + j)] = ss[k][1 + j]
        BY <2>3, <4>1
      <4>3. ss[k][1 + j] = bodies[k][j]
        BY <1>2, <2>1
      <4> QED BY <4>1, <4>2, <4>3
    <3>5. s + 1 + l <= e
      BY <3>3
    <3> QED BY <3>2, <3>4, <3>5
  <2>5. s + 1 \in 1..(Len(data) + 1) /\ ~Stops(data, s + 1) /\ (s + 1) + 1 + data[s + 1] = p[k] + 1
    <3>1. PICK x \in Nat : x = s + 1
      OBVIOUS
    <3>2. Len(data) = e + m
      BY <1>7, <2>2
    <3>3. data[x] = l
      BY <2>4, <3>1
    <3>4. x \in 1..(e + m + 1) /\ ~(x > e + m) /\ l # 0 /\ ~(x + l > e + m)
      BY <2>4, <3>1
    <3>5. ~Stops(data, x)
      BY <3>2, <3>3, <3>4, Zenon DEF Stops
    <3>6. x + 1 + l = p[k] + 1
      BY SMTT(40), <2>2, <3>1
    <3> QED BY <3>1, <3>2, <3>3, <3>4, <3>5, <3>6
  <2>6. AdAt(data, s + 1) = Unpacked(bodies, k)
    <3>1. PICK b \in Seq(Nat) : b = bodies[k]
      <4>1. bodies[k] \in Seq(Nat)
        BY <1>1, ElementOfSeq
      <4> QED BY <4>1
    <3>2. data[(s + 1) + 1] = b[1]
      <4>1. 1 \in 1..l
        OBVIOUS
      <4> QED BY <2>4, <3>1, <4>1
    <3>3. Stands(data, s, b, l)
      <4>1. Len(data) = e + m /\ Len(b) = l
        BY <1>7, <2>1, <2>2, <3>1
      <4>2. s + 1 + l <= Len(data)
        BY SMTT(40), <2>4, <4>1
      <4> QED BY <2>4, <3>1, <4>1, <4>2 DEF Stands
    <3>4. Read(data, s, b, l)
      BY <1>7, <3>3, AdAtIs
    <3> QED BY <2>1, <3>1, <3>4 DEF Unpacked, Read
  <2>7. f[s + 1] = <<AdAt(data, s + 1)>> \o f[(s + 1) + 1 + data[s + 1]]
    BY <1>8, <2>5 DEF Ads
  <2> QED BY <2>2, <2>5, <2>6, <2>7
<1>10. f[p[z] + 1] = <<>>
  <2>1. PICK e \in Nat : e = p[z]
    BY <1>5
  <2>2. e + 1 \in 1..(Len(data) + 1)
    BY SMTT(40), <1>6, <1>7, <2>1
  <2>3. Stops(data, e + 1)
    <3>1. CASE m = 0
      BY <1>7, <2>1, <3>1 DEF Stops
    <3>2. CASE m # 0
      <4>1. m > 0 /\ 1 \in 1..Len(rest) /\ rest # <<>>
        BY <1>6, <3>2
      <4>2. rest[1] \in Nat
        BY <4>1, ElementOfSeq
      <4>3. PICK r \in Nat : r = rest[1]
        BY <4>2
      <4>4. data[e + 1] = r /\ (r = 0 \/ r >= m)
        BY <1>6, <1>7, <2>1, <4>1, <4>3 DEF IsEnd
      <4>5. Len(data) = e + m
        BY <1>7, <2>1
      <4> QED BY <4>3, <4>4, <4>5 DEF Stops
    <3> QED BY <3>1, <3>2
  <2> QED BY <1>8, <2>1, <2>2, <2>3 DEF Ads
<1> DEFINE Rest(i) == [k \in 1..i |-> Unpacked(bodies, z - i + k)]
           T == {i \in Nat : i <= z => f[p[z - i] + 1] = Rest(i)}
<1>11. 0 \in T
  <2>1. Rest(0) = <<>>
    OBVIOUS
  <2>2. z - 0 = z
    OBVIOUS
  <2> QED BY <1>10, <2>1, <2>2
<1>12. ASSUME NEW i \in Nat, i \in T PROVE i + 1 \in T
  <2> SUFFICES ASSUME i + 1 <= z PROVE f[p[z - (i + 1)] + 1] = Rest(i + 1)
    OBVIOUS
  <2>1. PICK k \in 1..z : k = z - i
    <3>1. z - i \in 1..z
      OBVIOUS
    <3> QED BY <3>1
  <2>2. z - (i + 1) = k - 1
    BY <2>1
  <2>3. f[p[k] + 1] = Rest(i)
    BY <1>12, <2>1
  <2>4. f[p[k - 1] + 1] = <<Unpacked(bodies, k)>> \o Rest(i)
    BY <1>9, <2>3
  <2>5. <<Unpacked(bodies, k)>> \o Rest(i) = Rest(i + 1)
    <3> DEFINE tl == Rest(i)
               all == Rest(i + 1)
    <3>1. tl = [j \in 1..i |-> tl[j]] /\ all = [j \in 1..(i + 1) |-> all[j]]
      OBVIOUS
    <3>2. all[1] = Unpacked(bodies, k)
      <4>1. 1 \in 1..(i + 1) /\ z - (i + 1) + 1 = k
        BY <2>1
      <4> QED BY <4>1
    <3>3. ASSUME NEW j \in 1..i PROVE all[1 + j] = tl[j]
      <4>1. 1 + j \in 1..(i + 1) /\ z - (i + 1) + (1 + j) = z - i + j
        OBVIOUS
      <4> QED BY <4>1
    <3>a. PICK t, al : t = tl /\ al = all
      OBVIOUS
    <3> HIDE DEF tl, all
    <3>b. PICK u : u = Unpacked(bodies, k)
      OBVIOUS
    <3>c. Extends(al, u, t, i)
      BY <3>1, <3>2, <3>3, <3>a, <3>b DEF Extends
    <3>4. <<u>> \o t = al
      BY <3>c, Prefixed
    <3> QED BY <3>4, <3>a, <3>b DEF tl, all
  <2> QED BY <2>2, <2>4, <2>5
<1> HIDE DEF T
<1>13. z \in T
  BY <1>11, <1>12, Induction
<1>14. f[p[0] + 1] = Rest(z)
  <2>1. z - z = 0
    OBVIOUS
  <2> QED BY <1>13, <2>1 DEF T
<1>15. Rest(z) = [k \in 1..z |-> Unpacked(bodies, k)]
  <2>1. \A k \in 1..z : z - z + k = k
    OBVIOUS
  <2> QED BY <2>1
<1>16. p[0] + 1 = 1
  BY <1>5
<1> QED BY <1>1, <1>8, <1>14, <1>15, <1>16

\* Bytes are numbers.
LEMMA Numbers ==
  ASSUME NEW s \in Seq(0..255)
  PROVE  s \in Seq(Nat) /\ \A i \in 1..Len(s) : s[i] \in 0..255
<1>1. PICK l \in Nat : l = Len(s)
  BY LenProperties
<1>2. \A i \in 1..l : s[i] \in 0..255
  BY <1>1, ElementOfSeq
<1>3. s = [i \in 1..l |-> s[i]]
  BY <1>1, LenProperties
<1>4. ASSUME NEW i \in 1..l PROVE s[i] \in Nat
  <2>1. PICK v \in 0..255 : v = s[i]
    BY <1>2
  <2>2. v \in Nat
    OBVIOUS
  <2> QED BY <2>1, <2>2
<1>5. s \in [1..l -> Nat]
  BY <1>3, <1>4
<1>6. s \in Seq(Nat)
  BY <1>5, Arranged
<1> QED BY <1>1, <1>2, <1>6

LEMMA Fixed ==
  ASSUME NEW l \in Nat, NEW s \in [1..l -> 0..255]
  PROVE  s \in Seq(Nat) /\ Len(s) = l
<1>1. s \in Seq(0..255) /\ Len(s) = l
  BY SMTT(40), Arranged
<1> QED BY <1>1, Numbers

\* What follows the first byte of a structure.
Payload(b) == SubSeq(b, 2, Len(b))

IsPayload(p, b) ==
  /\ p \in Seq(Nat) /\ Len(p) = Len(b) - 1
  /\ \A x \in 1..(Len(b) - 1) : p[x] = b[x + 1]

LEMMA PayloadIs ==
  ASSUME NEW b \in Seq(Nat), Len(b) \in 1..255
  PROVE  IsPayload(Payload(b), b)
<1>1. PICK l \in 1..255 : l = Len(b)
  OBVIOUS
<1>2. \A i \in 2..l : b[i] \in Nat
  <2>1. \A i \in 2..l : i \in 1..Len(b)
    BY <1>1
  <2> QED BY <2>1, ElementOfSeq
<1>3. (IF 2 <= l THEN l - 2 + 1 ELSE 0) = l - 1 /\ l - 2 + 1 = l - 1 /\ l \in Int /\ 2 \in Int
  OBVIOUS
<1>4. SubSeq(b, 2, l) \in Seq(Nat) /\ Len(SubSeq(b, 2, l)) = l - 1
  BY <1>2, <1>3, SubSeqProperties
<1>5. \A x \in 1..(l - 2 + 1) : SubSeq(b, 2, l)[x] = b[2 + x - 1]
  BY <1>2, <1>3, SubSeqProperties
<1>6. ASSUME NEW x \in 1..(l - 1) PROVE SubSeq(b, 2, l)[x] = b[x + 1]
  <2>1. x \in 1..(l - 2 + 1) /\ 2 + x - 1 = x + 1
    OBVIOUS
  <2> QED BY <1>5, <2>1
<1> QED BY <1>1, <1>4, <1>6 DEF Payload, IsPayload

\* The maker's data in front of what the maker says.
IsMaker(b, t) ==
  /\ b \in Seq(Nat) /\ Len(b) = 3 + Len(t) /\ b[1] = 255 /\ b[2] = 195 /\ b[3] = 3
  /\ \A j \in 1..Len(t) : b[3 + j] = t[j]

LEMMA MakerIs ==
  ASSUME NEW t \in Seq(Nat)
  PROVE  IsMaker(<<255, 195, 3>> \o t, t)
<1>1. PICK m \in Nat : m = Len(t)
  BY LenProperties
<1>2. <<255, 195, 3>> \in Seq(Nat)
  OBVIOUS
<1>3. PICK h \in Seq(Nat) : h = <<255, 195, 3>>
  BY <1>2
<1>4. Len(h) = 3 /\ h[1] = 255 /\ h[2] = 195 /\ h[3] = 3
  BY <1>3
<1>5. PICK o \in Nat : o = 3
  OBVIOUS
<1>6. Len(h) = o /\ Len(t) = m
  <2>1. Len(h) = 3
    BY <1>4
  <2> QED BY <1>1, <2>1, <1>5
<1>7. /\ h \o t \in Seq(Nat) /\ Len(h \o t) = o + m
      /\ \A x \in 1..(o + m) : (h \o t)[x] = IF x <= o THEN h[x] ELSE t[x - o]
  BY <1>6, ConcatProperties
<1>8. \A x \in 1..3 : (h \o t)[x] = h[x]
  BY <1>5, <1>7
<1>9. (h \o t)[1] = 255 /\ (h \o t)[2] = 195 /\ (h \o t)[3] = 3
  <2>1. 1 \in 1..3 /\ 2 \in 1..3 /\ 3 \in 1..3
    OBVIOUS
  <2>2. (h \o t)[1] = h[1] /\ (h \o t)[2] = h[2] /\ (h \o t)[3] = h[3]
    BY <1>8, <2>1
  <2> QED BY <1>4, <2>2
<1>10. ASSUME NEW j \in 1..m PROVE (h \o t)[3 + j] = t[j]
  <2>1. 3 + j \in 1..(o + m) /\ ~(3 + j <= o) /\ (3 + j) - o = j
    BY <1>5
  <2> QED BY <1>7, <2>1
<1> QED BY <1>1, <1>3, <1>5, <1>7, <1>9, <1>10 DEF IsMaker

\* What the maker says of a mesh: twelve bytes and the address.
IsMeshData(t, mesh) ==
  /\ t \in Seq(Nat) /\ Len(t) = 18
  /\ mesh \in Seq(Nat) /\ Len(mesh) = 6 /\ \A j \in 1..6 : t[12 + j] = mesh[j]

LEMMA MeshDataIs ==
  ASSUME NEW head \in [1..12 -> 0..255], NEW mesh \in [1..6 -> 0..255]
  PROVE  IsMeshData(head \o mesh, mesh)
<1>1. PICK o \in Nat, q \in Nat : o = 12 /\ q = 6
  OBVIOUS
<1>2. head \in [1..o -> 0..255] /\ mesh \in [1..q -> 0..255]
  BY <1>1
<1>3. head \in Seq(Nat) /\ Len(head) = o
  BY <1>2, Fixed
<1>4. mesh \in Seq(Nat) /\ Len(mesh) = q
  BY <1>2, Fixed
<1>5. /\ head \o mesh \in Seq(Nat) /\ Len(head \o mesh) = o + q
      /\ \A x \in 1..(o + q) : (head \o mesh)[x] = IF x <= o THEN head[x] ELSE mesh[x - o]
  BY ZenonT(60), <1>3, <1>4, ConcatProperties
<1>6. ASSUME NEW j \in 1..q PROVE (head \o mesh)[12 + j] = mesh[j]
  <2>1. 12 + j \in 1..(o + q) /\ ~(12 + j <= o) /\ (12 + j) - o = j
    BY <1>1
  <2> QED BY <1>5, <2>1
<1>7. head \o mesh \in Seq(Nat) /\ Len(head \o mesh) = o + q
  BY <1>5
<1>8. o + q = 18
  BY <1>1
<1>9. \A j \in 1..6 : (head \o mesh)[12 + j] = mesh[j]
  BY <1>1, <1>6
<1> QED BY <1>1, <1>4, <1>7, <1>8, <1>9 DEF IsMeshData

\* The service by 128 bits.
LongBody == <<7, 251, 52, 155, 95, 128, 0, 0, 128, 0, 16, 0, 0, 77, 254, 0, 0>>

IsLongBody(b) ==
  /\ b \in Seq(Nat) /\ Len(b) = 17 /\ b[1] = 7 /\ b[14] = 77 /\ b[15] = 254
  /\ \A i \in 1..16 \ {13, 14} : b[1 + i] = Base[i]

LEMMA LongBodyIs == IsLongBody(LongBody)
<1> DEFINE b == LongBody
<1>1. b \in Seq(Nat) /\ Len(b) = 17 /\ b[1] = 7 /\ b[14] = 77 /\ b[15] = 254
  BY DEF LongBody
<1>2. /\ b[2] = Base[1] /\ b[3] = Base[2] /\ b[4] = Base[3] /\ b[5] = Base[4]
      /\ b[6] = Base[5] /\ b[7] = Base[6] /\ b[8] = Base[7] /\ b[9] = Base[8]
      /\ b[10] = Base[9] /\ b[11] = Base[10] /\ b[12] = Base[11] /\ b[13] = Base[12]
      /\ b[16] = Base[15] /\ b[17] = Base[16]
  BY DEF LongBody, Base
<1> HIDE DEF b
<1>3. ASSUME NEW i \in 1..16 \ {13, 14} PROVE b[1 + i] = Base[i]
  <2>1. \/ i = 1 \/ i = 2 \/ i = 3 \/ i = 4 \/ i = 5 \/ i = 6 \/ i = 7 \/ i = 8
        \/ i = 9 \/ i = 10 \/ i = 11 \/ i = 12 \/ i = 15 \/ i = 16
    OBVIOUS
  <2> QED BY <1>2, <2>1
<1> QED BY <1>1, <1>3 DEF IsLongBody, b

\* The same sixteen bytes are the same service.
LEMMA LongSame ==
  ASSUME NEW p, NEW s \in Int, NEW b, NEW t \in Int, \A i \in 1..16 : p[s + i] = b[t + i]
  PROVE  Long(p, s) = Long(b, t)
<1>1. 13 \in 1..16 /\ 14 \in 1..16 /\ 1..16 \ {13, 14} \subseteq 1..16
  OBVIOUS
<1>2. p[s + 13] = b[t + 13] /\ p[s + 14] = b[t + 14]
  BY <1>1
<1>3. (\A i \in 1..16 \ {13, 14} : p[s + i] = Base[i])
      <=> \A i \in 1..16 \ {13, 14} : b[t + i] = Base[i]
  BY <1>1
<1> QED BY <1>2, <1>3 DEF Long

\* What a structure says for its maker, and what its bytes are by its kind.
Says(s) == IF s.kind = "mesh" THEN s.head \o s.mesh ELSE s.head

IsBody(b, s) ==
  /\ b \in Seq(Nat) /\ Len(b) \in 1..255
  /\ s.kind \in {"service", "long", "mesh", "old", "other"}
  /\ s.kind = "service" => b = <<3, 77, 254>>
  /\ s.kind = "long" => IsLongBody(b)
  /\ s.kind \in {"mesh", "old"} => IsMaker(b, Says(s)) /\ Says(s) \in Seq(Nat)
  /\ s.kind = "mesh" => IsMeshData(Says(s), s.mesh)
  /\ s.kind = "old" => Len(Says(s)) < 18
  /\ s.kind = "other" => IsForeign(b) /\ \A i \in 1..Len(b) : b[i] \in 0..255

LEMMA Regrouped ==
  ASSUME NEW a \in Seq(Nat), NEW b \in Seq(Nat), NEW c \in Seq(Nat)
  PROVE  a \o b \o c = a \o (b \o c)
BY ConcatAssociative

\* A structure's bytes are what its kind says.
LEMMA BodyIs ==
  ASSUME NEW s, IsStructure(s)
  PROVE  IsBody(Body(s), s)
<1>1. CASE s.kind = "service"
  <2>1. Body(s) = <<3, 77, 254>>
    BY <1>1 DEF Body
  <2>2. <<3, 77, 254>> \in Seq(Nat) /\ Len(<<3, 77, 254>>) = 3
    OBVIOUS
  <2> QED BY <1>1, <2>1, <2>2 DEF IsBody
<1>a. CASE s.kind = "long"
  <2>1. Body(s) = LongBody
    BY <1>a DEF Body, LongBody
  <2>2. LongBody \in Seq(Nat) /\ Len(LongBody) \in 1..255
    BY LongBodyIs DEF IsLongBody
  <2> QED BY <1>a, <2>1, <2>2, LongBodyIs DEF IsBody
<1>2. CASE s.kind = "mesh"
  <2>1. s.head \in [1..12 -> 0..255] /\ s.mesh \in [1..6 -> 0..255]
    BY <1>2 DEF IsStructure
  <2>2. PICK h \in [1..12 -> 0..255], m \in [1..6 -> 0..255] : h = s.head /\ m = s.mesh
    BY <2>1
  <2>3. IsMeshData(h \o m, m)
    BY MeshDataIs
  <2>a. Says(s) = h \o m
    BY <1>2, <2>2 DEF Says
  <2>4. PICK t \in Seq(Nat) : t = h \o m
    BY <2>3 DEF IsMeshData
  <2>5. IsMaker(<<255, 195, 3>> \o t, t)
    BY MakerIs
  <2>6. Body(s) = <<255, 195, 3>> \o h \o m
    BY <1>2, <2>2 DEF Body
  <2>7. <<255, 195, 3>> \o h \o m = <<255, 195, 3>> \o t
    <3>1. <<255, 195, 3>> \in Seq(Nat) /\ h \in Seq(Nat) /\ m \in Seq(Nat)
      <4>1. PICK o \in Nat, q \in Nat : o = 12 /\ q = 6
        OBVIOUS
      <4>2. h \in [1..o -> 0..255] /\ m \in [1..q -> 0..255]
        BY <4>1
      <4>3. h \in Seq(Nat)
        BY <4>2, Fixed
      <4>4. m \in Seq(Nat)
        BY <4>2, Fixed
      <4>5. <<255, 195, 3>> \in Seq(Nat)
        OBVIOUS
      <4> QED BY <4>3, <4>4, <4>5
    <3>3. PICK z \in Seq(Nat) : z = <<255, 195, 3>>
      BY <3>1
    <3>a. PICK u \in Seq(Nat), v \in Seq(Nat) : u = h /\ v = m
      BY <3>1
    <3>b. z \o u \o v = z \o (u \o v)
      BY Regrouped
    <3>4. z \o h \o m = z \o (h \o m)
      BY <3>a, <3>b
    <3> QED BY <2>4, <3>3, <3>4
  <2>b. PICK b : b = Body(s)
    BY SMTT(40)
  <2>c. b = <<255, 195, 3>> \o t
    BY <2>6, <2>7, <2>b
  <2>d. IsMaker(b, t)
    BY <2>5, <2>c
  <2>e. Len(t) = 18
    BY <2>3, <2>4 DEF IsMeshData
  <2>8. Len(Body(s)) = 3 + 18 /\ Body(s) \in Seq(Nat)
    BY <2>b, <2>d, <2>e DEF IsMaker
  <2>9. IsMaker(Body(s), Says(s)) /\ Says(s) \in Seq(Nat) /\ IsMeshData(Says(s), s.mesh)
    BY <2>2, <2>3, <2>a, <2>4, <2>b, <2>d
  <2> QED BY <1>2, <2>8, <2>9 DEF IsBody
<1>3. CASE s.kind = "old"
  <2>1. s.head \in Seq(0..255) /\ Len(s.head) < 18
    BY <1>3 DEF IsStructure
  <2>2. s.head \in Seq(Nat)
    BY <2>1, Numbers
  <2>3. PICK h \in Seq(Nat) : h = s.head
    BY <2>2
  <2>4. IsMaker(<<255, 195, 3>> \o h, h)
    BY MakerIs
  <2>5. Body(s) = <<255, 195, 3>> \o h /\ Says(s) = h
    BY <1>3, <2>3 DEF Body, Says
  <2>6. PICK m \in Nat : m = Len(h) /\ m < 18
    BY <2>1, <2>3, LenProperties
  <2>7. Len(Body(s)) = 3 + m /\ Body(s) \in Seq(Nat)
    BY <2>4, <2>5, <2>6 DEF IsMaker
  <2>8. IsMaker(Body(s), Says(s)) /\ Says(s) \in Seq(Nat)
    BY <2>4, <2>5
  <2>9. Len(Says(s)) < 18 /\ Len(Body(s)) \in 1..255
    <3>1. Len(Says(s)) = m
      BY <2>5, <2>6
    <3>a. m < 18
      BY <2>6
    <3>2. 3 + m \in 1..255
      BY <3>a
    <3> QED BY <2>7, <3>1, <3>a, <3>2
  <2> QED BY <1>3, <2>7, <2>8, <2>9 DEF IsBody
<1>4. CASE s.kind = "other"
  <2>1. s.body \in Seq(0..255) /\ Len(s.body) \in 1..255 /\ IsForeign(s.body)
    BY <1>4 DEF IsStructure
  <2>2. s.body \in Seq(Nat) /\ \A i \in 1..Len(s.body) : s.body[i] \in 0..255
    BY <2>1, Numbers
  <2>3. Body(s) = s.body
    BY <1>4 DEF Body
  <2> QED BY <1>4, <2>1, <2>2, <2>3 DEF IsBody
<1> QED BY <1>1, <1>a, <1>2, <1>3, <1>4 DEF IsStructure

\* What a structure is read as.
IsRead(a, s) ==
  \E b : /\ IsBody(b, s) /\ a.type = b[1] /\ IsPayload(a.payload, b)

Halves(p) == 1..(Len(p) \div 2)

Word(p, j) == p[2 * j - 1] + 256 * p[2 * j]

Holds16(p) == \E j \in Halves(p) : Word(p, j) = 65101

Holds128(p) == \E j \in 1..(Len(p) \div 16) : Long(p, 16 * j - 16) = 65101

HasService(a) == \/ a.type \in {2, 3} /\ Holds16(a.payload)
                 \/ a.type \in {6, 7} /\ Holds128(a.payload)

IsMakers(a) ==
  a.type = 255 /\ Len(a.payload) >= 2 /\ a.payload[1] + 256 * a.payload[2] = 963

\* It names Casambi's service if it is of that kind, and not otherwise.
LEMMA ServiceRead ==
  ASSUME NEW a, NEW s, IsRead(a, s)
  PROVE  HasService(a) <=> s.kind \in {"service", "long"}
<1>1. PICK b : IsBody(b, s) /\ a.type = b[1] /\ IsPayload(a.payload, b)
  BY DEF IsRead
<1>2. PICK l \in 1..255 : l = Len(b)
  BY <1>1 DEF IsBody
<1>3. PICK p \in Seq(Nat) : p = a.payload
  BY SMTT(40), <1>1 DEF IsPayload
<1>4. Len(p) = l - 1 /\ \A x \in 1..(l - 1) : p[x] = b[x + 1]
  BY <1>1, <1>2, <1>3 DEF IsPayload
<1>5. CASE s.kind = "service"
  <2>1. b = <<3, 77, 254>>
    BY <1>1, <1>5 DEF IsBody
  <2>2. Len(b) = 3 /\ b[1] = 3 /\ b[2] = 77 /\ b[3] = 254
    BY <2>1
  <2>3. l = 3
    BY <1>2, <2>2
  <2>4. p[1] = 77 /\ p[2] = 254 /\ Len(p) = 2
    <3>1. 1 \in 1..(l - 1) /\ 2 \in 1..(l - 1) /\ l - 1 = 2
      BY <2>3
    <3>2. p[1] = b[1 + 1] /\ p[2] = b[2 + 1]
      BY <1>4, <3>1
    <3> QED BY <1>4, <2>2, <3>1, <3>2
  <2>5. Holds16(p)
    <3>1. 1 \in 1..(Len(p) \div 2) /\ p[2 * 1 - 1] = 77 /\ p[2 * 1] = 254
      BY <2>4
    <3> QED BY <3>1 DEF Holds16, Halves, Word
  <2>6. a.type \in {2, 3}
    BY <1>1, <2>2
  <2> QED BY <1>3, <1>5, <2>5, <2>6 DEF HasService
<1>a. CASE s.kind = "long"
  <2>1. IsLongBody(b)
    BY <1>1, <1>a DEF IsBody
  <2>2. l = 17 /\ a.type = 7
    BY <1>1, <1>2, <2>1 DEF IsLongBody
  <2>3. \A x \in 1..16 : p[x] = b[x + 1]
    BY <1>4, <2>2
  <2>4. \A i \in 1..16 \ {13, 14} : p[0 + i] = Base[i]
    <3> TAKE i \in 1..16 \ {13, 14}
    <3>1. 0 + i = i /\ i \in 1..16 /\ i + 1 = 1 + i
      OBVIOUS
    <3>2. p[i] = b[i + 1] /\ b[1 + i] = Base[i]
      BY <2>1, <2>3, <3>1 DEF IsLongBody
    <3> QED BY <3>1, <3>2
  <2>5. p[0 + 13] = 77 /\ p[0 + 14] = 254
    <3>1. p[13] = b[13 + 1] /\ p[14] = b[14 + 1]
      BY <2>3
    <3> QED BY <2>1, <3>1 DEF IsLongBody
  <2>6. Long(p, 0) = 65101
    BY <2>4, <2>5 DEF Long
  <2>7. Holds128(p)
    <3>1. PICK j \in 1..(Len(p) \div 16) : 16 * j - 16 = 0
      <4>1. Len(p) = 16
        BY <1>4, <2>2
      <4>2. 1 \in 1..(Len(p) \div 16) /\ 16 * 1 - 16 = 0
        BY <4>1
      <4> QED BY <4>2
    <3> QED BY <2>6, <3>1 DEF Holds128
  <2> QED BY <1>3, <1>a, <2>2, <2>7 DEF HasService
<1>6. CASE s.kind \in {"mesh", "old"}
  <2>1. b[1] = 255
    BY <1>1, <1>6 DEF IsBody, IsMaker
  <2>2. a.type = 255
    BY <1>1, <2>1
  <2> QED BY <1>6, <2>2 DEF HasService
<1>7. CASE s.kind = "other"
  <2>1. IsForeign(b) /\ \A i \in 1..Len(b) : b[i] \in 0..255
    BY <1>1, <1>7 DEF IsBody
  <2> SUFFICES ASSUME HasService(a) PROVE FALSE
    BY <1>7
  <2>2. ASSUME b[1] \in {2, 3}, Holds16(p) PROVE FALSE
    <3>2. PICK j \in 1..(Len(p) \div 2) : p[2 * j - 1] + 256 * p[2 * j] = 65101
      BY <2>2 DEF Holds16, Halves, Word
    <3>3. j \in Nat /\ j >= 1 /\ 2 * j <= l - 1 /\ j <= l \div 2
      BY <1>4, <3>2
    <3>4. PICK x \in Nat : x = 2 * j
      BY <3>3
    <3>5. x \in 1..(l - 1) /\ x - 1 \in 1..(l - 1) /\ x \in 1..l /\ x + 1 \in 1..l
      BY <3>3, <3>4
    <3>6. p[x - 1] = b[x] /\ p[x] = b[x + 1]
      <4>1. (x - 1) + 1 = x
        OBVIOUS
      <4> QED BY SMTT(40), <1>4, <3>5, <4>1
    <3>7. PICK u \in 0..255, v \in 0..255 : u = b[x] /\ v = b[x + 1]
      BY <1>2, <2>1, <3>5
    <3>8. u + 256 * v = 65101
      BY <3>2, <3>4, <3>6, <3>7
    <3>9. u = 77 /\ v = 254
      BY <3>8
    <3>11. ~(2 * j + 1 <= Len(b) /\ b[2 * j] = 77 /\ b[2 * j + 1] = 254)
      <4>1. j \in 1..(Len(b) \div 2)
        BY <1>2, <3>3
      <4> QED BY <2>1, <2>2, <4>1 DEF IsForeign
    <3>12. x + 1 <= Len(b)
      BY <1>2, <3>5
    <3> QED BY <3>4, <3>7, <3>9, <3>11, <3>12
  <2>3. ASSUME b[1] \in {6, 7}, Holds128(p) PROVE FALSE
    <3>1. PICK j \in 1..(Len(p) \div 16) : Long(p, 16 * j - 16) = 65101
      BY <2>3 DEF Holds128
    <3>2. j \in 1..((Len(b) - 1) \div 16) /\ j \in Nat /\ 1 <= j /\ 16 * j <= l - 1
      BY <1>2, <1>4
    <3>3. PICK x \in Nat, y \in Nat : x = 16 * j - 16 /\ y = 16 * j - 15
      BY <3>2
    <3>4. y = x + 1 /\ x + 16 <= l - 1
      BY <3>2, <3>3
    <3>5. ASSUME NEW i \in 1..16 PROVE p[x + i] = b[y + i]
      <4>1. x + i \in 1..(l - 1) /\ (x + i) + 1 = y + i
        BY <3>4
      <4>2. p[x + i] = b[(x + i) + 1]
        BY <1>4, <4>1
      <4> QED BY <4>1, <4>2
    <3>6. Long(p, x) = Long(b, y)
      BY <3>5, LongSame
    <3>7. Long(b, 16 * j - 15) # 65101
      BY <2>1, <2>3, <3>2 DEF IsForeign
    <3> QED BY <3>1, <3>3, <3>6, <3>7
  <2> QED BY <1>1, <1>3, <2>2, <2>3 DEF HasService
<1> QED BY <1>1, <1>5, <1>a, <1>6, <1>7 DEF IsBody

\* It has the maker's data if it is of these kinds, with what the maker says.
LEMMA MakersRead ==
  ASSUME NEW a, NEW s, IsRead(a, s)
  PROVE  /\ IsMakers(a) <=> s.kind \in {"mesh", "old"}
         /\ s.kind \in {"mesh", "old"} => SubSeq(a.payload, 3, Len(a.payload)) = Says(s)
<1>1. PICK b : IsBody(b, s) /\ a.type = b[1] /\ IsPayload(a.payload, b)
  BY DEF IsRead
<1>2. PICK l \in 1..255 : l = Len(b)
  BY <1>1 DEF IsBody
<1>3. PICK p \in Seq(Nat) : p = a.payload
  BY <1>1 DEF IsPayload
<1>4. Len(p) = l - 1 /\ \A x \in 1..(l - 1) : p[x] = b[x + 1]
  BY <1>1, <1>2, <1>3 DEF IsPayload
<1>5. CASE s.kind = "service"
  <2>1. b = <<3, 77, 254>>
    BY <1>1, <1>5 DEF IsBody
  <2>2. a.type = 3
    BY <1>1, <2>1
  <2> QED BY <1>5, <2>2 DEF IsMakers
<1>a. CASE s.kind = "long"
  <2>1. a.type = 7
    BY <1>1, <1>a DEF IsBody, IsLongBody
  <2> QED BY <1>a, <2>1 DEF IsMakers
<1>6. CASE s.kind \in {"mesh", "old"}
  <2>1. PICK t \in Seq(Nat) : t = Says(s)
    BY <1>1, <1>6 DEF IsBody
  <2>2. IsMaker(b, t)
    BY <1>1, <1>6, <2>1 DEF IsBody
  <2>3. PICK m \in Nat : m = Len(t)
    BY LenProperties
  <2>4. l = 3 + m /\ b[1] = 255 /\ b[2] = 195 /\ b[3] = 3 /\ \A j \in 1..m : b[3 + j] = t[j]
    BY <1>2, <2>2, <2>3 DEF IsMaker
  <2>5. Len(p) = 2 + m
    BY <1>4, <2>4
  <2>6. p[1] = 195 /\ p[2] = 3
    <3>1. 1 \in 1..(l - 1) /\ 2 \in 1..(l - 1)
      BY <2>4
    <3>2. p[1] = b[1 + 1] /\ p[2] = b[2 + 1]
      BY <1>4, <3>1
    <3> QED BY <2>4, <3>2
  <2>7. IsMakers(a)
    BY <1>1, <1>3, <2>4, <2>5, <2>6 DEF IsMakers
  <2>8. ASSUME NEW j \in 1..m PROVE p[2 + j] = t[j]
    <3>1. 2 + j \in 1..(l - 1) /\ (2 + j) + 1 = 3 + j
      BY <2>4
    <3>2. p[2 + j] = b[(2 + j) + 1]
      BY <1>4, <3>1
    <3> QED BY <2>4, <3>1, <3>2
  <2>9. SubSeq(p, 3, 2 + m) = t
    <3>1. EndsAs(p, t, m)
      BY <2>3, <2>5, <2>8 DEF EndsAs
    <3> QED BY <3>1, AfterTwo DEF EndSliced
  <2> QED BY <1>3, <1>6, <2>1, <2>5, <2>7, <2>9
<1>7. CASE s.kind = "other"
  <2>1. IsForeign(b) /\ \A i \in 1..Len(b) : b[i] \in 0..255
    BY <1>1, <1>7 DEF IsBody
  <2> SUFFICES ASSUME IsMakers(a) PROVE FALSE
    BY <1>7
  <2>2. a.type = 255 /\ Len(p) >= 2 /\ p[1] + 256 * p[2] = 963
    BY <1>3 DEF IsMakers
  <2>3. l >= 3
    BY <1>4, <2>2
  <2>4. p[1] = b[2] /\ p[2] = b[3]
    <3>1. 1 \in 1..(l - 1) /\ 2 \in 1..(l - 1)
      BY <2>3
    <3>2. p[1] = b[1 + 1] /\ p[2] = b[2 + 1]
      BY SMTT(40), <1>4, <3>1
    <3> QED BY <3>2
  <2>5. PICK u \in 0..255, v \in 0..255 : u = b[2] /\ v = b[3]
    <3>1. 2 \in 1..Len(b) /\ 3 \in 1..Len(b)
      BY <1>2, <2>3
    <3> QED BY <2>1, <3>1
  <2>6. u + 256 * v = 963
    BY <2>2, <2>4, <2>5
  <2>7. u = 195 /\ v = 3
    BY <2>6
  <2>8. b[1] = 255
    BY <1>1, <2>2
  <2>9. Len(b) < 3 \/ b[2] # 195 \/ b[3] # 3
    BY <2>1, <2>8 DEF IsForeign
  <2> QED BY <1>2, <2>3, <2>5, <2>7, <2>9
<1> QED BY <1>1, <1>5, <1>a, <1>6, <1>7 DEF IsBody

Bodies(adv) == [k \in 1..Len(adv.sent) |-> Body(adv.sent[k])]

LEMMA SentIs ==
  ASSUME NEW adv, IsAdvertisement(adv)
  PROVE  /\ Len(adv.sent) \in Nat /\ DOMAIN adv.sent = 1..Len(adv.sent)
         /\ Range(adv.sent) = {adv.sent[k] : k \in 1..Len(adv.sent)}
         /\ \A k \in 1..Len(adv.sent) : IsStructure(adv.sent[k])
<1>1. adv.sent \in Seq(Range(adv.sent)) /\ \A s \in Range(adv.sent) : IsStructure(s)
  BY DEF IsAdvertisement
<1>2. Len(adv.sent) \in Nat /\ DOMAIN adv.sent = 1..Len(adv.sent)
  BY <1>1, LenProperties
<1>3. Range(adv.sent) = {adv.sent[k] : k \in 1..Len(adv.sent)}
  BY <1>2, Zenon DEF Range
<1> QED BY <1>1, <1>2, <1>3

\* The structures an advertisement was packed from.
LEMMA BodiesAre ==
  ASSUME NEW adv, IsAdvertisement(adv)
  PROVE  /\ Bodies(adv) \in Seq(Seq(Nat)) /\ Len(Bodies(adv)) = Len(adv.sent)
         /\ \A k \in 1..Len(adv.sent) : /\ Bodies(adv)[k] = Body(adv.sent[k])
                                        /\ IsBody(Bodies(adv)[k], adv.sent[k])
<1>1. PICK l \in Nat : l = Len(adv.sent)
  BY SentIs
<1>2. PICK q : q = Bodies(adv)
  OBVIOUS
<1>3. q = [k \in 1..l |-> q[k]] /\ \A k \in 1..l : q[k] = Body(adv.sent[k])
  BY <1>1, <1>2 DEF Bodies
<1>4. ASSUME NEW k \in 1..l PROVE IsBody(q[k], adv.sent[k])
  <2>1. PICK s : s = adv.sent[k]
    OBVIOUS
  <2>2. IsStructure(s)
    BY <1>1, <2>1, SentIs
  <2>3. IsBody(Body(s), s)
    BY <2>2, BodyIs
  <2> QED BY <1>3, <2>1, <2>3
<1>5. \A k \in 1..l : q[k] \in Seq(Nat)
  BY <1>4 DEF IsBody
<1>6. \E T : T = Seq(Nat)
  OBVIOUS
<1>7. PICK T : T = Seq(Nat)
  BY <1>6
<1>8. q \in [1..l -> T]
  BY <1>3, <1>5, <1>7
<1>9. q \in Seq(T) /\ Len(q) = l
  BY <1>8, Arranged
<1> QED BY <1>1, <1>2, <1>3, <1>4, <1>7, <1>9

Heard(adv) == _parse_ad_structures(Bytes(adv))

\* An advertisement is read as the structures that were sent.
LEMMA HeardIs ==
  ASSUME NEW adv, IsAdvertisement(adv)
  PROVE  /\ DOMAIN Heard(adv) = 1..Len(adv.sent)
         /\ \A k \in 1..Len(adv.sent) : IsRead(Heard(adv)[k], adv.sent[k])
<1>1. PICK l \in Nat : l = Len(adv.sent)
  BY SentIs
<1>2. PICK q \in Seq(Seq(Nat)) : q = Bodies(adv)
  BY BodiesAre
<1>3. Len(q) = l /\ \A k \in 1..l : q[k] = Body(adv.sent[k]) /\ IsBody(q[k], adv.sent[k])
  BY <1>1, <1>2, BodiesAre
<1>4. PICK rest \in Seq(Nat) : rest = adv.rest
  <2>1. adv.rest \in Seq(0..255)
    BY DEF IsAdvertisement
  <2> QED BY <2>1, Numbers
<1>5. IsEnd(rest)
  BY <1>4 DEF IsAdvertisement, IsEnd
<1>6. Bytes(adv) = FlattenSeq(Packed(q)) \o rest
  <2>1. Packed(q) = [i \in 1..Len(adv.sent) |-> <<Len(Body(adv.sent[i]))>> \o Body(adv.sent[i])]
    BY <1>1, <1>3 DEF Packed
  <2> QED BY <1>4, <2>1 DEF Bytes
<1>7. \A k \in 1..Len(q) : Len(q[k]) \in 1..255
  BY SMTT(40), <1>3 DEF IsBody
<1>8. PICK data : data = Bytes(adv)
  OBVIOUS
<1>9. _parse_ad_structures(data) = [k \in 1..Len(q) |-> Unpacked(q, k)]
  BY <1>5, <1>6, <1>7, <1>8, ParsedBack
<1>10. Heard(adv) = [k \in 1..l |-> Unpacked(q, k)]
  BY <1>3, <1>8, <1>9 DEF Heard
<1>11. ASSUME NEW k \in 1..l PROVE IsRead(Unpacked(q, k), adv.sent[k])
  <2>1. PICK b \in Seq(Nat) : b = q[k]
    BY <1>3 DEF IsBody
  <2>2. IsBody(b, adv.sent[k]) /\ Len(b) \in 1..255
    <3>1. IsBody(b, adv.sent[k])
      BY <1>3, <2>1
    <3> QED BY <3>1 DEF IsBody
  <2>3. IsPayload(Payload(b), b)
    BY <2>2, PayloadIs
  <2>4. Unpacked(q, k) = [type |-> b[1], payload |-> Payload(b)]
    BY <2>1 DEF Unpacked, Payload
  <2>5. Unpacked(q, k).type = b[1] /\ Unpacked(q, k).payload = Payload(b)
    BY <2>4
  <2> QED BY <2>2, <2>3, <2>5 DEF IsRead
<1>12. DOMAIN Heard(adv) = 1..l
  BY <1>10
<1>13. \A k \in 1..l : Heard(adv)[k] = Unpacked(q, k)
  BY <1>10
<1> QED BY <1>1, <1>11, <1>12, <1>13

Words(p) == {Word(p, j) : j \in Halves(p)}

Longs(p) == {Long(p, 16 * j - 16) : j \in 1..(Len(p) \div 16)}

Payloads(ads, types) == {ads[i].payload : i \in {k \in DOMAIN ads : ads[k].type \in types}}

\* The service is among all services if a structure names it.
LEMMA ServicesAre ==
  ASSUME NEW ads
  PROVE  65101 \in Services(ads) <=> \E i \in DOMAIN ads : HasService(ads[i])
<1>1. Services(ads) = UNION ({Words(p) : p \in Payloads(ads, {2, 3})}
                             \cup {Longs(p) : p \in Payloads(ads, {6, 7})})
  BY Zenon DEF Services, Words, Word, Halves, Longs, Payloads
<1>a. \A p, w : w \in Words(p) <=> \E j \in Halves(p) : Word(p, j) = w
  BY DEF Words
<1>b. \A p, w : w \in Longs(p) <=> \E j \in 1..(Len(p) \div 16) : Long(p, 16 * j - 16) = w
  BY DEF Longs
<1>2. \A p : (65101 \in Words(p) <=> Holds16(p)) /\ (65101 \in Longs(p) <=> Holds128(p))
  BY <1>a, <1>b DEF Holds16, Holds128
<1>4. PICK w : w = 65101
  OBVIOUS
<1>5. w \in Services(ads) <=> \/ \E p \in Payloads(ads, {2, 3}) : w \in Words(p)
                             \/ \E p \in Payloads(ads, {6, 7}) : w \in Longs(p)
  BY <1>1
<1>6. (\E p \in Payloads(ads, {2, 3}) : w \in Words(p)) <=>
      \E i \in DOMAIN ads : ads[i].type \in {2, 3} /\ w \in Words(ads[i].payload)
  BY DEF Payloads
<1>7. (\E p \in Payloads(ads, {6, 7}) : w \in Longs(p)) <=>
      \E i \in DOMAIN ads : ads[i].type \in {6, 7} /\ w \in Longs(ads[i].payload)
  BY DEF Payloads
<1>8. \A i \in DOMAIN ads : HasService(ads[i]) <=>
        \/ ads[i].type \in {2, 3} /\ w \in Words(ads[i].payload)
        \/ ads[i].type \in {6, 7} /\ w \in Longs(ads[i].payload)
  BY <1>2, <1>4 DEF HasService
<1> QED BY <1>4, <1>5, <1>6, <1>7, <1>8

MakersAt(ads) == {i \in DOMAIN ads : IsMakers(ads[i])}

Rightmost(at) == CHOOSE i \in at : \A j \in at : j <= i

AfterMaker(p) == SubSeq(p, 3, Len(p))

\* The maker's data is that of the one structure that has it.
LEMMA ManufacturerIs ==
  ASSUME NEW ads
  PROVE  /\ MakersAt(ads) = {} => Manufacturer(ads) = <<>>
         /\ \A k \in Nat : MakersAt(ads) = {k} =>
              Manufacturer(ads) = <<AfterMaker(ads[k].payload)>>
<1>1. Manufacturer(ads) =
        IF MakersAt(ads) = {} THEN <<>>
        ELSE <<AfterMaker(ads[Rightmost(MakersAt(ads))].payload)>>
  BY Zenon DEF Manufacturer, IsMakers, MakersAt, Rightmost, AfterMaker
<1>2. ASSUME NEW k \in Nat, MakersAt(ads) = {k} PROVE Rightmost(MakersAt(ads)) = k
  <2>1. k <= k
    OBVIOUS
  <2>2. \A i \in {k} : i = k
    OBVIOUS
  <2> QED BY <1>2, <2>1, <2>2 DEF Rightmost
<1> QED BY <1>1, <1>2

\* The mesh at the end of what the maker says.
Addressed(t, mesh) == _extract_network_address(t) = mesh

LEMMA AddressedIs ==
  ASSUME NEW t, NEW mesh, IsMeshData(t, mesh)
  PROVE  Addressed(t, mesh)
<1>1. /\ t \in Seq(Nat) /\ Len(t) = 18
      /\ mesh \in Seq(Nat) /\ Len(mesh) = 6 /\ \A j \in 1..6 : t[12 + j] = mesh[j]
  BY DEF IsMeshData
<1>2. \A i \in 13..18 : t[i] \in Nat
  <2>1. \A i \in 13..18 : i \in 1..Len(t)
    BY <1>1
  <2> QED BY <1>1, <2>1, ElementOfSeq
<1>3. (IF 13 <= 18 THEN 18 - 13 + 1 ELSE 0) = 6 /\ 18 - 13 + 1 = 6 /\ 13 \in Int /\ 18 \in Int
  OBVIOUS
<1>4. SubSeq(t, 13, 18) \in Seq(Nat) /\ Len(SubSeq(t, 13, 18)) = 6
  BY <1>1, <1>2, <1>3, SubSeqProperties
<1>5. \A x \in 1..(18 - 13 + 1) : SubSeq(t, 13, 18)[x] = t[13 + x - 1]
  BY <1>1, <1>2, <1>3, SubSeqProperties
<1>6. ASSUME NEW x \in 1..6 PROVE SubSeq(t, 13, 18)[x] = mesh[x]
  <2>1. x \in 1..(18 - 13 + 1) /\ 13 + x - 1 = 12 + x
    OBVIOUS
  <2>2. SubSeq(t, 13, 18)[x] = t[12 + x]
    BY <1>5, <2>1
  <2> QED BY <1>1, <2>2
<1>7. SubSeq(t, 13, 18) = mesh
  BY <1>1, <1>4, <1>6, SeqEqual
<1> QED BY <1>7 DEF Addressed, _extract_network_address

\* One structure at most has the maker's data.
LEMMA OneMaker ==
  ASSUME NEW adv, IsAdvertisement(adv), NEW i \in 1..Len(adv.sent), NEW j \in 1..Len(adv.sent),
         adv.sent[i].kind \in {"mesh", "old"}, adv.sent[j].kind \in {"mesh", "old"}
  PROVE  i = j
<1>1. DOMAIN adv.sent = 1..Len(adv.sent)
  BY SentIs
<1>2. PICK a, b : a = adv.sent[i].kind /\ b = adv.sent[j].kind
  OBVIOUS
<1>3. {a, b} \subseteq {"mesh", "old"}
  BY <1>2
<1> QED BY <1>1, <1>2, <1>3 DEF IsAdvertisement

\* The mesh of a device by the kinds of its structures.
LEMMA MeshIs ==
  ASSUME NEW adv, IsAdvertisement(adv), NEW l, l = Len(adv.sent)
  PROVE  /\ \A k \in 1..l : adv.sent[k].kind = "mesh" => Mesh(adv) = adv.sent[k].mesh
         /\ (\A k \in 1..l : adv.sent[k].kind # "mesh") =>
              IF \E k \in 1..l : adv.sent[k].kind \in {"service", "long", "old"}
              THEN Mesh(adv) = adv.address ELSE Mesh(adv) = <<>>
<1> DEFINE R == Range(adv.sent)
           kinds == {s.kind : s \in R}
<1>1. R = {adv.sent[k] : k \in 1..l} /\ DOMAIN adv.sent = 1..l
  BY SentIs
<1>2. Mesh(adv) = IF "mesh" \in kinds THEN (CHOOSE s \in R : s.kind = "mesh").mesh
                  ELSE IF kinds \cap {"service", "long", "old"} # {} THEN adv.address ELSE <<>>
  BY DEF Mesh
<1> HIDE DEF R
<1>3. ASSUME NEW k \in 1..l, adv.sent[k].kind = "mesh" PROVE Mesh(adv) = adv.sent[k].mesh
  <2>1. "mesh" \in kinds
    BY <1>1, <1>3
  <2>2. PICK s \in R : s.kind = "mesh" /\ s = (CHOOSE q \in R : q.kind = "mesh")
    <3>1. adv.sent[k] \in R
      BY <1>1
    <3> QED BY <1>3, <3>1
  <2>3. PICK i \in 1..l : s = adv.sent[i]
    BY <1>1
  <2>4. i = k
    BY <1>3, <2>2, <2>3, OneMaker
  <2> QED BY <1>2, <2>1, <2>2, <2>3, <2>4
<1>4. ASSUME \A k \in 1..l : adv.sent[k].kind # "mesh"
      PROVE  IF \E k \in 1..l : adv.sent[k].kind \in {"service", "long", "old"}
             THEN Mesh(adv) = adv.address ELSE Mesh(adv) = <<>>
  <2>1. "mesh" \notin kinds
    BY <1>1, <1>4
  <2>2. kinds \cap {"service", "long", "old"} # {} <=> \E k \in 1..l : adv.sent[k].kind \in {"service", "long", "old"}
    BY <1>1
  <2> QED BY <1>2, <2>1, <2>2
<1> QED BY <1>3, <1>4

\* What discover makes of an advertisement.
Listed(adv) ==
  /\ IsCasambi(Bytes(adv)) <=> Mesh(adv) # <<>>
  /\ Mesh(adv) # <<>> => Key(adv) = Mesh(adv)

LEMMA KeyOf ==
  ASSUME NEW adv
  PROVE  /\ IsCasambi(Bytes(adv)) <=> 65101 \in Services(Heard(adv)) \/ Manufacturer(Heard(adv)) # <<>>
         /\ Manufacturer(Heard(adv)) = <<>> => Key(adv) = adv.address
         /\ \A t : Manufacturer(Heard(adv)) = <<t>> =>
              Key(adv) = IF Len(t) < 18 THEN adv.address ELSE _extract_network_address(t)
<1>1. IsCasambi(Bytes(adv)) <=> 65101 \in Services(Heard(adv)) \/ Manufacturer(Heard(adv)) # <<>>
  BY DEF IsCasambi, Heard
<1>2. PICK m : m = Manufacturer(Heard(adv))
  OBVIOUS
<1>3. Key(adv) = IF m = <<>> THEN adv.address
                 ELSE IF Len(m[1]) < 18 THEN adv.address ELSE _extract_network_address(m[1])
  BY <1>2 DEF Key, Heard
<1> QED BY <1>1, <1>2, <1>3

\* It is listed if it is of a mesh, under that mesh.
LEMMA ListedIs ==
  ASSUME NEW adv, IsAdvertisement(adv)
  PROVE  Listed(adv)
<1>1. PICK l \in Nat : l = Len(adv.sent)
  BY SentIs
<1>2. PICK ads : ads = Heard(adv)
  OBVIOUS
<1>3. DOMAIN ads = 1..l /\ \A k \in 1..l : IsRead(ads[k], adv.sent[k])
  BY <1>1, <1>2, HeardIs
<1>4. 65101 \in Services(ads) <=> \E k \in 1..l : adv.sent[k].kind \in {"service", "long"}
  BY <1>3, ServicesAre, ServiceRead
<1>5. MakersAt(ads) = {k \in 1..l : adv.sent[k].kind \in {"mesh", "old"}}
  <2>1. \A k \in 1..l : IsMakers(ads[k]) <=> adv.sent[k].kind \in {"mesh", "old"}
    BY SMTT(40), <1>3, MakersRead
  <2> QED BY <1>3, <2>1 DEF MakersAt
<1>6. \A k \in 1..l : adv.sent[k].kind \in {"service", "long", "mesh", "old", "other"}
  BY <1>1, SentIs DEF IsStructure
<1>7. adv.address # <<>>
  BY DEF IsAdvertisement
<1>8. CASE \A k \in 1..l : adv.sent[k].kind \notin {"mesh", "old"}
  <2>1. Manufacturer(ads) = <<>>
    <3>1. MakersAt(ads) = {}
      BY <1>5, <1>8
    <3> QED BY <3>1, ManufacturerIs
  <2>2. Key(adv) = adv.address /\ (IsCasambi(Bytes(adv)) <=> 65101 \in Services(ads))
    BY <1>2, <2>1, KeyOf
  <2>3. IF \E k \in 1..l : adv.sent[k].kind \in {"service", "long"}
        THEN Mesh(adv) = adv.address ELSE Mesh(adv) = <<>>
    <3>1. \A k \in 1..l : adv.sent[k].kind # "mesh"
      BY <1>8
    <3>2. IF \E k \in 1..l : adv.sent[k].kind \in {"service", "long", "old"}
          THEN Mesh(adv) = adv.address ELSE Mesh(adv) = <<>>
      BY <1>1, <3>1, MeshIs
    <3>3. (\E k \in 1..l : adv.sent[k].kind \in {"service", "long", "old"}) <=>
          \E k \in 1..l : adv.sent[k].kind \in {"service", "long"}
      BY <1>8
    <3> QED BY <3>2, <3>3
  <2> QED BY <1>4, <1>7, <2>2, <2>3 DEF Listed
<1>9. ASSUME NEW k \in 1..l, adv.sent[k].kind \in {"mesh", "old"} PROVE Listed(adv)
  <2>1. PICK s : s = adv.sent[k]
    OBVIOUS
  <2>2. \A i \in 1..l : adv.sent[i].kind \in {"mesh", "old"} => i = k
    BY <1>1, <1>9, OneMaker
  <2>3. MakersAt(ads) = {k}
    BY <1>5, <1>9, <2>2
  <2>4. k \in Nat
    OBVIOUS
  <2>5. Manufacturer(ads) = <<AfterMaker(ads[k].payload)>>
    BY <2>3, <2>4, ManufacturerIs
  <2>6. PICK t : t = Says(s)
    OBVIOUS
  <2>7. AfterMaker(ads[k].payload) = t
    <3>1. IsRead(ads[k], s)
      BY <1>3, <2>1
    <3> QED BY <1>9, <2>1, <2>6, <3>1, MakersRead DEF AfterMaker
  <2>8. /\ IsCasambi(Bytes(adv))
        /\ Key(adv) = IF Len(t) < 18 THEN adv.address ELSE _extract_network_address(t)
    <3>1. Manufacturer(ads) = <<t>>
      BY <2>5, <2>7
    <3>2. <<t>> # <<>>
      OBVIOUS
    <3> QED BY <1>2, <3>1, <3>2, KeyOf
  <2>9. IsBody(Body(s), s)
    <3>1. IsStructure(s)
      BY <1>1, <2>1, SentIs
    <3> QED BY <3>1, BodyIs
  <2>10. CASE s.kind = "mesh"
    <3>1. PICK m : m = s.mesh
      OBVIOUS
    <3>2. IsMeshData(t, m)
      BY <2>6, <2>9, <2>10, <3>1 DEF IsBody
    <3>3. _extract_network_address(t) = m
      BY <3>2, AddressedIs DEF Addressed
    <3>4. ~(Len(t) < 18) /\ m # <<>>
      <4>1. Len(t) = 18 /\ Len(m) = 6
        BY <3>2 DEF IsMeshData
      <4>2. Len(<<>>) = 0
        OBVIOUS
      <4>3. m # <<>>
        BY <4>1, <4>2
      <4> QED BY <4>1, <4>3
    <3>5. Mesh(adv) = m
      BY <1>1, <2>1, <2>10, <3>1, MeshIs
    <3> QED BY <2>8, <3>3, <3>4, <3>5 DEF Listed
  <2>11. CASE s.kind = "old"
    <3>1. Len(t) < 18
      BY <2>6, <2>9, <2>11 DEF IsBody
    <3>2. \A i \in 1..l : adv.sent[i].kind # "mesh"
      BY <2>1, <2>2, <2>11
    <3>3. Mesh(adv) = adv.address
      BY <1>1, <2>1, <2>11, <3>2, MeshIs
    <3> QED BY <1>7, <2>8, <3>1, <3>3 DEF Listed
  <2> QED BY <1>9, <2>1, <2>10, <2>11
<1> QED BY <1>8, <1>9

\* RelaysCollapse of what was heard and what was found.
Collapsed(h, f) ==
  /\ DOMAIN f = {Mesh(h[i]) : i \in DOMAIN h} \ {<<>>}
  /\ \A m \in DOMAIN f :
       \E i \in DOMAIN h : /\ Mesh(h[i]) = m /\ f[m] = h[i].address
                          /\ \A j \in 1..(i - 1) : Mesh(h[j]) # m

\* Each mesh is a key, with the address of the device heard first for it.
LEMMA DiscoveredIs ==
  ASSUME NEW advs \in Scans
  PROVE  Collapsed(advs, Discovered(advs))
<1>1. PICK l \in Nat : DOMAIN advs = 1..l
  <2>1. advs \in Seq(Range(advs))
    BY ScansAssumption
  <2> QED BY <2>1, LenProperties
<1>2. \A i \in 1..l : Listed(advs[i])
  <2>1. ASSUME NEW i \in 1..l PROVE Listed(advs[i])
    <3>1. advs[i] \in Range(advs)
      BY <1>1, Zenon DEF Range
    <3>2. PICK a : a = advs[i]
      OBVIOUS
    <3>3. IsAdvertisement(a)
      BY <3>1, <3>2, ScansAssumption
    <3>4. Listed(a)
      BY <3>3, ListedIs
    <3> QED BY <3>2, <3>4
  <2> QED BY <2>1
<1> DEFINE ours == {i \in DOMAIN advs : IsCasambi(Bytes(advs[i]))}
           T(k) == {i \in ours : Key(advs[i]) = k}
           f == Discovered(advs)
           meshes == {Mesh(advs[i]) : i \in DOMAIN advs} \ {<<>>}
<1>3. f = [k \in {Key(advs[i]) : i \in ours} |-> advs[Min(T(k))].address]
  BY DEF Discovered
<1>4. \A i \in DOMAIN advs : i \in ours <=> Mesh(advs[i]) # <<>>
  BY <1>1, <1>2 DEF Listed
<1>5. \A i \in ours : Key(advs[i]) = Mesh(advs[i]) /\ Mesh(advs[i]) # <<>>
  BY <1>1, <1>2 DEF Listed
<1>a. ours \subseteq Nat /\ ours \subseteq DOMAIN advs
  BY <1>1
<1> HIDE DEF ours, f
<1>6. {Key(advs[i]) : i \in ours} = meshes
  BY <1>4, <1>5, <1>a
<1>7. DOMAIN f = meshes
  BY <1>3, <1>6
<1>8. ASSUME NEW k \in meshes
      PROVE  \E i \in DOMAIN advs : /\ Mesh(advs[i]) = k /\ f[k] = advs[i].address
                                   /\ \A j \in 1..(i - 1) : Mesh(advs[j]) # k
  <2>1. T(k) # {} /\ T(k) \in SUBSET Nat
    BY <1>6, <1>a
  <2>2. Min(T(k)) \in T(k) /\ \A j \in T(k) : Min(T(k)) <= j
    <3> HIDE DEF T
    <3>1. PICK U \in SUBSET Nat : U = T(k)
      BY <2>1
    <3>2. Min(U) \in U /\ \A j \in U : Min(U) <= j
      BY <2>1, <3>1, MinIs
    <3> QED BY <3>1, <3>2
  <2>3. PICK i \in ours : i = Min(T(k)) /\ Key(advs[i]) = k /\ \A j \in T(k) : i <= j
    BY <2>2
  <2>4. f[k] = advs[i].address
    BY <1>3, <1>6, <2>3
  <2>5. ASSUME NEW j \in 1..(i - 1), Mesh(advs[j]) = k PROVE FALSE
    <3>1. i \in 1..l /\ j \in 1..l /\ ~(i <= j)
      BY <1>1, <1>a
    <3>2. k # <<>>
      OBVIOUS
    <3>3. j \in ours /\ Key(advs[j]) = k
      BY <1>1, <1>4, <1>5, <2>5, <3>1, <3>2
    <3> QED BY <2>3, <3>1, <3>3
  <2> QED BY <1>5, <1>a, <2>3, <2>4, <2>5
<1> HIDE DEF meshes, T
<1>9. \A m \in DOMAIN f : \E i \in DOMAIN advs :
        /\ Mesh(advs[i]) = m /\ f[m] = advs[i].address
        /\ \A j \in 1..(i - 1) : Mesh(advs[j]) # m
  BY <1>7, <1>8
<1> QED BY <1>7, <1>9, Zenon DEF Collapsed, f, meshes

\* What is listed comes from the last scan, and only a scan makes it.
ListIs ==
  /\ kind = "none" => heard = <<>> /\ found = <<>>
  /\ Proxied => \/ heard = <<>> /\ found = <<>>
                \/ heard \in Scans /\ found = Discovered(heard)

\* Only a scan lists something, and the next call clears it.
LEMMA ScanIs ==
  ASSUME Places, Next
  PROVE  \/ UNCHANGED scan /\ (kind' = kind \/ kind = "none")
         \/ heard' = <<>> /\ found' = <<>> /\ kind' = kind
         \/ \E advs \in Scans :
              /\ heard' = advs /\ kind' = kind /\ kind # "none"
              /\ kind # "bleak" => found' = Discovered(advs)
<1>1. ASSUME NEW cfg \in Configs, Configure(cfg) PROVE UNCHANGED scan /\ kind = "none"
  BY <1>1 DEF Configure, scan
<1>2. ASSUME NEW o \in {"connect", "discover"}, Begin(o)
      PROVE  heard' = <<>> /\ found' = <<>> /\ kind' = kind
  BY <1>2 DEF Begin, sel
<1>3. ASSUME NEW o, BeginGatt(o) PROVE UNCHANGED scan /\ kind' = kind
  BY <1>3 DEF BeginGatt, sel, scan
<1>4. BeginClose \/ Linked \/ LinkTimeout \/ Deliver => UNCHANGED scan /\ kind' = kind
  BY DEF BeginClose, Linked, LinkTimeout, Deliver, sel, scan
<1>5. ScanFails \/ LinkDrops \/ Cancel => UNCHANGED scan /\ kind' = kind
  BY DEF ScanFails, LinkDrops, Cancel, sel, scan
<1>6. ApiDrops => UNCHANGED scan /\ kind' = kind
  BY DEF ApiDrops, scan
<1>7. ASSUME NEW ok \in BOOLEAN, ProxyLinks(ok) \/ Ends(ok)
      PROVE  UNCHANGED scan /\ kind' = kind
  BY <1>7 DEF ProxyLinks, Ends, Checked, Opened, Establish, Fetched, GattEnds, Closes, sel, scan
<1>8. ASSUME NEW advs \in Scans, Scanned(advs)
      PROVE  /\ heard' = advs /\ kind' = kind /\ kind # "none"
             /\ kind # "bleak" => found' = Discovered(advs)
  BY <1>8 DEF Scanned, sel, Places
<1> QED BY <1>1, <1>2, <1>3, <1>4, <1>5, <1>6, <1>7, <1>8 DEF Next

LEMMA ListKept == Places /\ ListIs /\ [Next]_vars => ListIs'
<1> SUFFICES ASSUME Places, ListIs, [Next]_vars PROVE ListIs'
  OBVIOUS
<1>1. CASE Next
  <2>1. CASE UNCHANGED scan /\ (kind' = kind \/ kind = "none")
    BY <2>1 DEF ListIs, Proxied, scan
  <2>2. CASE heard' = <<>> /\ found' = <<>> /\ kind' = kind
    BY <2>2 DEF ListIs
  <2>3. ASSUME NEW advs \in Scans, heard' = advs, kind' = kind, kind # "none",
               kind # "bleak" => found' = Discovered(advs)
        PROVE  ListIs'
    BY <2>3 DEF ListIs, Proxied
  <2> QED BY <1>1, <2>1, <2>2, <2>3, ScanIs
<1>2. CASE UNCHANGED vars
  BY <1>2 DEF vars, sel, scan, ListIs, Proxied
<1> QED BY <1>1, <1>2

LEMMA ListCollapses == ListIs => RelaysCollapse
<1> SUFFICES ASSUME ListIs, Proxied PROVE Collapsed(heard, found)
  BY DEF RelaysCollapse, Collapsed
<1>1. CASE heard = <<>> /\ found = <<>>
  <2>1. DOMAIN heard = {} /\ DOMAIN found = {}
    BY <1>1
  <2> QED BY <2>1 DEF Collapsed
<1>2. CASE heard \in Scans /\ found = Discovered(heard)
  BY <1>2, DiscoveredIs
<1> QED BY <1>1, <1>2 DEF ListIs

-----------------------------------------------------------------------------
(* The theorems.                                                           *)

\* Every variable of the transports keeps its type, whatever is configured.
THEOREM TransportsTypeOK == Spec => []TypeOK
<1>1. Inv => TypeOK
  BY DEF Inv
<1> QED BY <1>1, Invariance, PTL

\* A connection that is in use, says it is up and has its proxy really has its
\* link, or the news of the loss is on its way: after any relinks of _connect,
\* timeouts of 30 seconds and cancellations.
THEOREM Up == Spec => []UpIsUp
<1>1. Inv => UpIsUp
  BY DEF Inv
<1> QED BY <1>1, Invariance, PTL

\* disconnect leaves no notification handler behind, whatever failed before it.
THEOREM NoStrayHandler == Spec => []NoStray
<1>1. Inv => NoStray
  BY DEF Inv
<1> QED BY <1>1, Invariance, PTL

\* disconnect leaves no link behind unless an attempt was given up or the link
\* could not be taken down: after any relinks of _connect, losses and late events.
THEOREM NoLinkLeft == Spec => []LinkReleased
<1>1. Inv /\ Released => LinkReleased
  BY DEF Released, LinkReleased
<1>2. Init => Released
  BY DEF Init, Released, Proxied
<1>3. Spec => []Released
  BY <1>2, ReleasedKept, Invariance, PTL DEF Spec
<1> QED BY <1>1, <1>3, Invariance, PTL

\* discover over a proxy lists each mesh that an advertisement names once, with
\* the unit heard first for it, however many of its units relayed it, and a unit
\* whose advertisement names none by itself: whatever the structures before and
\* after, _parse_ad_structures reads back what a device packed, up to the end that
\* is no structure. A mesh is what an advertisement names, so a unit that names
\* its mesh in one advertisement and not in another is listed for both.
THEOREM RelaysAreOne == Spec => []RelaysCollapse
<1>1. Init => ListIs
  BY DEF Init, ListIs
<1>2. Inv => Places
  BY DEF Inv
<1>3. Spec => []ListIs
  BY <1>1, <1>2, ListKept, Invariance, PTL DEF Spec
<1> QED BY <1>3, ListCollapses, PTL
=============================================================================

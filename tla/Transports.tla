----------------------------- MODULE Transports -----------------------------
(***************************************************************************)
(* The transports a session may use: the local adapter through bleak       *)
(* (_bleak_transport.py), an ESPHome proxy (_esphome_transport.py), and    *)
(* the proxy behind a check of Home Assistant (_homeassistant_transport.py)*)
(* with their selection (_transport_factory.py) and discovery.             *)
(*                                                                         *)
(* One task uses a transport the way CasambiClient does: it connects, then *)
(* subscribes once, reads and writes, one operation at a time, and         *)
(* disconnects. The proxy's events, lost links and cancellations come at   *)
(* any of its suspensions, except that nobody cancels a disconnect:        *)
(* Casambi shields it. pc is the await the task stands at.                 *)
(***************************************************************************)
EXTENDS Integers, Sequences, FiniteSetsExt, SequencesExt

CONSTANTS Configs,     \* configurations the factory is asked for
          Scans,       \* the advertisements a scan may hear
          MaxConns,    \* bound: connections
          MaxLinks,    \* bound: calls of bluetooth_device_connect
          MaxDrops,    \* bound: links or proxies lost
          MaxCancels   \* bound: cancellations

ASSUME BoundsAssumption ==
  {MaxConns, MaxLinks, MaxDrops, MaxCancels} \subseteq Nat

VARIABLES
  kind,     \* "none", "bleak", "esphome" or "homeassistant"
  api,      \* ESPHomeTransport._api is connected
  checked,  \* HomeAssistantTransport._esphome_transport is there
  pc, op,   \* the user's task and the operation it is in
  raised,   \* how that operation ended
  n,        \* the number of the current connection, 0 before the first
  up,       \* ESPHomeTransportConnection._is_connected
  cached,   \* its _services are known
  alive,    \* the API client it holds is still connected
  regs,     \* its connection callbacks that are registered with the API
  stored,   \* the one _connection_unsub removes, 0 if it is not set
  waiting,  \* the one the task waits for in _connect
  complete, \* connection_complete is set
  live,     \* the connections whose notification handler is registered
  closed,   \* disconnect has returned
  left,     \* history: a wait for a link was given up, or a link not taken
            \* down, and no link was taken down since
  link,     \* the radio link to the device: "down", "opening", "up"
  events,   \* the proxy's connection events on their way
  links, drops, cancels,
  heard,    \* what the last scan heard, and what discover made of it:
  found     \* the device's address by the key it is listed under

conn == <<up, cached, alive, regs, stored, closed, left>>
wait == <<waiting, complete>>
env  == <<link, events>>
cnt  == <<links, drops, cancels>>
scan == <<heard, found>>
sel  == <<kind, api, checked>>
vars == <<sel, pc, op, raised, n, conn, wait, live, env, cnt, scan>>

Proxied == kind \in {"esphome", "homeassistant"}

is_connected_Unread ==    \* mutant: a connection counts once its services are known
  IF kind = "bleak" THEN link = "up" ELSE up /\ cached

is_connected == IF kind = "bleak" THEN link = "up" ELSE up

Init ==
  /\ kind = "none" /\ api = FALSE /\ checked = FALSE
  /\ pc = "idle" /\ op = "none" /\ raised = "none"
  /\ n = 0
  /\ up = FALSE /\ cached = FALSE /\ alive = FALSE /\ regs = {} /\ stored = 0
  /\ closed = TRUE /\ left = FALSE
  /\ waiting = 0 /\ complete = FALSE
  /\ live = {}
  /\ link = "down" /\ events = <<>>
  /\ links = 0 /\ drops = 0 /\ cancels = 0
  /\ heard = <<>> /\ found = <<>>

(***************************************************************************)
(* The factory. A configuration is a record of what is set; a library that *)
(* is not installed makes the constructor raise ImportError.               *)
(***************************************************************************)
get_transport(cfg) ==
  IF cfg.esphome_host /\ cfg.aioesphomeapi THEN "esphome" ELSE "bleak"

get_transport_by_type(cfg) ==
  CASE cfg.type = "bleak"   -> "bleak"
    [] cfg.type = "esphome" ->
         IF ~cfg.host THEN "ValueError"
         ELSE IF ~cfg.aioesphomeapi THEN "ImportError" ELSE "esphome"
    [] cfg.type = "homeassistant" ->
         IF ~cfg.host \/ ~cfg.token \/ ~cfg.esphome_host THEN "ValueError"
         ELSE IF ~cfg.homeassistant_api THEN "ImportError" ELSE "homeassistant"
    [] OTHER -> "ValueError"

Configure_Unchecked(cfg) ==    \* mutant: the configuration is not checked
  /\ kind = "none"
  /\ kind' = IF cfg.type = "default" THEN get_transport(cfg) ELSE get_transport_by_type(cfg)
  /\ raised' = "none"
  /\ UNCHANGED <<api, checked, pc, op, n, conn, wait, live, env, cnt, scan>>

Configure(cfg) ==
  /\ kind = "none"
  /\ LET t == IF cfg.type = "default" THEN get_transport(cfg) ELSE get_transport_by_type(cfg)
     IN  IF t \in {"ValueError", "ImportError"}
         THEN raised' = t /\ UNCHANGED kind
         ELSE kind' = t /\ raised' = "none"
  /\ UNCHANGED <<api, checked, pc, op, n, conn, wait, live, env, cnt, scan>>

(***************************************************************************)
(* How an operation ends. Behind the check of Home Assistant every method   *)
(* has an except of its own: discover and connect let a BluetoothError pass *)
(* and wrap the rest, disconnect and the calls wrap either, and stop_notify *)
(* only logs it. A cancellation is no Exception.                            *)
(***************************************************************************)
Caught ==
  [discover |-> "BluetoothError", connect |-> "BluetoothError", disconnect |-> "BluetoothError",
   read |-> "BluetoothError", write |-> "BluetoothError", notify |-> "BluetoothError",
   stop |-> "none"]

End(o, e) ==
  /\ pc' = "idle" /\ op' = "none"
  /\ raised' = IF kind = "homeassistant" /\ e \in {"BluetoothError", "raw"} THEN Caught[o] ELSE e

Goes(o, at) == pc' = at /\ op' = o /\ UNCHANGED raised

(***************************************************************************)
(* connect and discover.                                                   *)
(***************************************************************************)
(* The connection object. Over a proxy nothing is connected yet: the first *)
(* operation does it.                                                      *)
NewConnection ==
  /\ n' = n + 1
  /\ up' = FALSE /\ cached' = FALSE /\ alive' = TRUE /\ regs' = {} /\ stored' = 0
  /\ closed' = FALSE /\ UNCHANGED left
  /\ End("connect", "none")

(* The proxy's client is there: make the connection or start the scan.     *)
HaveApi(o) ==
  IF o = "connect" THEN NewConnection
  ELSE Goes(o, "scanning") /\ UNCHANGED <<n, conn>>

GetApi(o) ==
  IF api THEN HaveApi(o) ELSE Goes(o, "opening") /\ UNCHANGED <<n, conn>>

Begin(o) ==
  /\ pc = "idle" /\ kind # "none"
  /\ o = "connect" => closed /\ n < MaxConns
  /\ CASE kind = "bleak"         -> Goes(o, IF o = "connect" THEN "establishing" ELSE "scanning")
                                    /\ UNCHANGED <<n, conn>>
       [] kind = "esphome"       -> GetApi(o)
       [] kind = "homeassistant" -> IF checked THEN GetApi(o)
                                    ELSE Goes(o, "checking") /\ UNCHANGED <<n, conn>>
  /\ heard' = <<>> /\ found' = <<>>
  /\ UNCHANGED <<sel, wait, live, env, cnt>>

(* get_states fails fast; the health of the proxy's entity is a hint only. *)
Checked(ok) ==
  /\ pc = "checking"
  /\ IF ok THEN GetApi(op) /\ checked' = TRUE
     ELSE End(op, "raw") /\ UNCHANGED <<checked, n, conn>>
  /\ UNCHANGED <<kind, api, wait, live, env, cnt, scan>>

Opened(ok) ==
  /\ pc = "opening"
  /\ IF ok THEN HaveApi(op) /\ api' = TRUE
     ELSE End(op, "BluetoothError") /\ UNCHANGED <<api, n, conn>>
  /\ UNCHANGED <<kind, checked, wait, live, env, cnt, scan>>

(* bleak_retry_connector drops a link left over, then makes one or raises. *)
Establish(ok) ==
  /\ pc = "establishing"
  /\ IF ok THEN NewConnection /\ link' = "up" /\ live' = {}
     ELSE End(op, "BluetoothError") /\ UNCHANGED <<n, conn, link, live>>
  /\ UNCHANGED <<sel, wait, events, cnt, scan>>

(* An advertisement as devices send it (external): Casambi's service by 16 *)
(* or by 128 bits, its maker's data with the address of the mesh or in the *)
(* form that lacks it, structures of others, and at its end what is none.  *)
Body(s) ==
  CASE s.kind = "service" -> <<3, 77, 254>>
    [] s.kind = "long"    -> <<7, 251, 52, 155, 95, 128, 0, 0, 128, 0, 16, 0, 0, 77, 254, 0, 0>>
    [] s.kind = "mesh"    -> <<255, 195, 3>> \o s.head \o s.mesh
    [] s.kind = "old"     -> <<255, 195, 3>> \o s.head
    [] s.kind = "other"   -> s.body

Bytes(adv) ==
  FlattenSeq([i \in 1..Len(adv.sent) |-> <<Len(Body(adv.sent[i]))>> \o Body(adv.sent[i])])
  \o adv.rest

(* The mesh a device is of: a unit whose advertisement has no address of a *)
(* mesh counts as one by itself, a device of another make is of none.      *)
Mesh(adv) ==
  LET kinds == {s.kind : s \in Range(adv.sent)}
  IN  IF "mesh" \in kinds THEN (CHOOSE s \in Range(adv.sent) : s.kind = "mesh").mesh
      ELSE IF kinds \cap {"service", "long", "old"} # {} THEN adv.address
      ELSE <<>>

(* A service of 128 bits after the first s bytes, by the 16 bits it is the *)
(* long form of: 0000xxxx-0000-1000-8000-00805f9b34fb, its last byte first.*)
Base == <<251, 52, 155, 95, 128, 0, 0, 128, 0, 16, 0, 0, 0, 0, 0, 0>>

Long(bytes, s) ==
  IF \A i \in 1..16 \ {13, 14} : bytes[s + i] = Base[i]
  THEN bytes[s + 13] + 256 * bytes[s + 14] ELSE 65536

IsForeign(body) ==
  /\ body[1] \in {2, 3} => \A j \in 1..(Len(body) \div 2) :
                             ~(2 * j + 1 <= Len(body) /\ body[2 * j] = 77 /\ body[2 * j + 1] = 254)
  /\ body[1] \in {6, 7} => \A j \in 1..((Len(body) - 1) \div 16) : Long(body, 16 * j - 15) # 65101
  /\ body[1] = 255 => Len(body) < 3 \/ body[2] # 195 \/ body[3] # 3

IsStructure(s) ==
  \/ s.kind \in {"service", "long"}
  \/ s.kind = "mesh" /\ s.head \in [1..12 -> 0..255] /\ s.mesh \in [1..6 -> 0..255]
  \/ s.kind = "old" /\ s.head \in Seq(0..255) /\ Len(s.head) < 18
  \/ s.kind = "other" /\ s.body \in Seq(0..255) /\ Len(s.body) \in 1..255 /\ IsForeign(s.body)

(* One structure at most has the maker's data.                             *)
IsAdvertisement(adv) ==
  /\ adv.address # <<>>
  /\ adv.sent \in Seq(Range(adv.sent)) /\ \A s \in Range(adv.sent) : IsStructure(s)
  /\ \A i, j \in DOMAIN adv.sent :
       {adv.sent[i].kind, adv.sent[j].kind} \subseteq {"mesh", "old"} => i = j
  /\ adv.rest \in Seq(0..255)
  /\ adv.rest = <<>> \/ adv.rest[1] = 0 \/ adv.rest[1] >= Len(adv.rest)

ASSUME ScansAssumption ==
  \A advs \in Scans : advs \in Seq(Range(advs)) /\ \A adv \in Range(advs) : IsAdvertisement(adv)

(* The structures of an advertisement, [length][type][payload]: the scan   *)
(* stops at an empty one and at one cut short.                             *)
_parse_ad_structures(data) ==
  LET from[i \in 1..(Len(data) + 1)] ==
        IF i > Len(data) THEN <<>>
        ELSE IF data[i] = 0 \/ i + data[i] > Len(data) THEN <<>>
        ELSE <<[type |-> data[i + 1], payload |-> SubSeq(data, i + 2, i + data[i])]>>
             \o from[i + 1 + data[i]]
  IN  from[1]

(* The service UUIDs among them, and the manufacturer data of Casambi      *)
(* without its company: <<>> if there is none, else the last.              *)
Services(ads) ==
  LET of(types) == {ads[i].payload : i \in {k \in DOMAIN ads : ads[k].type \in types}}
  IN  UNION ({{p[2 * j - 1] + 256 * p[2 * j] : j \in 1..(Len(p) \div 2)} : p \in of({2, 3})}
             \cup {{Long(p, 16 * j - 16) : j \in 1..(Len(p) \div 16)} : p \in of({6, 7})})

Manufacturer(ads) ==
  LET is(a) == a.type = 255 /\ Len(a.payload) >= 2 /\ a.payload[1] + 256 * a.payload[2] = 963
      at == {i \in DOMAIN ads : is(ads[i])}
  IN  IF at = {} THEN <<>>
      ELSE LET p == ads[CHOOSE i \in at : \A j \in at : j <= i].payload
           IN  <<SubSeq(p, 3, Len(p))>>

(* CASA_UUID is the long form of fe4d.                                     *)
IsCasambi(data) ==
  LET ads == _parse_ad_structures(data)
  IN  65101 \in Services(ads) \/ Manufacturer(ads) # <<>>

_extract_network_address(payload) == SubSeq(payload, 13, 18)

(* Relays of one mesh collapse into the one heard first.                   *)
Key_Outer(adv) ==    \* mutant: listed under the address of the advertisement
  adv.address

Key(adv) ==
  LET m == Manufacturer(_parse_ad_structures(Bytes(adv)))
  IN  IF m = <<>> THEN adv.address
      ELSE IF Len(m[1]) < 18 THEN adv.address ELSE _extract_network_address(m[1])

Discovered(advs) ==
  LET ours == {i \in DOMAIN advs : IsCasambi(Bytes(advs[i]))}
  IN  [k \in {Key(advs[i]) : i \in ours} |->
         advs[Min({i \in ours : Key(advs[i]) = k})].address]

(* bleak's scanner decodes by itself; each device that advertises both the *)
(* service and the manufacturer data is listed under its own address.      *)
BleakDiscovered(advs) ==
  LET ads(i) == _parse_ad_structures(Bytes(advs[i]))
      ours == {i \in DOMAIN advs : 65101 \in Services(ads(i)) /\ Manufacturer(ads(i)) # <<>>}
  IN  [a \in {advs[i].address : i \in ours} |-> a]

Scanned(advs) ==
  /\ pc = "scanning"
  /\ heard' = advs
  /\ found' = IF kind = "bleak" THEN BleakDiscovered(advs) ELSE Discovered(advs)
  /\ End(op, "none")
  /\ UNCHANGED <<sel, n, conn, wait, live, env, cnt>>

(* The scanner fails, or the proxy's client, lost meanwhile, refuses a call.*)
ScanFails ==
  /\ pc = "scanning" /\ (kind = "bleak" \/ ~api)
  /\ End(op, IF kind = "bleak" THEN "BluetoothError" ELSE "raw")
  /\ UNCHANGED <<sel, n, conn, wait, live, env, cnt, scan>>

(***************************************************************************)
(* The operations on a connection: "notify", "read", "write", "stop".      *)
(***************************************************************************)
(* The link of a connection over a proxy is made when it is first needed,  *)
(* and again without a word when it is needed after a loss.                *)
_connect(o) ==
  IF alive
  THEN /\ links' = links + 1
       /\ regs' = regs \cup {links + 1}
       /\ waiting' = links + 1 /\ complete' = FALSE
       /\ link' = IF link = "down" THEN "opening" ELSE link
       /\ events' = IF link = "up" THEN Append(events, "up") ELSE events
       /\ Goes(o, "linking")
  ELSE End(o, "BluetoothError") /\ UNCHANGED <<links, regs, wait, env>>

(* The call itself, with the characteristic's handle known. Subscribing to *)
(* the proxy's notifications is a call without an await.                   *)
Call(o) ==
  CASE o = "notify" -> IF alive THEN live' = live \cup {n} /\ End(o, "none")
                       ELSE End(o, "BluetoothError") /\ UNCHANGED live
    [] o = "stop" -> live' = live \ {n} /\ End(o, "none")
    [] OTHER -> Goes(o, "gatt") /\ UNCHANGED live

WithServices(o) ==
  IF cached THEN Call(o) ELSE Goes(o, "fetching") /\ UNCHANGED live

(* bleak asks its client whether it is connected; stop_notify over a proxy *)
(* does nothing on a lost connection.                                      *)
BeginGatt(o) ==
  /\ pc = "idle" /\ n > 0 /\ ~closed
  /\ o = "notify" => n \notin live
  /\ IF kind = "bleak"
     THEN /\ IF link = "up" THEN Goes(o, "gatt")
             ELSE End(o, IF o = "stop" THEN "none" ELSE "BluetoothError")
          /\ UNCHANGED <<live, links, regs, wait, env>>
     ELSE \/ up /\ WithServices(o) /\ UNCHANGED <<links, regs, wait, env>>
          \/ ~up /\ o = "stop" /\ End(o, "none") /\ UNCHANGED <<live, links, regs, wait, env>>
          \/ ~up /\ o # "stop" /\ links < MaxLinks /\ _connect(o) /\ UNCHANGED live
  /\ UNCHANGED <<sel, n, up, cached, alive, stored, closed, left, drops, cancels, scan>>

(* connection_callback, in every registration of this connection.          *)
Deliver ==
  /\ events # <<>>
  /\ events' = Tail(events)
  /\ up' = IF regs = {} THEN up ELSE Head(events) = "up"
  /\ complete' = (complete \/ waiting \in regs)
  /\ UNCHANGED <<sel, pc, op, raised, n, cached, alive, regs, stored, closed, left,
                 waiting, live, link, cnt, scan>>

Linked_Unsubscribes ==    \* mutant: the registration is removed after success, too
  /\ pc = "linking" /\ complete
  /\ waiting' = 0 /\ complete' = FALSE
  /\ regs' = regs \ {waiting}
  /\ IF up THEN WithServices(op) ELSE End(op, "BluetoothError") /\ UNCHANGED live
  /\ UNCHANGED <<sel, n, up, cached, alive, stored, closed, left, env, cnt, scan>>

Linked ==
  /\ pc = "linking" /\ complete
  /\ waiting' = 0 /\ complete' = FALSE
  /\ IF up THEN stored' = waiting /\ WithServices(op) /\ UNCHANGED regs
     ELSE regs' = regs \ {waiting} /\ End(op, "BluetoothError") /\ UNCHANGED <<stored, live>>
  /\ UNCHANGED <<sel, n, up, cached, alive, closed, left, env, cnt, scan>>

(* After 30 seconds. The proxy is not told to give up.                     *)
LinkTimeout_WaitsOn ==    \* mutant: the wait has no timeout
  pc = "linking" /\ ~complete /\ UNCHANGED vars

LinkTimeout ==
  /\ pc = "linking" /\ ~complete
  /\ waiting' = 0
  /\ regs' = regs \ {waiting}
  /\ End(op, "BluetoothError")
  /\ left' = TRUE
  /\ UNCHANGED <<sel, n, up, cached, alive, stored, closed, complete, live, env, cnt, scan>>

(* bluetooth_gatt_get_services stands outside the try of the operation.    *)
Fetched(ok) ==
  /\ pc = "fetching"
  /\ ok => link = "up" /\ alive
  /\ IF ok THEN cached' = TRUE /\ Call(op)
     ELSE End(op, "raw") /\ UNCHANGED <<cached, live>>
  /\ UNCHANGED <<sel, n, up, alive, regs, stored, closed, left, wait, env, cnt, scan>>

(* bleak's errors are passed on as they are.                               *)
GattEnds(ok) ==
  /\ pc = "gatt"
  /\ ok => link = "up" /\ alive
  /\ live' = IF ok /\ op = "notify" THEN live \cup {n}
             ELSE IF ok /\ op = "stop" THEN live \ {n} ELSE live
  /\ End(op, IF ok THEN "none" ELSE IF kind = "bleak" THEN "raw" ELSE "BluetoothError")
  /\ UNCHANGED <<sel, n, conn, wait, env, cnt, scan>>

(***************************************************************************)
(* disconnect.                                                             *)
(***************************************************************************)
Tidy_HandlersKept ==    \* mutant: the notification handlers stay
  /\ regs' = IF kind = "bleak" THEN regs ELSE regs \ {stored}
  /\ closed' = TRUE /\ UNCHANGED live
  /\ End("disconnect", "none")

Tidy ==
  /\ regs' = IF kind = "bleak" THEN regs ELSE regs \ {stored}
  /\ live' = IF kind = "bleak" /\ link' # "down" THEN live ELSE live \ {n}
  /\ closed' = TRUE
  /\ End("disconnect", "none")

BeginClose ==
  /\ pc = "idle" /\ n > 0 /\ ~closed
  /\ IF is_connected
     THEN Goes("disconnect", "closing") /\ UNCHANGED <<regs, live, closed, link>>
     ELSE UNCHANGED link /\ Tidy
  /\ UNCHANGED <<sel, n, up, cached, alive, stored, left, wait, events, cnt, scan>>

(* A link that could not be taken down is only logged.                     *)
Closes(ok) ==
  /\ pc = "closing"
  /\ ok => alive /\ events = <<>>
  /\ link' = IF ok THEN "down" ELSE link
  /\ up' = (up /\ ~ok)
  /\ left' = ~ok
  /\ Tidy
  /\ UNCHANGED <<sel, n, cached, alive, stored, wait, events, cnt, scan>>

(***************************************************************************)
(* The proxy, the radio and the task's cancellation.                       *)
(***************************************************************************)
ProxyLinks(ok) ==
  /\ link = "opening"
  /\ link' = IF ok THEN "up" ELSE "down"
  /\ events' = Append(events, link')
  /\ UNCHANGED <<sel, pc, op, raised, n, conn, wait, live, cnt, scan>>

LinkDrops ==
  /\ link = "up" /\ drops < MaxDrops
  /\ drops' = drops + 1
  /\ link' = "down"
  /\ IF Proxied THEN events' = Append(events, "down") /\ UNCHANGED live
     ELSE live' = {} /\ UNCHANGED events
  /\ UNCHANGED <<sel, pc, op, raised, n, conn, wait, links, cancels, scan>>

(* The connection to the proxy: its links, subscriptions and events go     *)
(* with it, and nobody tells the connection.                               *)
ApiDrops ==
  /\ api /\ drops < MaxDrops
  /\ drops' = drops + 1
  /\ api' = FALSE /\ alive' = FALSE
  /\ link' = "down" /\ events' = <<>> /\ regs' = {} /\ live' = {}
  /\ UNCHANGED <<kind, checked, pc, op, raised, n, up, cached, stored, closed, left, wait,
                 links, cancels, scan>>

(* wait_for leaves the registration of the link it was waiting for.        *)
Cancel ==
  /\ pc \notin {"idle", "closing"} /\ cancels < MaxCancels
  /\ cancels' = cancels + 1
  /\ waiting' = 0 /\ complete' = FALSE
  /\ left' = (left \/ pc = "linking")
  /\ End(op, "Cancelled")
  /\ UNCHANGED <<sel, n, up, cached, alive, regs, stored, closed, live, env, links, drops, scan>>

Ends(ok) == \/ Checked(ok) \/ Opened(ok) \/ Establish(ok) \/ Fetched(ok) \/ GattEnds(ok)
            \/ Closes(ok)

Next ==
  \/ \E cfg \in Configs : Configure(cfg)
  \/ \E o \in {"connect", "discover"} : Begin(o)
  \/ \E o \in {"notify", "read", "write", "stop"} : BeginGatt(o)
  \/ BeginClose
  \/ \E ok \in BOOLEAN : Ends(ok) \/ ProxyLinks(ok)
  \/ \E advs \in Scans : Scanned(advs)
  \/ ScanFails \/ Deliver \/ Linked \/ LinkTimeout
  \/ LinkDrops \/ ApiDrops \/ Cancel

(* The awaits end; the wait for a link by its timeout, the others because  *)
(* the libraries answer or fail.                                           *)
Fairness ==
  /\ WF_vars(\E ok \in BOOLEAN : Ends(ok))
  /\ WF_vars(\E advs \in Scans : Scanned(advs))
  /\ WF_vars(Linked)
  /\ WF_vars(LinkTimeout)

Spec == Init /\ [][Next]_vars /\ Fairness

(***************************************************************************)
(* Properties.                                                             *)
(***************************************************************************)
(* Every variable keeps its type, and an operation is named while it runs. *)
TypeOK ==
  /\ kind \in {"none", "bleak", "esphome", "homeassistant"}
  /\ api \in BOOLEAN /\ checked \in BOOLEAN
  /\ pc \in {"idle", "checking", "opening", "establishing", "scanning", "linking",
             "fetching", "gatt", "closing"}
  /\ op \in {"none", "connect", "discover", "notify", "read", "write", "stop", "disconnect"}
  /\ op = "none" <=> pc = "idle"
  /\ raised \in {"none", "ValueError", "ImportError", "BluetoothError", "Cancelled", "raw"}
  /\ n \in 0..MaxConns /\ live \subseteq 1..n
  /\ regs \subseteq 1..links /\ stored \in 0..links /\ waiting \in 0..links
  /\ \A b \in {up, cached, alive, closed, left, complete} : b \in BOOLEAN
  /\ link \in {"down", "opening", "up"} /\ events \in Seq({"up", "down"})
  /\ links \in 0..MaxLinks /\ drops \in 0..MaxDrops /\ cancels \in 0..MaxCancels

(* What CasambiClient relies on when it asks is_connected before it sends: *)
(* a connection that is in use and says so has its link, or the news of    *)
(* the loss is on its way to it, whatever relinks, timeouts and            *)
(* cancellations came before. (Not when the proxy itself was lost.)        *)
UpIsUp ==
  ~closed /\ is_connected /\ alive
    => link = "up" \/ (events # <<>> /\ events[Len(events)] = "down")

(* disconnect leaves no notification handler behind that would feed the    *)
(* client of an ended session, and no connection inherits one.             *)
NoStray ==
  /\ live \subseteq {n}
  /\ closed /\ (kind = "bleak" => link = "down") => live = {}

(* disconnect leaves no link to the device behind, whatever was relinked,  *)
(* lost or cancelled before: only an attempt the user's task gave up while *)
(* the proxy was at it, or a link that could not be taken down, may stay.  *)
LinkReleased == closed /\ ~left => link = "down"

(* discover over a proxy lists each mesh the devices it heard are of once, *)
(* by the address of the unit heard first for it, and nothing else. (A     *)
(* unit that leaves the address of its mesh out of an advertisement counts *)
(* as one by itself, also if it named its mesh in another.)                *)
RelaysCollapse ==
  Proxied =>
    /\ DOMAIN found = {Mesh(heard[i]) : i \in DOMAIN heard} \ {<<>>}
    /\ \A m \in DOMAIN found :
         \E i \in DOMAIN heard : /\ Mesh(heard[i]) = m /\ found[m] = heard[i].address
                                /\ \A j \in 1..(i - 1) : Mesh(heard[j]) # m

(* Every operation ends: a proxy that never answers is given up.           *)
OpsEnd == pc # "idle" ~> pc = "idle"

(* "A TransportConnection instance for the established connection"         *)
(* (_transport.py:86), which CasambiClient.connect takes connect's result  *)
(* for when it asks whether it is connected.                               *)
Established == [][n' # n => is_connected']_vars
=============================================================================

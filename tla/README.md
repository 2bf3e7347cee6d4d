# Formal model of casambi-bt

`casambi-bt` controls Casambi lighting networks over Bluetooth LE, as a Python library and as a Home
Assistant integration on top of it. This directory holds TLA+ modules translated from its source, the
TLC configurations that check them, and proofs checked by TLAPS. Paths below are relative to the
repository; `_x.py` means `src/CasambiBt/_x.py`, and names like `coordinator.py` are files of
`custom_components/casambi_bt`. The copy of the library in there is identical to `src/CasambiBt`.

## 1. Inventory

| Component | State it keeps | Operations | Hard behaviour | Correct when | Module |
|---|---|---|---|---|---|
| Session, `_client.py` | connection state, `_notifySignal`, `_activityLock`, notification queue and its task, packet counter, nonce, keys, connection | `connect`, `exchangeKey`, `authenticate`, `send`, `disconnect`, handlers by state | coroutines interleave at every `await`; handlers race the callers they wake; link lost, writes fail, calls cancelled; nothing has a timeout | packets reach the handler and caller they are meant for; a counter is used once; the lock is always released; calls end | `CasambiClient` |
| Library, `_casambi.py` | client, network, handlers, operation counter | `connect`, `_send` with one reconnection, setters, `disconnect`, fan-out of reports | retry of a send; clean-up of a failed handshake; handlers that raise | an operation is sent at most once; every report is handled; loss reported | `CasambiClient`, `Delivery`, `Coordinator`, `Home` |
| Network information, `_network.py`; `_keystore.py`; `_cache.py` | session, keys, network, unit types, on disk and in memory; a directory under one global lock | `load`, `getNetworkId`, `logIn`, `update`, `invalidateCache`, `addKey`, `getKey` | requests fail; cached data is old; crash while writing; cancellation on entry of the lock | lock released; answers fresh; what failed does not fail again | `Network` |
| Units `_unit.py`, operations `_operation.py`, switch events `_switch.py` | unit state; origin counter | encode and decode | bit fields, truncation, short input | decode agrees with encode; an event is what was sent | `UnitCodec`, `SwitchEvents` |
| Transports `_bleak_transport.py`, `_esphome_transport.py`, `_homeassistant_transport.py`, `_transport_factory.py` | proxy client, connection, services, subscriptions | `connect`, `discover`, GATT operations, `disconnect` | links made on first use, late events, timeouts | a connection that says it is up is; no handler and no link is left after `disconnect` | `Transports` |
| Coordinator, `coordinator.py`, `__init__.py`, `config_flow.py` | one `Casambi` per set-up, `_op_lock`, reconnect task | set-up, commands with timeout, reconnect loop, unload, reauthentication | timeouts cancel the library; reconnection, commands and shutdown interleave | one task inside the library; set-ups and commands end; shutdown final | `Coordinator` |
| Entities, `light.py`, `cover.py`, `sensor.py`, `_logic.py` | attributes derived from units | service calls, updates | scaling, state copied before a wait | what is shown is what the fixture reports | `Entities`, `Home` |
| Demo, `demo/web_app.py` | one `Casambi` in a global | HTTP handlers | requests replace the global across awaits | – | – |

Interaction. `Casambi.connect` makes a `Network` (HTTP and cache) and a `CasambiClient`, which asks a
transport for a connection. The transport calls `_queueCallback` from the event loop; the task
`_processCallbacks` takes packets one at a time under `_activityLock` and hands them to the handler of
the connection state. The handshake handlers set `_notifySignal` for the caller that waits; the handler
of the established channel calls `Casambi._dataCallback`, which updates units and calls the handlers
the coordinator registered; the coordinator tells the entities on the event loop. Commands go the other
way: entity, coordinator under `_op_lock` with a timeout, `Casambi.setControl` or `setUnitState`, `_send`,
`CasambiClient.send`. The coordinator relies on the disconnect callback to start its reconnect loop.

`PROJECT.json` lists the hazards of the code with their lines, and the properties that cover them.

## 2. Modules

| Module | Extends, instances | Models | Lines of code it stands for |
|---|---|---|---|
| `TaskQueue` | – | an `asyncio.Lock` as the queue of the tasks that called `acquire()` | external |
| `CasambiClient` | `TaskQueue`; `Delivery` | session, `_send`, `_connectClient`, device and link | `_client.py`, parts of `_casambi.py` |
| `Delivery` | – | abstract: what `_send` promises of an operation | `_send` |
| `Network` | `TaskQueue` | files, requests, keys before the link is made | `_network.py`, `_keystore.py`, `_cache.py` |
| `Coordinator` | `TaskQueue` | the integration's life cycle over the three phases of `connect()` | `coordinator.py`, `__init__.py`, `config_flow.py`, `_casambi.py` |
| `UnitCodec` | – | state codec | `_unit.py` |
| `SwitchEvents` | – | packets of events and states, byte by byte | `_switch.py`, `_parseUnitStates` |
| `Entities` | `UnitCodec` | attributes and percentages | `_logic.py`, entities |
| `Home` | `Entities`, `SwitchEvents` | commands and reports between users and fixtures | setters of `_casambi.py`, entities' service calls, `_dataCallback` |
| `Transports` | – | all transports, factory, discovery of advertisements | transports |
| `MCClient`, `MCNetwork`, `MCCoordinator`, `MCHome`, `MCTransports` | the above | symmetry, fixtures, advertisements, configurations | – |
| `*_proofs` | see section 9 | theorems | – |

Everything runs in one asyncio loop, so in every module a step is the code between two suspensions and
a variable (`pc`, `at`) names the `await` at which each task is suspended. The modules meet at
interfaces that both sides state: `Coordinator` uses of a session that it is closed, half open or up
with or without its link, which are the states a call of `CasambiClient` can leave; `Home` uses of it
that a command is transmitted once or its call fails (`Delivery`), in the order of the calls; `Network`
and `Transports` are the two phases of `connect()` that `Coordinator` takes as one step each with the
errors those modules raise.

## 3. `CasambiClient` and `Delivery`

**Scheduling.** A task that can run does so before the loop polls sockets and timers: `Settled` (no task
is ready) guards whatever comes from outside - calls, the end of a radio operation, notifications, a
lost link. Locks are granted in the order of `acquire()`. `Cancel` is not guarded, as a timeout may fire
with tasks ready. The order of tasks ready at the same time is left open, except that `sleep(0.001)` in
`_processCallbacks` ends after the callers that were ready when it began (`after`) have run.

**Tasks.** `Callers` are tasks using the library; `pc[t]` names the `await` where `t` is suspended:

| `pc` | suspended at | action that goes on |
|---|---|---|
| `connecting` | `transport.connect` in `connect` | `Connected`, `ConnectFails` |
| `readLock`, `reading`, `subscribing` | first `acquire` in `exchangeKey`; `read_gatt_char`; `start_notify` | `Read`, `ReadEnds`, `SubscribeEnds` |
| `helloWait`, `respondLock`, `responding` | first signal wait, its `acquire`, the write of the public key | `Resume`, `Respond`, `ResponseEnds` |
| `ackWait`, `deriveLock` | second signal wait, its `acquire` | `Resume`, `Derive` |
| `authLock`, `authWriting`, `authWait`, `acceptLock` | the same in `authenticate` | `Authenticate`, `AuthEnds`, `Resume`, `Accept` |
| `sendLock`, `sendWriting` | `send` | `Send`, `SendEnds` |
| `stopping`, `closing` | `stop_notify` and `disconnect` of the connection | `CloseLink`, `Disconnected` |

`job` tells the calls apart: `connect`, `send` (first attempt of `_send`), `retry` (after it called
`_connectClient`), `disconnect`. Each `connect()` appends a queue and a callback task (`cbs`), whose
steps are `CbGet` (the packet is taken), `CbWake` (the sleep ends) and `CbHandle` (handler,
`task_done`, `release`). A task remembers the queue whose `get()` it waits on, while `task_done` is
applied to the current one, as in the code.

**Data.** Links are numbered; a key, nonce or hello is the number of its link, so that "belongs to this
link" is an equality. A packet is its kind, the key that seals it, and its place among the state packets.

**Device and radio** (external: `DeviceReply`, `DeviceState`, `LinkDrop`): the device says hello when
notifications start, acknowledges the key, answers a proof made with its key and nonce, and reports
unit states when the channel is up. `Honest = FALSE` lets it answer with something else, or with a hello
that cannot be unpacked, which ends the callback task (`garbled`); `Flaky` lets radio operations fail on a
link that is up, a write that raises "Not connected" included, which `_writeEncPacket` takes for a normal
end; `Poison` lets a state raise while it is decoded. A connection that is down when `connect()` gets it
stays in `_connection` (`ConnectFails`). `Overlap`
names the calls that may begin while any other is in progress; two sends that find the channel up
always overlap.

**Assumptions on time.** `Connected` waits until no callback task is in its one millisecond sleep:
making a Bluetooth link takes much longer. Nothing else is assumed of time.

**`Delivery`** is what the rest of the program may believe of `_send`: an operation asked for is
delivered at most once, by the call that asked for it, while that call is open, one at a time. The
refinement mapping takes an operation as open from `BeginSend` until its call ends (`Open`), the callers
in `sendWriting` as the radio's users, and the operations of `aired` as delivered. `Delivers` is checked
in the run `failures` and proved.

**Left out.** `_inPacketCount` (used for logging and for the text of switch events), the version check
and the content of packets; an answer to the first read that is too short to unpack (`_client.py:184`), which
raises `struct.error` where a failed read raises `BluetoothError`, with the same consequences. A program makes one `connect` and then uses the client; a second
`Casambi.connect` makes a new client and is the subject of `Coordinator`. `disconnect()` of a client
without a link does not suspend in the code and may in the model, which only adds behaviours.

## 4. `Network`

Several `Casambi` objects of a process, for one network and one cache directory, call `connect()` beside
each other. The server sends keys that can be stored and keeps the id of the network: a malformed key, type or
role would end `update()` by a `KeyError` or `ValueError`, and what the server makes of a session that belongs
to an old id is not in the repository. On `UPTODATE` the network is that of the cached file. `at[i]` is a critical section of `_cacheLock`, named for the file it reads or writes, or a
request: `uuid`, `keys`, `session`, `types`, `netid`, `getId`, `saveId`, `login`, `saveSession`, `net`,
`put`, then `invalidate` or `saveNet`, `saveKeys` for every new key, `fixture`, `saveTypes`. A section is
entered in two steps, since `__aenter__` prepares the directory across awaits: the head of `lockQ`, and
then `ready` (`Enter`). Reading, writing and leaving a section is one step, because nothing but a
cancellation or a crash happens inside it, and those are steps of their own that cut it off (`Cancel`,
`Crash`: a file half written is `Torn`, a directory half made one of `HalfValid`).

`GoesOn` is what `update()` does after it has the network, up to the next suspension: keys that are not
in the store are added and saved one by one, then the type of a unit comes from the cache or from the
server. `rev` counts the changes of the network and `gen` those of its password; a session is the number
of the login that granted it, and `granted` the `gen` it was granted at. Expiry of sessions and cached
types is `Expires`. The contents of units, groups and scenes follow from `rev` and are left out; one type
stands for all. `AuthenticationError` and the other errors end the call (`End`, `Breaks`).

What TLC shows of the code besides the properties: a torn file makes every later `connect()` raise
(`RetryHeals` is about undisturbed calls without torn files, which fail at most once in a row until the
password changes again); a call cancelled in `__aenter__` keeps the
lock for every instance (`Orphan`); a cancelled `invalidateCache` goes on deleting without the lock; an
expired session after a change of password skips the invalidation, so old keys stay
(`RenewedKey` asks for an invalidation after the renewal, `purged`); a call that is to stay offline still
asks the server for a type it does not know (`_network.py:348`).

## 5. `Coordinator`

Every set-up of the config entry makes a coordinator with a `Casambi` of its own. `at[c][x]` is where task
`x` of coordinator `c` is suspended: the set-up, the reconnect loop or a command; `lock` is `_op_lock`,
`net`, `link` and `shake` are the phases of `connect()`, `send` is a write, and `stuck` waits for a device
that will not answer, which ends by a timeout (`Expires`). The client is `none`, `down`, `half` or `up`
with or without a link; the library replaces it without disconnecting, so links are leaked (`strays`) to a
device that accepts `MaxLinks`. The config flow's own attempt for a new entry or a changed password
(`probe`) uses a link, too.

A lost link is reported or not (`LossReports`, here both): the code never reports one (finding `lost_link`),
but `disconnect()` of an authenticated client runs the same callback, and the loop is written for it. A network
may have no key (`keyless`): then the handshake ends with the channel up and `ConnectionStateError` raised, which
ends the set-up for good and makes the loop try for ever. An error in the handshake leaves the client closed
(`ProtocolError`) or half open. A request that fails lets `connect()` go on offline if the network is cached,
also with a password the server would no longer accept, or fail after some of what it fetched is stored (`Partly`).
A timeout or an unload that cancels `connect()` while it enters `_cacheLock` leaves that lock held (`orphaned`,
the `Orphan` of `Network`), so that every later `connect()` of the process ends by its timeout.

No property says that the loop recovers: the links leaked by failed attempts and by a shutdown may take all
`MaxLinks` the device has, a network without a key never recovers, and without a report no loop starts.
`ShutdownFinal` is about a shutdown that meets nothing under way (`clean`): a command that waits for `_op_lock`
when the entry is unloaded reconnects after it.

What TLC shows besides: errors outside `_CONNECT_ERRORS` end the set-up for good (`error`); a failed
set-up neither unregisters nor disconnects; after a rejected password in the reconnect loop `units`
raises inside the disconnect callback, so a later loss is told nobody (`Told`).

## 6. `UnitCodec`, `SwitchEvents`, `Entities`, `Home`

`UnitCodec` has a state as the set of positions of its bits that are 1, and a `UnitState` as a function
from fields to values or `None`. `Encode` and `Decode` follow `getStateAsBytes` and `setStateFromBytes`
control by control, with the same scaling by `//` and `int()`, clamps, defaults, ranges the setters
refuse, and the tagged sensors that share the bits of one reading, kept under the name of the sensor: names
may be empty or alike, and then readings are shared. What raises is modelled: levels of more than eight bits
and a slider whose `max` is its `min` cannot be written (`Unwritable`), a field without bits cannot be read
(`Unreadable`). Floating-point numbers are exact fractions: `int()` of a quotient that is an integer might come out
one lower in the code only if its floating-point value were below it, which is not so for the widths used here.
`RGB` goes through hue and saturation as in the code (`HsCode`, `RgbOf`), `XY` is its two codes.

`SwitchEvents` parses packets byte by byte with the code's own positions and skips. `Entities` is
`_logic.py` with Python's `round`, and what the entities of a unit show (`View`).

`Home` puts them together: calls of entities (`SetPosition`, `TurnOn`, `TurnOff`), of users of the library
(`UseLibrary`), the packet each builds at the moment the coordinator lets it in (`Build`; a cover's state
was copied before), its transmission in the order of building, the fixture that applies it and reports,
and the handling of reports (`Handle`) and of the scheduled update of entities (`ApplyUpdate`). The
fixtures are external: their layouts are those of `doc/fixtures-specs` (a blind with a slider, an on/off
bit and tagged sensors; a screen) and a lamp with dimmer, temperature, colour and vertical; their replies
are built from what the parsers read.

What the proofs need to know of the types of fixtures is assumed by name: `HomeAssumption` (distinct ids, a
report names each unit at most once, `Order`, with any further `Flags`), `TypesAssumption` (the controls of a
type lie beside each other within its bytes, with defaults they can hold), `SensingAssumption` (tagged sensors
of a unit share one index, which names none at first, and one field for the reading, and only sensors write
them), `PressesAssumption` (switches send messages there are codes for), `AsksAssumption` (percents are
percents, and only covers send whole states) and `MotorsAssumption`. The last is about shades and screens: one
slider, dimmer, vertical and on/off control each at most, which commands may write, a slider within 0..255 (what its
setter accepts) of at least a hundred values with a code for each, a dimmer of 7 or 8 bits, and nothing else but
controls that are only read. It is what `OthersKept` and `PositionReached` depend on: `getStateAsBytes` writes the
default of a control it has no value for, so a motor with writable controls of other kinds would have them reset by
every position, and with fewer codes than values a position could be missed by more. The code checks none of this;
the two properties say nothing of a motor that is built otherwise. `NoneAssumption` of `UnitCodec` keeps `None`
apart from numbers and bits.

A message of a button comes with its state byte within the payload it declares (`full`), beyond it (`beyond`, the
case `_switch.py:140-143` provides for) or without (`short`), and anything may follow it. A short message that three
bytes or more follow gets its kind from a byte of the next one; `EventsExact` leaves this kind open, and nothing else.

Shown besides the properties: a position creeps down by one code each time a state is written back
(`SLIDER` over 0..142 in 8 bits: 50 % is shown as 49 %); a command built from a stale or never reported
state writes it over the fixture's other controls (`OthersKept` is about current ones); a report a setter
refuses leaves the unit half updated and ends the callback task (`listening`).

## 7. `Transports`

One task uses one transport as `CasambiClient` does; `pc` is its `await`. The bleak connection is a link;
that of a proxy is made when first needed (`_connect`), again without a word after a loss, and keeps one
callback per link made (`regs`), of which only the last is removed by `disconnect` (`stored`). The events
of the proxy are on their way in a queue (`events`). `live` is the set of connections whose notification
handlers are registered; `left` remembers that a wait for a link was given up or a link could not be taken down,
which is how a link may outlive `disconnect()` (`LinkReleased`). What each method of the Home Assistant wrapper does
with an error is the table `Caught`. aioesphomeapi, bleak and the Home Assistant client are external and modelled as used:
they answer or fail.

Discovery parses advertisements byte by byte (`_parse_ad_structures`, `Key`, `Discovered`). What a device sends
is external: a list of structures (`Body`: the service by 16 or by 128 bits, the maker's data with or without the
address of a mesh, or something foreign) and bytes behind them that are no structure (`rest`), which `Bytes` packs. `Mesh` is what
the device means by it, so that `RelaysCollapse` compares the list with what was sent and not with what was
parsed. A device that names its mesh in one advertisement and keeps it back in another is listed twice by the code,
under the mesh and under its own address: `RelaysCollapse` takes it for a unit of that mesh and for one by itself.

Shown besides the properties: `Established` is refuted, hence no session can be opened over a proxy; a
relink puts an old session on a link without subscriptions; a link that came up after its timeout stays
for ever (`left`); a cancelled wait leaves its callback registered; `_is_connected` stays true when the proxy
itself is lost (`UpIsUp` excludes that); errors of `get_services` reach a user of the ESPHome transport
raw.

## 8. Runs

| Run | Instance | Question and result |
|---|---|---|
| `handshake` | 2 callers, 3 sends, 2 states, a device that may answer wrongly | does each handshake packet reach its handler (`RightHandler`) and each wait its packet (`RespondsToThisHello`), are states in order (`InOrder`), does every callback task release the lock (`LockReleased`), does a call leave the channel up or torn down (`WholeOrGone`)? yes |
| `open_network` | no key, 2 callers, 3 sends, 2 states, `disconnect` beside any call | same key and nonce at both ends (`SessionAgreed`), `RightHandler`: yes |
| `failures` | 2 callers whose sends overlap, also while reconnecting; failing radio, a lost link and a cancelled call; links made, links lost and calls cancelled are 3 together | `MutualExclusion`, operations at most once (`AtMostOnce`), counters fresh (`NonceFresh`), `Delivery` implemented (`Delivers`): yes |
| `liveness` | honest device, link that holds, 2 sends, 2 states | `CallsEnd`, `StatesHandled`: yes |
| `coordinator_life` | 2 set-ups, 2 commands, 2 links, with or without a key, 2 faults of any kind (error, stall, timeout while fetching, lost link, reported or not, device out of sight, changed password) | one task inside (`OneInside`), `ShutdownFinal`, `DataIsCurrent`, `CommandsEnd`, `SetupEnds`: yes |
| `network` | 2 instances, 3 calls, 2 events of any kind (failed request, change, expiry, cancellation, crash), keys renewed under their id | `CacheExclusive`, `AnswerIsFresh`, `RetryHeals`, `RenewedKey`: yes |
| `home` | 3 fixtures, an entity and a library user, 2 commands, 1 change made at a unit, by a sensor or a switch | `QuietAgrees`, `ShownIsCurrent`, `SensorsReal`, `OthersKept`, `PositionReached`, `EventsExact`: yes |
| `transports` | every configuration, 2 connections, 3 links, 1 loss, 1 cancellation | `UpIsUp`, `NoStray`, `LinkReleased`, `RelaysCollapse`, `OpsEnd`: yes |
| `lost_command` | 1 send, 1 lost link | `SendTransmits`: **no**, `_client.py:398` returns without transmitting |
| `lost_link` | 1 send, 1 lost link | `LossReported`: **no**, `_on_disconnect` (`_client.py:141`) is never called |
| `old_queue` | a lost link and a reconnection | `LockReleased`: **no**, `_client.py:259` raises before the release |
| `proxy_connects` | a proxy | `Established`: **no**, `_esphome_transport.py:209` returns a connection that is not up |

Each passing run also checks the type invariant of its module. The refuted properties are statements of
the repository's own documentation and comments; `PROJECT.json` quotes them. Deadlock is checked for
`transports`; elsewhere calls, packets and faults are bounded and a run may end.

Changing a constant shows what properties of the session depend on. `CallsEnd` fails with
`Honest = FALSE`: a proof that does not verify sets `ERROR` and wakes nobody (`_client.py:381`), so
`authenticate()` waits for ever although `connect()` documents a `ProtocolError`, and a hello that cannot be unpacked
ends the callback task (`_client.py:279`), so nothing wakes anybody; it fails with a lost
link, too, as no wait has a timeout, and with a cancelled handshake, which leaves the client half open.
`StatesHandled` fails with `Poison = TRUE`. `RespondsToThisHello` fails with a cancelled call: a signal
left by the cancelled handshake ends the next one's wait (`_client.py:201`). `WholeOrGone` fails with
`Flaky` or a cancellation: `_connectClient` cleans up after `ProtocolError` only. With `HasKey = FALSE`,
`Casambi.connect` raises although the channel is up (`_client.py:325`), so a retry never reaches its second
send. `NonceFresh` speaks of the time until the next `connect()` begins: with three tasks whose sends
still wait for the lock when another one reconnects, the counter restarts at 2 under the old key, and a
counter is used again whose write ended. The integration excludes this by its own lock.

**Bounds.** Two callers, instances or commands are enough for one to be inside a critical section, a
handshake or a reconnection while another enters it. Two or three sends let a session be opened, lost or
closed, and opened again while an operation of the old session is pending. Three calls of `connect()` let
one write the cache, another meet it and a third use what they left. Two coordinators are one before and
one after a reload. One or two faults meet every suspension point, as TLC places them everywhere; two
let a second one hit the recovery from the first. In `home` two commands overtake each other, the second
starts from what the first left, and one change made elsewhere comes between. The bounds are guards on
`sends`, `sent`, `drops`, `cancels`, `calls`, `events`, `faults`, `made`, `begun`, `moved`, `n` and
`links`. `failures` has one bound more, the constraint `FewTroubles` of `MCClient`: three links where nothing is lost or
cancelled (a failed write makes both senders reconnect, each closing the other's link), two with one lost link or
one cancelled call, one with both; without it the run has 5.6 million states and holds as well.

**Fairness.** `CasambiClient!FairSpec`: the event loop runs every task that can run and each radio
operation ends in success or error, so the steps of a caller inside a call and of a callback task are
weakly fair; the device answers (`DeviceReply`). `Coordinator!FairSpec`: the steps of every task, the set-up,
the loop and each command, are weakly fair, because sleeps, requests, timeouts and radio operations end; a
stalled device and a `_cacheLock` that stays locked are left by the timeout. `Transports!Spec`: awaits end, a wait
for a link by its timeout. Nobody has to call, cancel, unload, report a state or drop a link, and no fault has to end.

## 9. Proofs

What follows is proved by TLAPS for every value of the constants. The invariants named here are the
strengthenings of the properties; each was model-checked, directly or through the properties it
implies, before it was proved. A proof has one lemma per kind of step and goes through the actions of
`Next` at its end.

| Module | Theorem | Statement | From |
|---|---|---|---|
| `CasambiClient_proofs` | `TypeCorrect` | `Spec => []TypeOK` | `TypeOK /\ LockInv` |
| | `LockMutualExclusion` | `Spec => []MutualExclusion` | the same |
| | `NeverTwice` | `Spec => []AtMostOnce` | `TypeOK /\ LockInv /\ OpInv` |
| | `CountersFresh` | `Spec => []NonceFresh` | and `CounterInv` |
| | `ClientDelivers` | `Spec => Delivers`, the refinement of `Delivery` | `TypeOK /\ LockInv /\ OpInv` |
| `ClientSession_proofs`, for `Reliable` | `LockGivenBack` | `Spec => []LockReleased` | `TypeOK /\ LockInv /\ Base /\ Session` |
| | `PacketsMeetTheirHandler` | `Spec => []RightHandler` | the same |
| | `RespondsToItsHello` | `Spec => []RespondsToThisHello` | the same |
| | `EndsAgree` | `Spec => []SessionAgreed` | the same |
| | `NothingHalfOpen` | `Spec => []WholeOrGone` | the same |
| | `StatesInOrder` | `Spec => []InOrder` | and `Numbered` |
| `Coordinator_proofs` | `OneTaskInside` | `Spec => []OneInside` | `LockInv` of that module |
| | `ShutdownIsFinal` | `Spec => []ShutdownFinal` | and `ShutInv` |
| | `DataStaysCurrent` | `Spec => []DataIsCurrent` | and `DataInv` |
| | `TypeCorrect` | `Spec => []TypeOK` | `LockInv` and `Typed` |
| `Network_proofs` | `OneUser` | `Spec => []CacheExclusive` | `CacheInv` |
| | `AnswersAreFresh` | `Spec => []AnswerIsFresh` | `FreshInv` |
| | `CacheTyped` | `Spec => []TypeOK` | `CacheInv` and `Typed` |
| | `FailuresHeal` | `Spec => []RetryHeals` | and `HealInv` |
| | `KeysRenewed` | `Spec => []RenewedKey` | and `PurgeInv` |
| `Transports_proofs` | `TransportsTypeOK`, `Up`, `NoStrayHandler`, `NoLinkLeft` | `Spec => []P` for `TypeOK`, `UpIsUp`, `NoStray`, `LinkReleased` | `Inv`, and `Released` for the last |
| | `RelaysAreOne` | `Spec => []RelaysCollapse` | `ListIs`, `ParsedBack` |
| `UnitCodec_proofs` | `ScaledFits`, `ScaledEnds`, `UnscaledInRange`, `WrittenAndRead` | scaling, for all ranges and widths | integer arithmetic |
| | `DecodeAgain` | a state decoded completely is a fixed point of decoding | induction over the controls |
| | `EncodedReadsBack`, `ReadAndWritten` | what is written is read; what is read and written back creeps by two codes at most | `Placed`, integer arithmetic |
| `Home_proofs` | `HomeTypes` | `Spec => []TypeOK` | `Typed` |
| | `ViewsCurrent` | `Spec => []ShownIsCurrent` | itself |
| | `QuietUnitsAgree` | `Spec => []QuietAgrees` | `Typed`, `Synchronous` |
| | `SensorsAreReal` | `Spec => []SensorsReal` | `Typed`, `Sound` |
| | `EventsAreExact` | `Spec => EventsExact` | `SwitchesParsed` |
| | `PositionsReached` | `Spec => PositionReached` | `Typed`, `Planned` |
| | `OthersStayKept` | `Spec => OthersKept` | the same |
| | `ReportParsed`, `SwitchesParsed` | the byte parsers read what the fixtures sent, for every packet | induction over the bytes |

**Locks.** `Sequence_proofs` begins with the three facts all lock arguments rest on: what `acquire`, `release`
and a cancellation do to the members of a queue, its head and the distinctness of its elements
(`AppendQueue`, `TailQueue`, `WithoutQueue`). Neither mutual exclusion nor `TypeOK` of the session is
inductive: a step that ends a critical section replaces the queue by its tail, which is a sequence, and
gives the lock to the right task, only if the task was its head. `LockInv` of the session says that
nobody is in the queue of `_activityLock` twice; that the callers in it are those at a control point that
claims the lock, one that is writing being its head (`QueueOK`); that a callback task in it is about to
run its handler or ended without releasing (`TasksOK`, the state of the run `old_queue`: exclusion holds
even then, the lock is merely lost); and that only callers waiting for the signal are woken. `LockInv`
of the coordinator says the same of every `_op_lock`, and that coordinators not made yet are idle, as
a set-up begins with a fresh lock. `CacheInv` adds to `CacheExclusive` that a lost lock (`Orphan`)
is at the head of its queue, so that it is lost once.

**Delivery.** `OpInv` says that operations are numbered in the order of their calls, distinct callers
have distinct operations, only calls that send are transmitting, the operation of a send that has not
transmitted is not on the air, and that of a caller whose write is under way was the last to go there.
`CounterInv` says that since the last `connect()` no packet counter above the next was used, and the next
one in no write that ended. `ClientDelivers` maps each action to a step of `Delivery` or a stutter.

**Session.** The six theorems of `ClientSession_proofs` assume `Reliable`: calls are made one after the
other (sends that find the channel up overlap all the same), none is cancelled, and the link holds. Any
number of callers, sends, packets and connections, a device that answers wrongly (`Honest`), states that
raise (`Poison`), and a network with or without a key are covered. The hypothesis is what the runs
`handshake` and, but for its overlapping `disconnect`, `open_network` have, and most of it is needed: with
`Flaky` or a lost link TLC refutes `LockReleased`, `RightHandler`, `RespondsToThisHello` and `WholeOrGone`, with
a cancelled call the last three, with sends that overlap a handshake (`Overlap = {"send"}`) `SessionAgreed`
too, with an overlapping `disconnect` `WholeOrGone`. `SessionAgreed` and `RightHandler` beside a `disconnect`
stay with the run `open_network`, and what a lost link does to `LockReleased` is the finding of `old_queue`.
`LockReleased` needs to know what a callback task may meet: it dies with the lock if `task_done()` raises,
which it does if the queue is not the one its packet came from. So `Base` says that a task that lives is
that of the last `connect()` (`OneTask`) and that its queue counts the packets it holds (`Tally`). Which
packets these are depends on the state of the whole handshake. `Session` is that state: untouched, closed,
up with only senders, or one caller inside a call that is at one of the stages `Opening` to `Leaving`, each
of which says where the device is, what is on the way (`Clear`, `Ahead`, `Rest`), which keys and nonces are
set (`Settles`), and whether the signal is set. The five properties are read off it. `Numbered` adds that
the unit states in the queue and in the hands of the task are newer than those delivered, in order.

**Coordinator.** `ShutInv` strengthens `ShutdownFinal` by what makes it last: after
`Unregister` a quiet coordinator has no registered handlers, so that neither the disconnection that follows
nor a link lost later is told to anyone, and only loaded entries get commands. `DataInv` says that
only the last coordinator is set up or loaded, so that the flow which ends a reauthentication unloads
the very coordinator whose loop gave up. `Typed` needs `LockInv` because a lock's queue stays a queue of
tasks only if what is released was held.

**Network.** `FreshInv` says that a call has been told something only in the sections after the request of
`update()`, and that `since` never exceeds the server's revision. `HealInv` says what a call that is alone can
rely on (`Solo`: no error but the refusal of an old session is left for it, and in the section `invalidate`
it holds such a session), that no session is numbered beyond the logins (`Sessions`), that a call past the
login which is not offline has one (`Online`), and that after a failure neither a call nor the file has a
session of an old password (`Healed`), so that a second refusal is impossible. `failures` counts
since the last change of the password (`Renew`): with four calls another change can come between two
failures, and then each of them is legitimate. `PurgeInv` says that after an invalidation
that left nobody with old data, every object and the files hold keys only of those the server lists, each
once (`GoodKeys`), and networks only of its password (`GoodNet`); from `ParsedFits` on, the newest key is in
the store or about to be added, so `getKey`, which takes the highest role, finds it (`NewestChosen`). It
needs `Idles` of `HealInv`: calls that are not under way hold nothing.

**Transports.** `Inv` adds to the properties where the awaits of each operation are (`Places`: for instance
that a link is made only for a connection that is open), what the events on their way tell of the link
(`News`: only the last one tells how it is, and a wait that may still be ended has its callback registered)
and which errors there are (`Faults`). `UpIsUp` fails to be inductive without `News`, as a flag set by an old
event would be taken for the link. `LinkReleased` rests on `Released`: what the link and the events
on their way can be while nothing was given up (`left`), for a connection that is up, down, or waits for its link. `RelaysAreOne` is about data: `ListIs` says that what is listed comes from
the last scan, the rest is the lemma that such a list names each mesh once (`ListCollapses`). `ParsedBack`
shows that parsing what a device packed yields its structures and nothing of `rest`; `ServiceRead` and
`MakersRead` find in them the service and the maker's data, the address of the mesh included, so that the key
an advertisement is listed under is its mesh (`ListedIs`).

**Parsers.** The parsers and `FlattenSeq`, which puts packets together, are recursive functions on the length
of their input. The induction theorems of the library cannot be instantiated here, as they take an operator;
`Sequence_proofs` derives induction for a *set* of numbers instead (`Least`, `Induction`, from the well-foundedness
of `<`), and from it where the parts of a packet stand (`Joined`, `Slice`, `Cut`). A proof about a parser
goes backwards over the parts: at the position where part `i` begins the parser yields the parts from `i` on
(`ReportParsed` for unit states with their flags, extra bytes and padding; `SwitchesParsed` for switch
messages of every kind with noise between them, and `KindIs` for which kinds are those sent).

**Home.** `Typed` adds to `TypeOK` that the packets in the air are reports of fixtures as they were at some time
or of switches, and what the calls under way hold. `QuietAgrees` needs a history: `Synchronous` says that
the queue of reports can be read as a sequence of pairs, which units and fixtures as they were (`Logged`),
such that the last report naming a unit has its fixture as it is now, and a unit that none names is known as it
is (`UpToDate`). Handling a report preserves it, because a state that was decoded completely is a fixed point of
decoding its bytes (`DecodeAgain`): later reports with the same bytes change nothing. `SensorsReal` needs
`Sound`: fixtures as they are and in every report in the air carry, where their index names a sensor, a reading of that
very sensor (`ReadingOK`), which commands cannot change since both controls are read-only, and the library's
units hold, under a name, readings of a sensor of that name only. `OthersKept` and `PositionReached` speak of a step that comes long after the
command: `Planned` says what a call carries in between, namely that the step of a cover holds the state it
started from and the one it makes of it, that any other call asks for no whole state, and that a packet with a whole
state is the encoding of one of these two kinds. `EncodedReadsBack` then says what the fixture reads, `SentIs` what it
keeps, and `PositionIs` and `OthersAre` follow a percentage, or a control that is carried along, through
rounding, codec and rounding back (`PercentIs`, `SliderBack`, `DimmerBack`).

**Assumptions.** `CallersAssumption`, `CommandsAssumption` and `OrphanAssumption` keep the names of
different kinds of tasks apart, `FilesAssumption` keeps a file that is missing or torn apart from one with
contents; `NumbersAssumption` and the assumptions on flags and bounds give the types of the constants; those of
`Home` and `ScansAssumption` are explained with their modules. TLC evaluates them in the runs.

**Only model-checked.** Liveness (`CallsEnd`, `StatesHandled`, `CommandsEnd`, `SetupEnds`, `OpsEnd`), which
the prover does not handle, and the session outside `Reliable`, where a property still holds there.

## 10. Not modelled

- Encryption (`_encryption.py`): primitives over bytes; the session represents keys and nonces by the
  link they come from.
- The rounding errors of floating-point numbers, and the names, icons and units of measurement of entities:
  data without control.
- A server that sends keys of unknown types or roles, or changes the id of a network; a unit's answer too short
  to unpack (sections 3 and 4).
- An entry that is removed while it is set up, and set-ups beyond the bound.
- The scan of the Bluetooth adapter with its retries, and what aioesphomeapi, bleak, httpx and Home
  Assistant do inside: external, modelled as used.
- The contents of units, groups and scenes in an answer of the server, and the forms and texts of the
  config flow.
- Logging, `_inPacketCount`, getters, error classes and package exports.
- The demo web application: an example front end; its races are listed as hazards in `PROJECT.json`.
- The vendored copy of the library: identical to `src/CasambiBt`.

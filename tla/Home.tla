-------------------------------- MODULE Home --------------------------------
(***************************************************************************)
(* Commands and reports between the users of a network and its fixtures,   *)
(* over an authenticated session: the facade of Casambi (_casambi.py), the *)
(* entities of Home Assistant and the coordinator's part in their calls,   *)
(* with the codec of UnitCodec and the packets of SwitchEvents.            *)
(*                                                                         *)
(* A command is a packet the library builds from what it knows of a unit   *)
(* and a fixture applies later; a fixture reports its state in packets     *)
(* that arrive later still. What happens to the link is the business of    *)
(* CasambiClient and Coordinator: here a packet is sent or its call fails. *)
(***************************************************************************)
EXTENDS Entities, SwitchEvents

CONSTANTS Units,       \* the units of the network
          Type,        \* the type of each unit
          Id,          \* the id of each unit within the network
          Order,       \* the order in which a report names the units
          Flags,       \* the flags of its reports beyond on and online
          Callers,     \* tasks that send commands
          Entity,      \* those that are entities of Home Assistant
          Percents, Lights, \* what entities are asked for
          Asks,        \* controls users of the library set on a target
          Touches,     \* controls of a unit that change at the unit itself
          Presses,     \* the sequences of switch messages of a packet
          Readings,    \* the readings of each unit's tagged sensors
          MaxCommands, \* bound: calls begun
          MaxMoves     \* bound: packets that no command caused

ASSUME HomeAssumption ==
  /\ Entity \subseteq Callers
  /\ \A u, v \in Units : Id[u] \in 1..255 /\ (u # v => Id[u] # Id[v])
  /\ DOMAIN Order = 1..Len(Order) /\ Len(Order) \in Nat
  /\ \A u \in Units : \E i \in DOMAIN Order : Order[i] = u
  /\ \A i, j \in DOMAIN Order : Order[i] \in Units /\ (i # j => Order[i] # Order[j])
  /\ \A u \in Units : Flags[u] \in {4 * n : n \in 0..63}
  /\ \A t \in Touches : t[1] \in Units
  /\ MaxCommands \in Nat /\ MaxMoves \in Nat

(* What the description of a type lists: controls that lie within the      *)
(* bytes of the state, one beside the other, with defaults they can hold.  *)
ASSUME TypesAssumption ==
  \A u \in Units :
    LET cs == Type[u].controls IN
    /\ Type[u].stateLength \in 1..16
    /\ DOMAIN cs = 1..Len(cs) /\ Len(cs) \in Nat
    /\ \A i \in DOMAIN cs :
         /\ cs[i].offset \in Nat /\ cs[i].length \in 0..31
         /\ cs[i].offset + cs[i].length <= 8 * Type[u].stateLength
         /\ cs[i].default \in 0..(2 ^ cs[i].length - 1)
         /\ \A j \in DOMAIN cs : i # j => Place(cs[i]) \cap Place(cs[j]) = {}

(* A unit with tagged sensors has one group index, which at first names    *)
(* none, and one field for their readings; nobody else writes these two.   *)
ASSUME SensingAssumption ==
  /\ \A t \in Touches : t[2] \notin {"SENSORGROUP", "SENSORGROUPVALUE"}
  /\ \A u \in Units :
       LET cs    == Type[u].controls
           group == Control(Type[u], "SENSORGROUP")
           value == Control(Type[u], "SENSORGROUPVALUE")
       IN  IF "SENSORGROUP" \notin ControlTypes(Type[u]) THEN DOMAIN Readings[u] = {}
           ELSE /\ group # None /\ value # None
                /\ group.readonly /\ value.readonly /\ group.default = 0
                /\ \A i \in DOMAIN cs : /\ cs[i].type = "SENSORGROUP" => cs[i] = group
                                        /\ cs[i].type = "SENSORGROUPVALUE" => cs[i] = value
                /\ \A tag \in DOMAIN Readings[u] :
                     /\ tag + 1 \in 1..(2 ^ group.length - 1)
                     /\ tag \in Nat /\ Readings[u][tag] \subseteq 0..(2 ^ value.length - 1)

(* What is asked for: percents, controls of a light, single controls. A    *)
(* whole state is sent by covers only.                                     *)
ASSUME AsksAssumption ==
  /\ Percents \subseteq 0..100
  /\ \A a \in Lights : a \in Seq(Range(a)) /\ \A x \in Range(a) : x.type # "STATE"
  /\ \A a \in Asks : a[2].type # "STATE" /\ (a[1].kind = "unit" => a[1].unit \in Units)

(* What drives the motor of a shade or a screen: a position within what    *)
(* the setter accepts, of a hundred values or more and with a code for     *)
(* each of them; levels; and a bit.                                        *)
Driven == {"SLIDER", "DIMMER", "VERTICAL", "ONOFF"}

Drives(c) ==
  CASE c.type = "SLIDER" ->
         /\ {c.min, c.max} \subseteq 0..255
         /\ c.max - c.min \in 100..Mask(c)
    [] c.type = "DIMMER"   -> c.length \in 7..8
    [] c.type = "VERTICAL" -> c.length <= 8
    [] c.type = "ONOFF"    -> c.length = 1

(* A motor has one control of a kind to be driven with. All others can     *)
(* only be read, and are none that a state command would write.            *)
ASSUME MotorsAssumption ==
  \A u \in Units : Role(Type[u]) \in {"SHADE", "SCREEN"} =>
    LET cs == Type[u].controls IN
    \A i \in DOMAIN cs :
      IF cs[i].type \in Driven
      THEN /\ ~cs[i].readonly /\ Drives(cs[i])
           /\ \A j \in DOMAIN cs : i # j => cs[j].type # cs[i].type
      ELSE /\ cs[i].readonly /\ cs[i].type \notin Colors
           /\ cs[i].type = "SENSOR" => cs[i].length = 0
           /\ cs[i].type = "LUX" => cs[i].length > 0

VARIABLES
  unit,      \* the library's units: state, on, online
  due,       \* an update of the coordinator is scheduled on the event loop
  shown,     \* what the entities of each unit show
  listening, \* the task that handles notifications is alive
  events,    \* the switch events of the last packet handled
  origin,    \* OperationsContext.origin
  call,      \* the call of each caller
  fixture,   \* the fixtures: the bits of their state and their last level
  air,       \* reports on their way
  begun, moved

vars == <<unit, due, shown, listening, events, origin, call, fixture, air, begun, moved>>

Idle == [pc |-> "idle"]

(* A fixture's own state, before anybody sent a command: the defaults.     *)
Fresh(u) == [bits |-> Encode(Type[u], NoState), last |-> 255]

Init ==
  /\ unit      = [u \in Units |-> [state |-> None, on |-> FALSE, online |-> FALSE]]
  /\ due       = FALSE
  /\ shown     = [u \in Units |-> View(Type[u], unit[u])]
  /\ listening = TRUE
  /\ events    = <<>>
  /\ origin    = 1
  /\ call      = [c \in Callers |-> Idle]
  /\ fixture   = [u \in Units |-> Fresh(u)]
  /\ air       = <<>>
  /\ begun     = 0
  /\ moved     = 0

(***************************************************************************)
(* Fixtures (external): what a packet does to the fixtures it addresses,   *)
(* and the packet a fixture reports its state with.                        *)
(***************************************************************************)
Overwritten(bits, c, n) == (bits \ Place(c)) \cup (Placed(c, n) \cap Place(c))

Put(u, t, n) ==          \* the fixture's bits with the control's code n
  LET c == Control(Type[u], t)
  IN  IF c = None THEN fixture[u].bits ELSE Overwritten(fixture[u].bits, c, n)

LevelCode(u, t, v) ==
  IF Control(Type[u], t) = None THEN 0 ELSE v \div 2 ^ (8 - Control(Type[u], t).length)

Writable(u) == UNION {Place(c) : c \in {d \in Range(Type[u].controls) : ~d.readonly}}

Applied(u, op, payload) ==
  CASE op = "SetState"       -> (fixture[u].bits \ Writable(u)) \cup (payload \cap Writable(u))
    [] op = "SetLevel"       -> Put(u, "DIMMER", LevelCode(u, "DIMMER", payload))
    [] op = "RestoreLevel"   -> Put(u, "DIMMER", fixture[u].last)
    [] op = "SetVertical"    -> Put(u, "VERTICAL", LevelCode(u, "VERTICAL", payload))
    [] op = "SetWhite"       -> Put(u, "WHITE", LevelCode(u, "WHITE", payload))
    [] op = "SetSlider"      -> Put(u, "SLIDER", payload)
    [] op = "SetTemperature" ->
         LET c == Control(Type[u], "TEMPERATURE")
         IN  IF c = None THEN fixture[u].bits
             ELSE Put(u, "TEMPERATURE",
                      Scaled(Clamp(50 * payload, c.min, c.max), c.min, c.max, Mask(c)))
    [] op = "SetColorXY"     -> Put(u, "XY", payload)
    [] op = "SetColor"       -> Put(u, "RGB", payload)

Level(u, bits) == IF Control(Type[u], "DIMMER") = None THEN 255
                  ELSE Extract(Control(Type[u], "DIMMER"), bits)

With(u, bits) == [bits |-> bits,
                  last |-> IF Level(u, bits) > 0 THEN Level(u, bits) ELSE fixture[u].last]

On(u, bits) == Control(Type[u], "ONOFF") # None \/ Level(u, bits) > 0

Zeros(n) == [i \in 1..n |-> 0]

Entry(u, bits) ==
  LET n     == Type[u].stateLength
      flags == Flags[u] + 2 + (IF On(u, bits) THEN 1 ELSE 0)
      extra == Bit(flags, 2) + Bit(flags, 3) + Bit(flags, 4)
  IN  <<Id[u], flags, (n - 1) * 16>> \o Zeros(extra)
      \o [i \in 1..n |-> IntOf({j \in 0..7 : 8 * (i - 1) + j \in bits})]
      \o Zeros(Padding(flags))

Report(us, fs) ==
  [type |-> "states", said |-> <<>>,
   data |-> FlattenSeq([i \in DOMAIN Order |->
              IF Order[i] \in us THEN Entry(Order[i], fs[Order[i]].bits) ELSE <<>>])]

(***************************************************************************)
(* The facade of Casambi: the packet a call builds, or None if it raises.  *)
(***************************************************************************)
TargetCode(target) ==
  CASE target.kind = "unit"  -> Id[target.unit] * 256 + 1
    [] target.kind = "group" -> target.id * 256 + 2
    [] target.kind = "scene" -> target.id * 256 + 4
    [] OTHER                 -> 0

Addressed(target) ==
  CASE target.kind = "unit"  -> {target.unit}
    [] target.kind \in {"group", "scene"} -> target.units
    [] OTHER                 -> Units

(* prepareOperation: the origin is cut to 16 bits.                         *)
Packet(op, target, payload) ==
  [origin |-> origin % 2 ^ 16, op |-> op, code |-> TargetCode(target), payload |-> payload]

setUnitState(target, state) ==
  IF \E c \in Range(Type[target.unit].controls) : Unwritable(c, state) THEN None
  ELSE Packet("SetState", target, Encode(Type[target.unit], state))

(* The copy of a unit's state a command starts from.                       *)
Known_Empty(u) == NoState    \* mutant: a command starts from UnitState()

Known(u) == IF unit[u].state = None THEN NoState ELSE unit[u].state

setByte(op, target, v) == IF v \in 0..255 THEN Packet(op, target, v) ELSE None

setTemperature(target, kelvin) == setByte("SetTemperature", target, kelvin \div 50)

(* The hue in 10 bits, the saturation in 8.                                *)
setColor(target, rgb) ==
  IF \A i \in 1..3 : rgb[i] \in 0..255 THEN Packet("SetColor", target, HsCode(rgb, 10, 8))
  ELSE None

(* A colour is given as its codes; without a unit 11 bits are assumed.     *)
setColorXY(target, xy) ==
  LET c   == IF target.kind = "unit" THEN Control(Type[target.unit], "XY") ELSE None
      len == IF target.kind = "unit" THEN c.length \div 2 ELSE 11
  IN  Packet("SetColorXY", target, (xy[1] % 2 ^ len) * 2 ^ len + (xy[2] % 2 ^ len))

(* Which controls of a single unit setControl refuses.                     *)
ReadOnly(target, t) ==
  \/ t = "SENSOR"
  \/ /\ target.kind = "unit"
     /\ LET c == Control(Type[target.unit], t)
        IN  IF c = None THEN ~(t = "ONOFF" /\ Role(Type[target.unit]) = "LIGHT")
            ELSE c.readonly

setControl(target, t, v) ==
  IF ReadOnly(target, t) THEN None
  ELSE CASE t = "DIMMER"      -> setByte("SetLevel", target, v)
         [] t = "VERTICAL"    -> setByte("SetVertical", target, v)
         [] t = "WHITE"       -> setByte("SetWhite", target, v)
         [] t = "SLIDER"      -> setByte("SetSlider", target, v)
         [] t = "TEMPERATURE" -> setTemperature(target, v)
         [] t = "RGB"         -> setColor(target, v)
         [] t = "XY"          -> setColorXY(target, v)
         [] t = "ONOFF"       ->
              IF target.kind = "unit" /\ Role(Type[target.unit]) \in {"SHADE", "SCREEN"}
              THEN setUnitState(target, [Known(target.unit) EXCEPT !.onoff = v # 0])
              ELSE IF v # 0 THEN Packet("RestoreLevel", target, 255)
              ELSE setByte("SetLevel", target, 0)
         [] OTHER             -> None

(* A scene takes a level, relative to its own.                             *)
switchToScene(target, level) == setByte("SetLevel", target, level)

(***************************************************************************)
(* Calls.                                                                  *)
(***************************************************************************)
CanBegin(c) == call[c] = Idle /\ begun < MaxCommands

Begin(c, target, todo) ==
  /\ begun' = begun + 1
  /\ call' = [call EXCEPT ![c] = [pc |-> "wait", target |-> target, todo |-> todo]]
  /\ UNCHANGED <<unit, due, shown, listening, events, origin, fixture, air, moved>>

Unit(u) == [kind |-> "unit", unit |-> u]

(* A cover copies the unit's state when it is called, and waits for the    *)
(* coordinator's lock after that.                                          *)
SetPosition(c, u, percent) ==
  LET pos == PositionControl(Type[u]) IN
  /\ CanBegin(c) /\ c \in Entity
  /\ pos # None
  /\ Begin(c, Unit(u),
       <<[type |-> "STATE", base |-> unit[u].state, percent |-> percent,
          value |-> [Known(u) EXCEPT ![pos.field] =
                       percent_to_native(percent, pos.lo, pos.hi)]]>>)

(* A light sends a packet for each attribute it is called with.            *)
TurnOn(c, u, attributes) ==
  /\ CanBegin(c) /\ c \in Entity
  /\ Role(Type[u]) = "LIGHT"
  /\ Begin(c, Unit(u), IF attributes = <<>> THEN <<[type |-> "ONOFF", value |-> 1]>>
                       ELSE attributes)

TurnOff(c, u) ==
  /\ CanBegin(c) /\ c \in Entity
  /\ Role(Type[u]) = "LIGHT"
  /\ Begin(c, Unit(u), <<[type |-> "ONOFF", value |-> 0]>>)

(* A user of the library itself.                                           *)
UseLibrary(c, target, control) ==
  /\ CanBegin(c) /\ c \notin Entity
  /\ Begin(c, target, <<control>>)

(* The packet is built from the unit's state of this moment, except that   *)
(* of a cover. The entities' calls exclude each other from here to the     *)
(* end of the transmission.                                                *)
Build(c) ==
  /\ call[c].pc = "wait"
  /\ c \in Entity => \A d \in Entity : call[d].pc # "sending"
  /\ LET step   == Head(call[c].todo)
         packet == IF step.type = "STATE" THEN setUnitState(call[c].target, step.value)
                   ELSE IF step.type = "SCENE" THEN switchToScene(call[c].target, step.value)
                   ELSE setControl(call[c].target, step.type, step.value)
     IN  IF packet = None
         THEN /\ call' = [call EXCEPT ![c] = Idle]
              /\ UNCHANGED origin
         ELSE /\ call' = [call EXCEPT ![c] =
                            [pc |-> "sending", target |-> @.target, todo |-> @.todo,
                             packet |-> packet,
                             base |-> IF step.type = "STATE" THEN step.base
                                      ELSE IF @.target.kind = "unit" THEN unit[@.target.unit].state
                                      ELSE None]]
              /\ origin' = origin + 1
  /\ UNCHANGED <<unit, due, shown, listening, events, fixture, air, begun, moved>>

(* The packets leave in the order they were built.                         *)
Transmitting(c) ==
  /\ call[c].pc = "sending"
  /\ \A d \in Callers : call[d].pc = "sending" =>
       call[c].packet.origin <= call[d].packet.origin

Transmit(c) ==
  /\ Transmitting(c)
  /\ LET us == Addressed(call[c].target)
         p  == call[c].packet
     IN  /\ fixture' = [u \in Units |->
              IF u \in us THEN With(u, Applied(u, p.op, p.payload)) ELSE fixture[u]]
         /\ air' = Append(air, Report(us, fixture'))
  /\ call' = [call EXCEPT ![c] =
       IF Len(@.todo) = 1 THEN Idle
       ELSE [pc |-> "wait", target |-> @.target, todo |-> Tail(@.todo)]]
  /\ UNCHANGED <<unit, due, shown, listening, events, origin, begun, moved>>

(* The send raises or times out: the rest of the call is not sent either.  *)
SendFails(c) ==
  /\ Transmitting(c)
  /\ call' = [call EXCEPT ![c] = Idle]
  /\ UNCHANGED <<unit, due, shown, listening, events, origin, fixture, air, begun, moved>>

(***************************************************************************)
(* The network by itself: a unit is changed on the spot, a sensor reading  *)
(* is due, switches are pressed.                                           *)
(***************************************************************************)
Moves(u, bits) ==
  /\ fixture' = [fixture EXCEPT ![u] = With(u, bits)]
  /\ air' = Append(air, Report({u}, fixture'))

Says(packet) == UNCHANGED fixture /\ air' = Append(air, packet)

Environment ==
  /\ moved < MaxMoves
  /\ moved' = moved + 1
  /\ UNCHANGED <<unit, due, shown, listening, events, origin, call, begun>>

Touch(u, t, n) == Environment /\ Moves(u, Put(u, t, n))

Sense(u, tag, reading) ==
  LET group == Control(Type[u], "SENSORGROUP")
      value == Control(Type[u], "SENSORGROUPVALUE")
  IN  /\ Environment
      /\ Moves(u, Overwritten(Overwritten(fixture[u].bits, group, tag + 1), value, reading))

(* A switch message as the fixtures build it. The state byte of type 16    *)
(* stands at position 9, within the payload the message declares ("full")  *)
(* or beyond it ("beyond"); a short message ends before it.                *)
StateByte  == [PRESS |-> 1, RELEASE |-> 2, HOLD |-> 9, RELEASE_AFTER_HOLD |-> 12]
ActionByte == [PRESS |-> 0, RELEASE |-> 2]

Message(m) ==
  CASE m.kind = "button" -> <<8, 0, 16 + ((m.button + 1) % 4), m.unit, ActionByte[m.event]>>
    [] m.kind = "full"   -> <<16, 0, 96 + m.button, 0, 0, m.unit, 0, 0, 0, StateByte[m.event]>>
    [] m.kind = "beyond" -> <<16, 0, 32 + m.button, 0, 0, m.unit, 0, 0, 0, StateByte[m.event]>>
    [] m.kind = "short"  -> <<16, 0, 48 + m.button, 0, 0, m.unit, 18>>
    [] m.kind = "other"  -> <<41, 0, 0, 0>>
    [] m.kind = "noise"  -> <<200>>

Switches(ms) ==
  [type |-> "switch", said |-> ms,
   data |-> FlattenSeq([i \in 1..Len(ms) |-> Message(ms[i])])]

(* What switches say: kinds and buttons there are codes for, and no packet *)
(* that begins with type 41, which is not about switches.                  *)
ASSUME PressesAssumption ==
  \A ms \in Presses :
    /\ DOMAIN ms = 1..Len(ms) /\ Len(ms) \in Nat
    /\ \A i \in DOMAIN ms :
         \/ ms[i].kind = "noise"
         \/ ms[i].kind = "other" /\ i # 1
         \/ /\ ms[i].kind = "button" /\ ms[i].event \in DOMAIN ActionByte
            /\ ms[i].button \in 1..4 /\ ms[i].unit \in 0..255
         \/ /\ ms[i].kind \in {"full", "beyond"} /\ ms[i].event \in DOMAIN StateByte
            /\ ms[i].button \in 1..15 /\ ms[i].unit \in 0..255
         \/ /\ ms[i].kind = "short" /\ ms[i].event = "RELEASE"
            /\ ms[i].button \in 1..15 /\ ms[i].unit \in 0..255

Press(ms) == Environment /\ Says(Switches(ms))

(***************************************************************************)
(* The notification path: _establishedNotifyCallback and _dataCallback.    *)
(***************************************************************************)
(* The reports of a packet, one after the other: ids are unique. An        *)
(* exception of the codec leaves the state half updated, on and online as  *)
(* they were, nobody told and the rest of the packet unread.               *)
TakeReport(acc, r) ==
  LET u    == CHOOSE v \in Units : Id[v] = r.id
      bits == UNION {{8 * (i - 1) + j : j \in BitsOf(r.state[i])} : i \in DOMAIN r.state}
      old  == acc.unit[u]
      d    == Decode(Type[u], IF old.state = None THEN NoState ELSE old.state, bits)
      new  == IF d.ok THEN [state |-> d.state, on |-> r.on, online |-> r.online]
              ELSE [old EXCEPT !.state = d.state]
  IN  IF ~acc.ok \/ \A v \in Units : Id[v] # r.id THEN acc
      ELSE [ok |-> d.ok, told |-> acc.told \/ d.ok, unit |-> [acc.unit EXCEPT ![u] = new]]

TakeReports(reports) ==
  LET after[i \in 0..Len(reports)] ==
        IF i = 0 THEN [ok |-> TRUE, told |-> FALSE, unit |-> unit]
        ELSE LET before == after[i - 1] IN TakeReport(before, reports[i])
  IN  after[Len(reports)]

(* The handlers are called in their order: a user's, which may raise, and  *)
(* the coordinator's.                                                      *)
CoordinatorTold_Raises(told, raises) == told /\ ~raises    \* mutant: no try around a handler

CoordinatorTold(told, raises) == told

(* A report that cannot be decoded ends the task that handles packets.     *)
Handle(raises) ==
  /\ listening
  /\ air # <<>>
  /\ air' = Tail(air)
  /\ LET n    == Head(air)
         done == TakeReports(IF n.type = "states" THEN parseUnitStates(n.data) ELSE <<>>)
     IN  /\ unit'      = done.unit
         /\ listening' = done.ok
         /\ due'       = (due \/ CoordinatorTold(done.told, raises))
         /\ events'    = IF n.type = "switch" THEN parseSwitchEvents(n.data) ELSE <<>>
  /\ UNCHANGED <<shown, origin, call, fixture, begun, moved>>

(* _apply_unit_update: every entity writes its state.                      *)
ApplyUpdate ==
  /\ due
  /\ due' = FALSE
  /\ shown' = [u \in Units |-> View(Type[u], unit[u])]
  /\ UNCHANGED <<unit, listening, events, origin, call, fixture, air, begun, moved>>

Calls(c) ==
  \/ \E u \in Units, p \in Percents : SetPosition(c, u, p)
  \/ \E u \in Units, a \in Lights : TurnOn(c, u, a)
  \/ \E u \in Units : TurnOff(c, u)
  \/ \E a \in Asks : UseLibrary(c, a[1], a[2])
  \/ Build(c) \/ Transmit(c) \/ SendFails(c)

Next ==
  \/ \E c \in Callers : Calls(c)
  \/ \E t \in Touches : Touch(t[1], t[2], t[3])
  \/ \E u \in Units : \E tag \in DOMAIN Readings[u] : \E r \in Readings[u][tag] :
       Sense(u, tag, r)
  \/ \E ms \in Presses : Press(ms)
  \/ \E raises \in BOOLEAN : Handle(raises)
  \/ ApplyUpdate

Spec == Init /\ [][Next]_vars

(***************************************************************************)
(* Properties.                                                             *)
(***************************************************************************)
StateOK(s) ==
  /\ DOMAIN s = DOMAIN NoState
  /\ \A f \in Range(Field) : s[f] # None => InRange(f, s[f])

(* The library's units hold values its setters accept, whatever arrived.   *)
TypeOK ==
  /\ \A u \in Units : /\ unit[u].state # None => StateOK(unit[u].state)
                       /\ unit[u].on \in BOOLEAN /\ unit[u].online \in BOOLEAN
                       /\ fixture[u].bits \subseteq 0..(8 * Type[u].stateLength - 1)
  /\ due \in BOOLEAN /\ listening \in BOOLEAN
  /\ \A c \in Callers : call[c].pc \in {"idle", "wait", "sending"}
  /\ origin \in Nat /\ begun \in 0..MaxCommands /\ moved \in 0..MaxMoves

(* Once every report has arrived the library knows each fixture that ever  *)
(* reported as it is, in all the controls it can read: commands of several *)
(* callers, units sharing a packet and changes made on the spot included.  *)
QuietAgrees ==
  air = <<>> /\ listening =>
    \A u \in Units : unit[u].state # None =>
      /\ Decode(Type[u], unit[u].state, fixture[u].bits) =
           [ok |-> TRUE, state |-> unit[u].state]
      /\ unit[u].on = On(u, fixture[u].bits)

(* What the entities show is what the library knows, as soon as no update  *)
(* is scheduled; a handler that raises hides nothing from the coordinator. *)
ShownIsCurrent ==
  listening /\ ~due => shown = [u \in Units |-> View(Type[u], unit[u])]

(* A reading held under a name is one that a tagged sensor of this name    *)
(* has reported: readings that share their bits are never given to a       *)
(* sensor of another name. Sensors whose names are alike or empty share    *)
(* their reading: the entity of each shows the one that came last.         *)
SensorsReal ==
  \A u \in Units : unit[u].state # None =>
    \A n \in DOMAIN unit[u].state.sensors :
      \E c \in TaggedSensors(Type[u]) :
        c.name = n /\ unit[u].state.sensors[n] \in Readings[u][c.tag]

Delivered(c) == call[c].pc = "sending" /\ call'[c] # call[c] /\ air' # air

(* The state a command started from is still the state of the fixture.     *)
Current(u, base) ==
  base # None /\ Decode(Type[u], base, fixture[u].bits) = [ok |-> TRUE, state |-> base]

(* A command that sends a whole state, the position of a cover or the      *)
(* on/off bit of a motor, changes only the control it is for, if the state *)
(* it started from was current: other bits stay, and a position it carries *)
(* along creeps down by at most one value of its range and never up.       *)
OthersKept ==
  [][\A c \in Callers :
       Delivered(c) /\ call[c].packet.op = "SetState" =>
         LET u    == call[c].target.unit
             step == Head(call[c].todo)
             own  == IF step.type = "STATE" THEN {"SLIDER", "DIMMER"} ELSE {"ONOFF"}
         IN  Current(u, call[c].base) =>
               \A d \in Range(Type[u].controls) :
                 LET old == Extract(d, fixture[u].bits)
                     new == Extract(d, fixture'[u].bits)
                 IN  CASE d.type \in own    -> TRUE
                       [] d.type = "SLIDER" /\ d.type \notin own ->
                            Reading(d, new) \in (Reading(d, old) - 1)..Reading(d, old)
                       [] OTHER             -> new = old]_vars

(* A cover that was told a position will report that position or one       *)
(* percent less, and exactly 0 and 100 when it was closed or opened.       *)
PositionReached ==
  [][\A c \in Callers :
       Delivered(c) /\ Head(call[c].todo).type = "STATE" =>
         LET u   == call[c].target.unit
             pos == PositionControl(Type[u])
             p   == Head(call[c].todo).percent
             q   == native_to_percent(
                      Decode(Type[u], NoState, fixture'[u].bits).state[pos.field], pos.lo, pos.hi)
         IN  q \in (p - 1)..p /\ (p \in {0, 100} => q = p)]_vars

(* The events of a packet are those the switches sent, in their order and  *)
(* with their units, buttons and kinds, whatever other messages and stray  *)
(* bytes the packet holds. Only the kind of a short message is not         *)
(* promised where three bytes or more follow it in the packet: a byte of   *)
(* the next message is taken for its state.                                *)
Kinds == DOMAIN StateByte \cup {"UNKNOWN"}

EventsAs(ms, kinds) ==
  FlattenSeq([i \in DOMAIN ms |->
    IF ms[i].kind \in {"other", "noise"} THEN <<>>
    ELSE <<[unit |-> ms[i].unit, button |-> ms[i].button, event |-> kinds[i]]>>])

Behind(ms, i) == Len(FlattenSeq([j \in 1..(Len(ms) - i) |-> Message(ms[i + j])]))

EventsExact ==
  [][air # <<>> /\ Head(air).type = "switch" /\ air' = Tail(air) =>
       LET ms == Head(air).said IN
       \E kinds \in [DOMAIN ms -> Kinds] :
         /\ events' = EventsAs(ms, kinds)
         /\ \A i \in DOMAIN ms :
              ms[i].kind \in {"button", "full", "beyond"} \/ (ms[i].kind = "short" /\ Behind(ms, i) < 3)
                => kinds[i] = ms[i].event]_vars
=============================================================================

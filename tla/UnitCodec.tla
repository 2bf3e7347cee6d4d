------------------------------ MODULE UnitCodec ------------------------------
(***************************************************************************)
(* The state codec of a unit (src/src/CasambiBt/_unit.py): the fields of   *)
(* UnitState, how getStateAsBytes packs them into the state of a fixture   *)
(* and how setStateFromBytes reads them back.                              *)
(*                                                                         *)
(* The bytes of a state are the set of the positions of the bits that are  *)
(* 1, counted the way the code does: little-endian bytes, bit 0 first.     *)
(* Floating-point numbers are exact fractions here; an xy colour is the    *)
(* pair of its codes, which the division by the mask and the rounding of   *)
(* the product give back.                                                  *)
(***************************************************************************)
EXTENDS Integers, Sequences, FiniteSets, FiniteSetsExt, SequencesExt

CONSTANT None     \* Python's None

ASSUME NoneAssumption == None \notin Int /\ None \notin BOOLEAN

Levels  == {"DIMMER", "VERTICAL", "WHITE"}
Scales  == {"TEMPERATURE", "SENSOR", "SLIDER", "LUX"}
Colors  == {"RGB", "TEMPERATURE", "XY", "WHITE", "COLORSOURCE"}
Sensing == {"SENSOR", "PRESENCE", "LUX", "SENSORGROUP", "SENSORGROUPVALUE"}

Field == [DIMMER |-> "dimmer", VERTICAL |-> "vertical", WHITE |-> "white",
          TEMPERATURE |-> "temperature", SENSOR |-> "sensor",
          COLORSOURCE |-> "colorsource", RGB |-> "rgb", XY |-> "xy", SLIDER |-> "slider",
          ONOFF |-> "onoff", PRESENCE |-> "presence", LUX |-> "lux",
          SENSORGROUP |-> "sensorgroup"]

(* UnitState(): nothing is known. "sensors" maps the names of the tagged   *)
(* sensors, which may be empty or alike, to the last reading under each.   *)
NoState == [f \in Range(Field) \cup {"sensors"} |->
               IF f = "sensors" THEN <<>> ELSE None]

(* What the setters of UnitState accept; the others take any value.        *)
InRange(f, v) == CASE f \in {"dimmer", "vertical", "white", "slider"} -> v \in 0..255
                   [] f = "colorsource" -> v \in 0..2
                   [] OTHER -> TRUE

ControlTypes(ty) == {c.type : c \in Range(ty.controls)}

(* UnitType.get_control: the first control of the type, or None.           *)
Control(ty, t) ==
  LET those == {i \in DOMAIN ty.controls : ty.controls[i].type = t}
  IN  IF those = {} THEN None ELSE ty.controls[Min(those)]

(* UnitType.device_role: the first heuristic that fits.                    *)
Role(ty) ==
  LET has == ControlTypes(ty) IN
  IF has \cap Sensing # {} /\ has \cap (Colors \cup {"DIMMER", "SLIDER"}) = {}
    THEN "SENSOR"
  ELSE IF {"SLIDER", "ONOFF"} \subseteq has THEN "SHADE"
  ELSE IF {"DIMMER", "ONOFF"} \subseteq has /\ has \cap Colors = {}
    THEN "SCREEN"
  ELSE IF has \cap (Colors \cup {"DIMMER"}) # {} THEN "LIGHT"
  ELSE "UNKNOWN"

(***************************************************************************)
(* Numbers.                                                                *)
(***************************************************************************)
(* Python's round(a / b): a half goes to the even neighbour.               *)
RoundDiv(a, b) ==
  LET q == a \div b
      r == a % b
  IN  IF 2 * r > b \/ (2 * r = b /\ q % 2 = 1) THEN q + 1 ELSE q

Mask(c) == 2 ^ c.length - 1

Ranged(c) == c.min # None /\ c.max # None

Clamp(v, lo, hi) == Min({hi, Max({lo, v})})

(* A value onto the codes 0..mask (Python's //), and a code back onto the  *)
(* range (int(), which truncates towards 0).                               *)
Scaled(v, lo, hi, mask) == (mask * (v - lo)) \div (hi - lo)

Unscaled_Power(n, lo, hi, mask) ==    \* mutant: 2^length codes instead of the mask
  (n * (hi - lo)) \div (mask + 1) + lo

Unscaled(n, lo, hi, mask) ==
  LET x == n * (hi - lo) + lo * mask
  IN  IF x >= 0 THEN x \div mask ELSE -((-x) \div mask)

(* UnitState.hs: rgb_to_hsv without the value, and grey with half a turn   *)
(* of hue; as the codes of a hue and a saturation of so many bits.         *)
HsCode(rgb, hueLen, satLen) ==
  LET hi  == Max(Range(rgb))
      d   == hi - Min(Range(rgb))
      hue == CASE d = 0                    -> <<1, 2>>
               [] d # 0 /\ rgb[1] = hi     -> <<(rgb[2] - rgb[3]) % (6 * d), 6 * d>>
               [] rgb[1] # hi /\ rgb[2] = hi -> <<2 * d + rgb[3] - rgb[1], 6 * d>>
               [] OTHER                    -> <<4 * d + rgb[1] - rgb[2], 6 * d>>
      sat == IF hi = 0 THEN 0 ELSE RoundDiv(d * (2 ^ satLen - 1), hi)
  IN  RoundDiv(hue[1] * (2 ^ hueLen - 1), hue[2]) * 2 ^ satLen + sat

(* Its setter: hsv_to_rgb of h / hueMask and s / satMask at full value.    *)
RgbOf(h, s, hueMask, satMask) ==
  LET one   == hueMask * satMask
      part  == (6 * h) % hueMask
      p     == hueMask * (satMask - s)
      q     == one - s * part
      t     == one - s * (hueMask - part)
      sixth == <<<<one, t, p>>, <<q, one, p>>, <<p, one, t>>,
                 <<p, q, one>>, <<t, p, one>>, <<one, p, q>>>>[(((6 * h) \div hueMask) % 6) + 1]
  IN  [i \in 1..3 |-> RoundDiv(255 * sixth[i], one)]

HueLen(c) == (c.length * 10) \div 18

SatLen(c) == c.length - HueLen(c)

BitsOf(v) == {i \in 0..30 : (v \div 2 ^ i) % 2 = 1}

IntOf(bits) ==
  LET upto[n \in -1..30] ==
        IF n = -1 THEN 0 ELSE upto[n - 1] + (IF n \in bits THEN 2 ^ n ELSE 0)
  IN  IF bits = {} THEN 0 ELSE upto[Max(bits)]

(***************************************************************************)
(* getStateAsBytes: a control whose field is None, and a type that is not  *)
(* written at all, takes the control's default.                            *)
(***************************************************************************)
Writes(c, st) ==
  /\ c.type \in Levels \cup {"TEMPERATURE", "SENSOR", "SLIDER", "COLORSOURCE", "RGB", "XY", "ONOFF"}
  /\ st[Field[c.type]] # None
  /\ c.type \in {"TEMPERATURE", "SENSOR", "SLIDER"} => Ranged(c)
  /\ c.type \in {"TEMPERATURE", "SENSOR"} => c.max # c.min
  /\ c.type = "SENSOR" => c.length > 0

(* A shift by a negative number, or a slider without a range: it raises.   *)
Unwritable(c, st) ==
  /\ Writes(c, st)
  /\ \/ c.type \in Levels /\ c.length > 8
     \/ c.type = "SLIDER" /\ c.max = c.min

Code(c, st) ==
  LET v == st[Field[c.type]] IN
  IF ~Writes(c, st) THEN c.default
  ELSE CASE c.type \in Levels -> v \div 2 ^ (8 - c.length)
         [] c.type \in Scales -> Scaled(Clamp(v, c.min, c.max), c.min, c.max, Mask(c))
         [] c.type = "RGB"    -> HsCode(v, HueLen(c), SatLen(c))
         [] c.type = "XY"     -> v[1] * 2 ^ (c.length \div 2) + v[2]
         [] c.type = "ONOFF"  -> IF v THEN 1 ELSE 0
         [] OTHER             -> v

Place(c) == c.offset..(c.offset + c.length - 1)

Placed(c, n) == {c.offset + i : i \in BitsOf(n)}

Encode(ty, st) == UNION {Placed(c, Code(c, st)) : c \in Range(ty.controls)}

(***************************************************************************)
(* setStateFromBytes.                                                      *)
(***************************************************************************)
Extract(c, bits) == IntOf({i - c.offset : i \in bits \cap Place(c)})

(* _index_sensor_groups: the readings by their offset, and the tag whose   *)
(* reading is fresh in this state; the last group that names one wins.     *)
GroupRaw(ty, bits) ==
  LET groups == {c \in Range(ty.controls) : c.type = "SENSORGROUPVALUE"}
  IN  [o \in {c.offset : c \in groups} |->
          Extract(CHOOSE c \in groups : c.offset = o, bits)]

ActiveTag_ZeroBased(ty, bits) ==    \* mutant: the index is taken for the tag
  LET named == {i \in DOMAIN ty.controls : /\ ty.controls[i].type = "SENSORGROUP"
                                           /\ Extract(ty.controls[i], bits) >= 1}
  IN  IF named = {} THEN None ELSE Extract(ty.controls[Max(named)], bits)

ActiveTag(ty, bits) ==
  LET named == {i \in DOMAIN ty.controls : /\ ty.controls[i].type = "SENSORGROUP"
                                           /\ Extract(ty.controls[i], bits) >= 1}
  IN  IF named = {} THEN None ELSE Extract(ty.controls[Max(named)], bits) - 1

(* _decode_tagged_sensor: only the fresh reading is taken over, under the  *)
(* name of the sensor.                                                     *)
Tagged(ty, c, bits, old) ==
  IF /\ c.tag # None /\ ActiveTag(ty, bits) # None
     /\ c.tag = ActiveTag(ty, bits)
     /\ c.offset \in DOMAIN GroupRaw(ty, bits)
  THEN [n \in DOMAIN old \cup {c.name} |->
           IF n = c.name THEN GroupRaw(ty, bits)[c.offset] ELSE old[n]]
  ELSE old

LuxMin(c) == IF c.min = None THEN 0 ELSE c.min

(* A range that is unknown or empty leaves the field as it was.            *)
Reads(c) ==
  /\ c.type \in DOMAIN Field
  /\ c.type \in {"TEMPERATURE", "SENSOR", "SLIDER"} => Ranged(c) /\ c.max # c.min
  /\ c.type = "LUX" => c.max # None /\ c.max # LuxMin(c)

Reading(c, n) ==
  CASE c.type \in Levels -> n * 2 ^ (8 - c.length)
    [] c.type = "LUX"    -> Unscaled(n, LuxMin(c), c.max, Mask(c))
    [] c.type \in Scales \ {"LUX"} -> Unscaled(n, c.min, c.max, Mask(c))
    [] c.type = "RGB"    -> RgbOf(n \div 2 ^ SatLen(c), n % 2 ^ SatLen(c),
                                  2 ^ HueLen(c) - 1, 2 ^ SatLen(c) - 1)
    [] c.type = "XY"     -> <<(n \div 2 ^ (c.length \div 2)) % 2 ^ (c.length \div 2),
                              n % 2 ^ (c.length \div 2)>>
    [] c.type = "ONOFF"  -> n # 0
    [] OTHER             -> n

ReadControl(ty, bits, st, c) ==
  CASE c.type = "SENSOR" /\ c.length = 0 ->
         [st EXCEPT !.sensors = Tagged(ty, c, bits, @)]
    [] Reads(c) /\ ~(c.type = "SENSOR" /\ c.length = 0) ->
         [st EXCEPT ![Field[c.type]] = Reading(c, Extract(c, bits))]
    [] OTHER -> st

(* A shift by a negative number and a division by an empty mask raise.     *)
Unreadable(c) ==
  CASE c.type \in Levels        -> c.length > 8
    [] c.type \in Scales        -> c.length = 0
    [] c.type \in {"RGB", "XY"} -> c.length < 2
    [] OTHER                    -> FALSE

(* The controls in their order; the first value a setter refuses, or that  *)
(* cannot be computed, ends the update with an exception and leaves the    *)
(* fields before it changed.                                               *)
Refused_Never(c, bits) == FALSE    \* mutant: the setters take every value

Refused(c, bits) ==
  /\ Reads(c) /\ ~(c.type = "SENSOR" /\ c.length = 0)
  /\ Unreadable(c) \/ ~InRange(Field[c.type], Reading(c, Extract(c, bits)))

Decode(ty, st, bits) ==
  LET bad   == {i \in DOMAIN ty.controls : Refused(ty.controls[i], bits)}
      upto  == IF bad = {} THEN Len(ty.controls) ELSE Min(bad) - 1
      after[i \in 0..upto] ==
        IF i = 0 THEN st
        ELSE LET before == after[i - 1] IN ReadControl(ty, bits, before, ty.controls[i])
  IN  [ok |-> bad = {}, state |-> after[upto]]
=============================================================================

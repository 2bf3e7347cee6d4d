------------------------------- MODULE Entities -------------------------------
(***************************************************************************)
(* What the Home Assistant integration shows of a unit and how it turns    *)
(* percentages into the values of a fixture: _logic.py and the entities of *)
(* src/custom_components/casambi_bt.                                       *)
(***************************************************************************)
EXTENDS UnitCodec

(* resolve_position_control                                                *)
PositionControl(ty) ==
  LET slider == Control(ty, "SLIDER") IN
  CASE Role(ty) = "SHADE" /\ Ranged(slider) ->
         [field |-> "slider", lo |-> slider.min, hi |-> slider.max]
    [] Role(ty) = "SCREEN" -> [field |-> "dimmer", lo |-> 0, hi |-> 255]
    [] OTHER -> None

native_to_percent(raw, lo, hi) ==
  IF lo = hi THEN 0 ELSE Clamp(RoundDiv((raw - lo) * 100, hi - lo), 0, 100)

percent_to_native(percent, lo, hi) ==
  Clamp(RoundDiv(percent * (hi - lo) + 100 * lo, 100), lo, hi)

ModeOf == [TEMPERATURE |-> "color_temp", RGB |-> "rgb", XY |-> "xy"]

supported_light_color_modes(ty) ==
  LET colors == {ModeOf[t] : t \in DOMAIN ModeOf \cap ControlTypes(ty)}
  IN  CASE colors # {} -> colors
        [] colors = {} /\ "DIMMER" \in ControlTypes(ty) -> {"brightness"}
        [] OTHER -> {"onoff"}

(* With several modes only the colour source tells which one is driven.    *)
active_light_color_mode(modes, source) ==
  IF Cardinality(modes) = 1 THEN CHOOSE m \in modes : TRUE
  ELSE IF source = None THEN None
  ELSE <<"color_temp", "rgb", "xy">>[source + 1]

(* Unit.is_on                                                              *)
is_on(ty, unit) ==
  CASE unit.state # None /\ Control(ty, "ONOFF") # None -> unit.on /\ unit.state.onoff = TRUE
    [] unit.state # None /\ Control(ty, "ONOFF") = None /\ Control(ty, "DIMMER") # None ->
         unit.on /\ unit.state.dimmer # None /\ unit.state.dimmer > 0
    [] OTHER -> unit.on

(***************************************************************************)
(* The entities of a unit. Which ones there are follows from its type; a   *)
(* field of a unit without a state yet is None.                            *)
(***************************************************************************)
Get(unit, f) == IF unit.state = None THEN None ELSE unit.state[f]

CoverView(ty, unit) ==
  LET pos == PositionControl(ty)
      raw == IF pos = None THEN None ELSE Get(unit, pos.field)
      pct == IF raw = None THEN None ELSE native_to_percent(raw, pos.lo, pos.hi)
  IN  [position |-> pct, closed |-> IF pct = None THEN None ELSE pct = 0]

LightView(ty, unit) ==
  LET mode == active_light_color_mode(supported_light_color_modes(ty), Get(unit, "colorsource"))
  IN  [on          |-> is_on(ty, unit),
       brightness  |-> Get(unit, "dimmer"),
       mode        |-> mode,
       rgb         |-> IF mode = "rgb" THEN Get(unit, "rgb") ELSE None,
       xy          |-> IF mode = "xy" THEN Get(unit, "xy") ELSE None,
       temperature |-> IF mode = "color_temp" THEN Get(unit, "temperature") ELSE None]

(* One entity per tagged sensor, which looks its reading up by its name,   *)
(* for the illuminance, the presence and for a sensor of its own.          *)
TaggedSensors(ty) == {c \in Range(ty.controls) : c.type = "SENSOR" /\ c.tag # None}

SensorView(ty, unit) ==
  [lux      |-> IF Control(ty, "LUX") = None THEN None ELSE Get(unit, "lux"),
   presence |-> IF Control(ty, "PRESENCE") = None \/ Get(unit, "presence") = None
                THEN None ELSE unit.state.presence # 0,
   plain    |-> Get(unit, "sensor"),
   tagged   |-> [c \in TaggedSensors(ty) |->
                    IF unit.state # None /\ c.name \in DOMAIN unit.state.sensors
                    THEN unit.state.sensors[c.name] ELSE None]]

View(ty, unit) ==
  [available |-> unit.online,
   cover     |-> IF PositionControl(ty) = None THEN None ELSE CoverView(ty, unit),
   light     |-> IF Role(ty) = "LIGHT" THEN LightView(ty, unit) ELSE None,
   sensors   |-> SensorView(ty, unit)]
=============================================================================

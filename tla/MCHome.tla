------------------------------- MODULE MCHome -------------------------------
(* The fixtures of doc/fixtures-specs that have a position (louvers.json   *)
(* with two of its four tagged sensors, screen.json, here without names    *)
(* for its sensors) and a lamp with all kinds of colour.                   *)
EXTENDS Home

CONSTANTS Blind, Screen, Lamp, HA, Lib, Name1, Name2, NoName

Part(t, off, len, def, ro) ==
  [type |-> t, offset |-> off, length |-> len, default |-> def, readonly |-> ro,
   min |-> None, max |-> None, tag |-> None, name |-> NoName]

Between(lo, hi, c) == [c EXCEPT !.min = lo, !.max = hi]

Sensors(names) ==
  <<Part("SENSORGROUP", 0, 4, 0, TRUE)>>
  \o [i \in 1..2 |-> [Part("SENSOR", 4, 0, 0, TRUE) EXCEPT !.tag = i - 1, !.name = names[i]]]
  \o <<Part("SENSORGROUPVALUE", 4, 24, 0, TRUE)>>

MCUnits == {Blind, Screen, Lamp}
MCType ==
  Blind :> [stateLength |-> 5, controls |-> Sensors(<<Name1, Name2>>) \o
     <<Between(0, 142, Part("SLIDER", 28, 8, 255, FALSE)), Part("ONOFF", 36, 1, 0, FALSE)>>]
  @@ Screen :> [stateLength |-> 5, controls |-> Sensors(<<NoName, NoName>>) \o
     <<Part("DIMMER", 28, 8, 255, FALSE), Part("ONOFF", 36, 1, 0, FALSE)>>]
  @@ Lamp :> [stateLength |-> 8, controls |->
     <<Part("DIMMER", 0, 8, 255, FALSE), Between(2700, 6500, Part("TEMPERATURE", 8, 8, 0, FALSE)),
       Part("XY", 16, 16, 0, FALSE), Part("COLORSOURCE", 32, 2, 0, FALSE), Part("VERTICAL", 34, 6, 32, FALSE),
       Part("RGB", 40, 18, 0, FALSE)>>]
MCId       == Blind :> 1 @@ Screen :> 31 @@ Lamp :> 7
MCOrder    == <<Blind, Lamp, Screen>>
MCFlags    == Blind :> 64 + 4 @@ Screen :> 8 + 16 @@ Lamp :> 128
MCCallers  == {HA, Lib}
MCEntity   == {HA}
MCPercents == {0, 50, 100}
Set(t, v) == [type |-> t, value |-> v]
MCLights   == {<<>>, <<Set("DIMMER", 128), Set("TEMPERATURE", 3000)>>}
Group == [kind |-> "group", id |-> 1, units |-> {Blind, Lamp}]
Scene == [kind |-> "scene", id |-> 3, units |-> {Screen, Lamp}]
MCAsks == {<<Unit(Blind), Set("ONOFF", 1)>>,
           <<[kind |-> "all"], Set("ONOFF", 0)>>, <<Group, Set("SLIDER", 200)>>,
           <<Unit(Lamp), Set("XY", <<300, 77>>)>>, <<Unit(Lamp), Set("RGB", <<255, 128, 7>>)>>, <<Unit(Blind), Set("SENSOR", 0)>>,
           <<Unit(Lamp), Set("VERTICAL", 77)>>, <<Scene, Set("SCENE", 90)>>}
MCTouches  == {<<Blind, "SLIDER", 100>>, <<Screen, "DIMMER", 60>>, <<Lamp, "COLORSOURCE", 3>>}
MCReadings == Blind :> (0 :> {300} @@ 1 :> {7, 5000}) @@ Screen :> (0 :> {12} @@ 1 :> {13})
              @@ Lamp :> <<>>

Btn(k, u, b, e) == [kind |-> k, unit |-> u, button |-> b, event |-> e]
Other == [kind |-> "other"]
Noise == [kind |-> "noise"]
Press08 == Btn("button", 31, 1, "PRESS")
Release08 == Btn("button", 31, 4, "RELEASE")
Short10 == Btn("short", 9, 1, "RELEASE")
Beyond10 == Btn("beyond", 9, 3, "RELEASE_AFTER_HOLD")
Hold10 == Btn("full", 7, 2, "HOLD")
MCPresses == {<<Press08, Noise, Hold10, Release08>>, <<Short10, Other, Beyond10, Short10>>}
=============================================================================

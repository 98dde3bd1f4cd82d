---- MODULE MCSceneEditor ----
(* A small home: a lamp with a brightness, a relay that moves between two  *)
(* rooms, a read-only sensor, a shutter that may be unknown.               *)
EXTENDS SceneEditor

Lamp == [id |-> "lamp", source |-> "hue", kind |-> "light", room |-> "kitchen", keys |-> {"brightness"}]
Relay(room) == [id |-> "relay", source |-> "shelly", kind |-> "switch", room |-> room, keys |-> {}]
Sensor == [id |-> "sensor", source |-> "netatmo", kind |-> "sensor", room |-> "kitchen", keys |-> {}]
Shutter == [id |-> "shutter", source |-> "tahoma", kind |-> "shutter", room |-> "bath", keys |-> {}]
SomeHomes == {<<Lamp, Relay("kitchen"), Sensor>>, <<Lamp, Relay("bath"), Sensor, Shutter>>}

Do(command, parameters, devices, rooms, kinds) ==
  [type |-> "action", minutes |-> 0, command |-> command, parameters |-> parameters,
   targets |-> [devices |-> devices, rooms |-> rooms, kinds |-> kinds]]
OneAction == <<Do("on", <<>>, <<>>, <<"kitchen">>, {})>>
At(devices, rooms, kinds) == [devices |-> devices, rooms |-> rooms, kinds |-> kinds]
SomeTargets == {At(<<"relay", "shutter">>, <<"kitchen">>, {}), At(<<"lamp", "shutter">>, <<"bath", "kitchen">>, {"light"})}

\* The names; a space at the end is dropped.
SomeNames == {"", "evening", "renamed", "renamed "}
WithoutSpaces == [name \in SomeNames |-> IF name = "renamed " THEN "renamed" ELSE name]

\* Dusks, one with impossible bounds; a fixed hour that keeps those it had as a dusk.
Dusk(low, high) == [at |-> "sunset", days |-> <<1, 5>>, time |-> Empty, offset |-> Empty,
                    notBefore |-> low, notAfter |-> high]
SomeSchedules ==
  {<<Dusk(Empty, 1320)>>, <<Dusk(1320, 1200)>>,
   <<[Dusk(1320, 1200) EXCEPT !.at = "time", !.time = 450]>>}
====

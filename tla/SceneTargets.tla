---------------------------- MODULE SceneTargets ----------------------------
(***************************************************************************)
(* Which devices an action of a scene touches (scenes/resolve.go), and     *)
(* which scenes the API accepts (scenes/validate.go).  Pure functions, the *)
(* same for the preview of the editor and for the execution.               *)
(*                                                                         *)
(* The keys of a device are those of its JSON state; a clock time is a     *)
(* number of minutes, Empty or Malformed.                                  *)
(***************************************************************************)
EXTENDS Integers, SequencesExt

Device == [id : STRING, source : STRING, kind : STRING, room : STRING, keys : SUBSET STRING]
Target == [devices : Seq(STRING), rooms : Seq(STRING), kinds : SUBSET STRING]
Parameter == [is : {"number", "color", "null"}, value : Int]
Command == {"on", "off", "open", "close", "stop", "setBrightness", "setColor", "setColorTemperature"}
Step == [type : {"action", "wait"}, minutes : Int, command : Command \cup {""},
         parameters : Seq(Parameter), targets : Target]
Schedule == [at : {"time", "sunrise", "sunset"}, days : Seq(1 .. 7), time : Int, offset : Int,
             notBefore : Int, notAfter : Int]

NoTargets == [devices |-> <<>>, rooms |-> <<>>, kinds |-> {}]
Empty == -1000
Malformed == -1001

(***************************************************************************)
(* Resolution.                                                             *)
(***************************************************************************)
Controllable(source) == source \in {"tahoma", "hue", "shelly"}

Openings == {"shutter", "awning", "window", "gate"}
KindsFor == [on |-> {"light", "switch"}, off |-> {"light", "switch"},
             open |-> Openings, close |-> Openings, stop |-> Openings \ {"gate"}]

StateKeyForColours == [setColor |-> "color", setColorTemperature |-> "color_temperature"]
StateKeyFor == [setBrightness |-> "brightness", setColor |-> "color", setColorTemperature |-> "color_temperature"]

\* Why a device cannot receive the action; "" when it can.
Incompatibility(step, d) ==
  CASE ~Controllable(d.source) -> "read only"
    [] Controllable(d.source) /\ step.command \in DOMAIN KindsFor ->
         IF d.kind \in KindsFor[step.command] THEN "" ELSE "kind"
    [] Controllable(d.source) /\ step.command \in DOMAIN StateKeyFor ->
         IF d.kind = "light" /\ StateKeyFor[step.command] \in d.keys THEN "" ELSE "setting"
    [] OTHER -> "unknown action"

Ids(devices) == {devices[i].id : i \in DOMAIN devices}
ById(id, devices) == devices[CHOOSE i \in DOMAIN devices : devices[i].id = id]

\* Why the device named id is set aside, or "".
Reason(step, id, devices) ==
  IF id \in Ids(devices) THEN Incompatibility(step, ById(id, devices)) ELSE "missing"

\* The devices of a room, those out of the filter left out without a word.
InRoomUnfiltered(step, room, d) == d.room = room
InRoom(step, room, d) == d.room = room /\ (step.targets.kinds # {} => d.kind \in step.targets.kinds)
OfRoom(step, room, devices) ==
  LET ids[n \in 0 .. Len(devices)] ==
        IF n = 0 THEN <<>>
        ELSE IF InRoom(step, room, devices[n]) THEN Append(ids[n - 1], devices[n].id) ELSE ids[n - 1]
  IN ids[Len(devices)]

\* The ids to consider, in order: those named, then room by room.
Designated(step, devices) ==
  LET rooms == step.targets.rooms
      ids[n \in 0 .. Len(rooms)] ==
        IF n = 0 THEN step.targets.devices ELSE ids[n - 1] \o OfRoom(step, rooms[n], devices)
  IN ids[Len(rooms)]

\* Each is considered once, as a target or with the reason it is set aside.
NothingFound == [seen |-> {}, targets |-> <<>>, ignored |-> <<>>]
Consider(step, devices, found, id) ==
  LET reason == Reason(step, id, devices) IN
    CASE id \in found.seen -> found
      [] id \notin found.seen /\ reason = "" ->
           [found EXCEPT !.seen = @ \cup {id}, !.targets = Append(@, id)]
      [] OTHER -> [found EXCEPT !.seen = @ \cup {id}, !.ignored = Append(@, <<id, reason>>)]
ConsiderAll(step, devices, ids) ==
  LET found[n \in 0 .. Len(ids)] ==
        IF n = 0 THEN NothingFound ELSE Consider(step, devices, found[n - 1], ids[n])
  IN found[Len(ids)]
Resolve(step, devices) ==
  LET found == ConsiderAll(step, devices, Designated(step, devices)) IN
  IF step.type = "action" THEN [targets |-> found.targets, ignored |-> found.ignored]
  ELSE [targets |-> <<>>, ignored |-> <<>>]

ResolveAll(steps, devices) == [i \in DOMAIN steps |-> Resolve(steps[i], devices)]

\* The scene drives a relay at present: launching it by hand asks for a confirmation.
TouchesRelaysAtFirst(steps, devices) ==
  steps # <<>> /\ \E id \in ToSet(Resolve(steps[1], devices).targets) : ById(id, devices).kind = "switch"
TouchesRelays(steps, devices) ==
  \E i \in DOMAIN steps : \E id \in ToSet(Resolve(steps[i], devices).targets) : ById(id, devices).kind = "switch"

(***************************************************************************)
(* Validation.                                                             *)
(***************************************************************************)
OneParameter(p, kind, low, high) ==
  Len(p) = 1 /\ p[1].is = kind /\ p[1].value \in low .. high

ValidParameters(command, p) ==
  CASE command \in {"on", "off", "open", "close", "stop"} -> p = <<>>
    [] command = "setBrightness" -> OneParameter(p, "number", 0, 100)
    [] command = "setColorTemperature" -> OneParameter(p, "number", 2000, 6500)
    [] command = "setColor" -> Len(p) = 1 /\ p[1].is = "color"
    [] OTHER -> FALSE

ValidAction(step) ==
  /\ Len(step.targets.devices) + Len(step.targets.rooms) > 0
  /\ ValidParameters(step.command, step.parameters)

ValidStep(step) ==
  \/ step.type = "wait" /\ step.minutes \in 1 .. 720
  \/ step.type = "action" /\ ValidAction(step)

ValidSchedule(s, hasCoordinates) ==
  /\ s.days # <<>> /\ ToSet(s.days) \subseteq 1 .. 7 /\ IsInjective(s.days)
  /\ \/ s.at = "time" /\ s.time >= 0
     \/ /\ s.at \in {"sunrise", "sunset"} /\ hasCoordinates
        /\ s.offset \in -180 .. 180
        /\ {s.notBefore, s.notAfter} \cap {Malformed} = {}
        /\ (s.notBefore >= 0 /\ s.notAfter >= 0) => s.notBefore <= s.notAfter

Validate(spec, hasCoordinates) ==
  /\ spec.name # ""
  /\ \A i \in DOMAIN spec.steps : ValidStep(spec.steps[i])
  /\ \E i \in DOMAIN spec.steps : spec.steps[i].type = "action"
  /\ \A i \in DOMAIN spec.schedules : ValidSchedule(spec.schedules[i], hasCoordinates)

(***************************************************************************)
(* What resolution is for, stated without its loops.                       *)
(***************************************************************************)

\* A device is meant when it is named, or is in a room and passes the filter.
Meant(step, d) ==
  \/ d.id \in ToSet(step.targets.devices)
  \/ /\ d.room \in ToSet(step.targets.rooms)
     /\ step.targets.kinds = {} \/ d.kind \in step.targets.kinds

\* A relay is among the devices some action is meant for, and can obey it.
DrivesRelay(steps, devices) ==
  \E i \in DOMAIN steps, d \in ToSet(devices) :
    /\ steps[i].type = "action" /\ Meant(steps[i], d)
    /\ Incompatibility(steps[i], d) = "" /\ d.kind = "switch"

\* The targets are the devices meant that can obey, each once; those that cannot, and
\* the names nothing bears any more, are told, each once.
Exact(step, devices, resolved) ==
  LET meant == {d \in ToSet(devices) : step.type = "action" /\ Meant(step, d)}
      gone == IF step.type = "action" THEN ToSet(step.targets.devices) \ Ids(devices) ELSE {}
      able == {d \in meant : Incompatibility(step, d) = ""}
      told == [i \in DOMAIN resolved.ignored |-> resolved.ignored[i][1]]
  IN /\ ToSet(resolved.targets) = {d.id : d \in able}
     /\ ToSet(told) = {d.id : d \in meant \ able} \cup gone
     /\ IsInjective(resolved.targets) /\ IsInjective(told)
=============================================================================

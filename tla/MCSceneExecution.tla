---- MODULE MCSceneExecution ----
(* An instance of SceneExecution: the lamp is driven twice, with a wait in *)
(* between; the shutter's box is slow; the heater's is not configured.     *)
EXTENDS SceneExecution
CONSTANTS lamp, shutter, heater

Action(targets) == [type |-> "action", targets |-> targets]
Pause == [type |-> "wait"]

Evening == <<Action(<<lamp, shutter>>), Pause, Action(<<heater, lamp>>)>>
====

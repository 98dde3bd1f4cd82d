---- MODULE MCSceneEngine ----
(* Small instances of SceneEngine: launches a, b, c are API calls, z is the *)
(* scheduler's.                                                             *)
EXTENDS SceneEngine
CONSTANTS a, b, c, d, z, lamp

OneScene == {lamp}
AllOnLamp == [r \in Launches |-> lamp]
====

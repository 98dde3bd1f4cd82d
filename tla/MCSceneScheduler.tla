---- MODULE MCSceneScheduler ----
(* Small instances of SceneScheduler: two scenes, a few instants. *)
EXTENDS SceneScheduler, TLC
CONSTANTS dawn, dusk

SomePlans == {{}, {4}, {2, 4}}
TwoPlans == {{}, {2, 4}}

(* Nothing tells the scenes apart. *)
SceneSymmetry == Permutations(Scenes)
====

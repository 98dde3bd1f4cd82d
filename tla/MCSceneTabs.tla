---- MODULE MCSceneTabs ----
(* Small instances of SceneTabs: a scene of the kitchen that comes last by *)
(* name, one of the bath that comes first.                                 *)
EXTENDS SceneTabs

TwoSpecs == {[name |-> 1, room |-> "bath"], [name |-> 4, room |-> "kitchen"]}
====

-------------------------- MODULE MCCommandEngine --------------------------
(* Small instances of CommandEngine.  c1 is used for two aggregates; on "b"  *)
(* it plans like a forced project.delete, its last event on "b".             *)
EXTENDS CommandEngine

CONSTANTS c1, c2

MCIds == {c1, c2}
MCAggregates == {"a", "b"}
MCCommands == {[id |-> c1, agg |-> "a"], [id |-> c1, agg |-> "b"], [id |-> c2, agg |-> "a"]}
MCPlans ==
  [c \in MCCommands |-> IF c.agg = "b" THEN {<<"a", "b">>} ELSE {<<"a">>}]
MCOrder == <<"projects", "mcpCatalog", "threads">>
MCRequired == {"projects", "threads"}
MCInitially == {"projects", "threads"}
\* A version whose threads projector is new.
MCOldInitially == {"projects", "mcpCatalog"}
============================================================================

---------------------------- MODULE MCBridgeSync ----------------------------
(* Two machines share one task, in one of four worlds. *)
EXTENDS BridgeSync

InStep == [m \in Machine |-> 0]
OneAhead == [m \in Machine |-> IF m = 1 THEN 2 ELSE 0]

Anything == Status \cup {"priority"}

World(e, f, u, l) == [edits |-> e, faults |-> f, uses |-> u, lead |-> l]

Archiving == {"todo", "archived", "priority"}

MCWorlds ==
  {World(2, 1, Archiving, InStep),              \* a crash or a failed push
   World(2, 0, Anything, InStep),               \* any status, no fault
   World(3, 0, {"todo", "archived"}, InStep),   \* one edit more
   World(2, 0, Archiving, OneAhead)}            \* a clock ahead by two edits
=============================================================================

----------------------------- MODULE Lifecycle -----------------------------
(* The state machines of containers and runs in control/state.go: the      *)
(* states that may follow each state.                                      *)

containerTransitions ==
  [requested    |-> {"provisioning", "deleting"},
   provisioning |-> {"starting", "deleting"},
   starting     |-> {"ready", "stopped", "deleting"},
   ready        |-> {"busy", "idle", "hibernating", "deleting"},
   busy         |-> {"ready", "idle", "hibernating", "deleting"},
   idle         |-> {"ready", "busy", "hibernating", "deleting"},
   hibernating  |-> {"stopped", "ready", "deleting"},
   stopped      |-> {"starting", "deleting"},
   deleting     |-> {"deleted"},
   deleted      |-> {}]

runTransitions ==
  [queued      |-> {"dispatching", "cancelled", "failed"},
   dispatching |-> {"streaming", "completed", "cancelled", "failed"},
   streaming   |-> {"completed", "cancelled", "failed"},
   completed   |-> {},
   cancelled   |-> {},
   failed      |-> {}]

\* validateTransition accepts a state that stays and a listed successor.
validateTransition(table, current, next) ==
  current = next \/ next \in table[current]

=============================================================================

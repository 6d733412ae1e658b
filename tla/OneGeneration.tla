---------------------------- MODULE OneGeneration ----------------------------
(***************************************************************************)
(* What the lifecycle manager promises about one session name: processes   *)
(* of one generation at a time, always of the one the name routes to, and  *)
(* a generation that is over never comes back.                             *)
(***************************************************************************)
CONSTANTS Generation, None   \* None is no generation

VARIABLES
  named,   \* the generation the name routes to
  alive,   \* those that have processes, or may still get them
  over     \* those that had, and have none

Init == named = None /\ alive = {} /\ over = {}

\* The name goes to another generation only when none has processes.
Name(g) == alive = {} /\ named' = g /\ UNCHANGED <<alive, over>>

Begin(g) == alive = {} /\ named = g /\ g \notin over /\ alive' = {g} /\ UNCHANGED <<named, over>>

End(g) == g \in alive /\ alive' = alive \ {g} /\ over' = over \cup {g} /\ UNCHANGED named

Next == \E g \in Generation : Name(g) \/ Begin(g) \/ End(g)

Spec == Init /\ [][Next]_<<named, alive, over>>
=============================================================================

----------------------------- MODULE PairedRuns -----------------------------
(***************************************************************************)
(* What a paired evaluation promises: on every task each model runs at     *)
(* most once, and the models take turns - the second one starts only when  *)
(* the first has run and was evaluated.  Pipeline implements it.           *)
(***************************************************************************)
CONSTANTS
  Tasks,   \* the frozen held-out tasks
  Models,  \* the two models of a pair
  First    \* First[t]: the model that runs first on task t

VARIABLE run  \* run[t][m]: "waiting", "running" (or under evaluation) or "over"

Init == run = [t \in Tasks |-> [m \in Models |-> "waiting"]]

Start(t, m) ==
  /\ run[t][m] = "waiting"
  /\ m # First[t] => run[t][First[t]] = "over"
  /\ run' = [run EXCEPT ![t][m] = "running"]

End(t, m) ==
  /\ run[t][m] = "running"
  /\ run' = [run EXCEPT ![t][m] = "over"]

Next == \E t \in Tasks, m \in Models : Start(t, m) \/ End(t, m)

Spec == Init /\ [][Next]_run
=============================================================================

---------------------------- MODULE JobLifecycle ----------------------------
(***************************************************************************)
(* What the run service promises a client of the API about one job, seen   *)
(* through its status alone: the contract the queue, the workers and their *)
(* children implement together.                                            *)
(***************************************************************************)
CONSTANT Jobs

VARIABLE status

Init == status = [j \in Jobs |-> "absent"]

Move(j, from, to) ==
  /\ status[j] \in from
  /\ \E s \in to : status' = [status EXCEPT ![j] = s]

Submit(j)  == Move(j, {"absent"}, {"queued"})
Start(j)   == Move(j, {"queued"}, {"running"})
Decide(j)  == Move(j, {"running", "cancelling"}, {"completed", "failed", "blocked"})
Stop(j)    == Move(j, {"running", "cancelling"}, {"cancelled", "interrupted"})
Request(j) == Move(j, {"running"}, {"cancelling"})
Drop(j)    == Move(j, {"queued"}, {"cancelled"})
Retry(j)   == Move(j, {"cancelled", "interrupted"}, {"queued"})

\* One reaping pass interrupts every stale job at once.
Reap ==
  \E S \in SUBSET {j \in Jobs : status[j] \in {"running", "cancelling"}} :
    status' = [j \in Jobs |-> IF j \in S THEN "interrupted" ELSE status[j]]

Next ==
  \/ \E j \in Jobs : \/ Submit(j) \/ Start(j) \/ Decide(j) \/ Stop(j)
                     \/ Request(j) \/ Drop(j) \/ Retry(j)
  \/ Reap

Spec == Init /\ [][Next]_status
=============================================================================

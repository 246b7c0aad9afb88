--------------------------- MODULE RolloutSafety ---------------------------
(* What makes a group of candidates on one budget correct. *)
EXTENDS Rollout

TypeOK ==
  /\ phase \in Phases
  /\ ledger.tokens <= TokenLimit /\ ledger.seconds <= SecondsLimit /\ ledger.calls <= CallLimit
  /\ Len(cands) <= K /\ Len(verdicts) <= Len(cands) /\ selection \in 0 .. Len(cands)
  /\ request.attempt \in 0 .. MaxLimited - 1
  /\ paid \in Nat /\ {clock, mark, unpaid} \subseteq Nat /\ turns \in 0 .. MaxTurns

(***************************************************************************)
(* A request whose outcome is not known may have been paid: after one, the *)
(* client, the run and the group make no request any more.                 *)
(***************************************************************************)
UnknownOutcomesStopTheGroup == unknown => phase \in {"select", "evaluate", "done", "raised"}

(***************************************************************************)
(* What a group spends is on its ledger, once.  As long as nothing was     *)
(* blocked or died, the ledger holds every token the provider charged,     *)
(* those of an empty answer too, and the total of the summary is the       *)
(* ledger's.  Of the time, the ledger holds the requests, the tools, the   *)
(* evaluations and all that passes between two steps of a run, its refused *)
(* answers too, up to the last charge; what it does not hold is the making *)
(* of a workspace, the preparing of a request and the end of a run.        *)
(***************************************************************************)
Clean == /\ phase # "raised" /\ ~unknown
         /\ \A i \in DOMAIN cands : cands[i].status # "blocked"
         /\ \A i \in DOMAIN verdicts : verdicts[i] # "blocked"

Pending == IF phase \in {"post", "answered"} THEN request.usage ELSE 0

\* What passed since the last charge of the candidate that runs.
Outstanding == IF phase \in {"turn", "post", "answered", "acts"} THEN Elapsed ELSE 0

LedgerIsExact ==
  /\ paid = ledger.tokens + Pending
  /\ clock = ledger.seconds + unpaid + Outstanding

SpendingIsCharged ==
  Clean => LedgerIsExact /\ (phase = "done" => metrics.tokens = paid)

(***************************************************************************)
(* The selected candidate has the best visible evidence, whatever the      *)
(* penalties for files and time: no other one passed its visible test when *)
(* it did not, and none has all the evidence it has and more; the first    *)
(* candidate stands for its diff.                                          *)
(***************************************************************************)
EvidenceOf(c) ==
  {e \in {"visible", "completed", "patch"} :
     \/ e = "visible" /\ c.visible
     \/ e = "completed" /\ c.status = "completed"
     \/ e = "patch" /\ c.diff # NoPatch}

Outdoes(c, d) ==
  \/ c.visible /\ ~d.visible
  \/ EvidenceOf(d) \subseteq EvidenceOf(c) /\ EvidenceOf(d) # EvidenceOf(c)

SelectionHasEvidence ==
  selection # 0 => \A i \in Unique : ~Outdoes(cands[i], cands[selection])

(***************************************************************************)
(* "Budgets remain cumulative across retries and candidates" (README): the *)
(* candidates of a group cost no more tokens than the task's budget.       *)
(***************************************************************************)
BudgetIsShared == paid <= TokenLimit
=============================================================================

----------------------------- MODULE MCRollout -----------------------------
(* Small groups for TLC. *)
EXTENDS RolloutSafety

CONSTANTS d1, d2

\* What runs may leave: files that are not tracked are changed, but in no diff.
SmallEvidence ==
  { e \in [diff : {NoPatch, d1, d2}, visible : BOOLEAN, files : {0, 1, 40}, status : {"completed", "failed"}] :
      /\ e.visible => e.diff # NoPatch
      /\ e.diff # NoPatch => e.files # 0
      /\ e.diff = NoPatch => e.files # 1
      /\ e.diff = d2 => e.files = 1 /\ e.status = "completed" }

OnePatch == {[diff |-> d1, visible |-> TRUE, files |-> 1, status |-> "completed"]}
=============================================================================

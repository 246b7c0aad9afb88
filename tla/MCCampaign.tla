----------------------------- MODULE MCCampaign -----------------------------
(* Small campaigns for TLC: the numbers of starts and of threads. *)
EXTENDS CampaignSafety, TLC

By(fast, thinking, protocol) ==
  [c \in Cohorts |-> CASE c = "fast" -> fast [] c = "thinking" -> thinking [] c = "protocol" -> protocol]

Once          == By(1, 1, 1)
PredecessorsTwice == By(2, 2, 1)
ThinkingTwice == By(1, 2, 1)
TwoFast       == By(2, 1, 1)

TaskSymmetry == Permutations(Tasks)
=============================================================================

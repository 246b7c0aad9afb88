--------------------------- MODULE CampaignSafety ---------------------------
(***************************************************************************)
(* What a collection campaign must not do: pay twice, work twice on one    *)
(* task, or train on what it does not know.                                *)
(***************************************************************************)
EXTENDS Campaign

Threads == {"idle", "check", "launch", "wait", "export", "done"}

\* Types, and that a pool never holds more threads than it has slots for.
TypeOK ==
  /\ log \subseteq Runs /\ live \subseteq log /\ identity \subseteq {"protocol"}
  /\ summary \in [Runs -> {"none", "unknown", "failed", "completed"}]
  /\ outcome \in [Runs -> {"none", "accepted", "rejected", "uncertain"}]
  /\ export \in [Cohorts -> [Tasks -> {"none", "torn", "good"}]]
  /\ exporting \in [Cohorts -> [Tasks -> {"no", "open", "write"}]]
  /\ report \in [Cohorts -> {"none", "uncertain", "completed", "insufficient"}]
  /\ pipeline # NoPipeline => pipeline.by \in Cohorts /\ pipeline.tasks \subseteq Tasks
  /\ \A c \in Cohorts :
       /\ coord[c].at \in {"down", "wait", "look", "fill", "drain", "train"}
       /\ coord[c].passed \cup coord[c].ready \cup coord[c].tried \subseteq Tasks
       /\ \A t \in Tasks : thread[c][t].at \in Threads
       /\ Cardinality(Running(c)) <= Workers[c]
  /\ starts \in [Cohorts -> Nat] /\ paid \in [Runs -> Nat] /\ target \in Targets

\* A rollout is open from its launch until its outcome is known for good: an
\* uncertain one stays open.
Open(r) == r \in log /\ outcome[r] \notin {"accepted", "rejected"}

\* A paid rollout is never started a second time, however often collectors are
\* killed and started again (the log is the receipt of the launch).
PaidOnce == \A r \in Runs : paid[r] <= 1

\* No task has two open rollouts: no two collectors work on it at a time, and
\* none retries what another, or an earlier self, left with an unknown result
\* (exhausted_tasks and retry_candidates admit rejected outcomes alone).
OneOpenRolloutPerTask ==
  \A t \in Tasks : Cardinality({r \in Runs : TaskOf(r) = t /\ Open(r)}) <= 1

\* The fast campaign accepts no more tasks than it was asked for, unless it was
\* killed with work in hand (fill counts what runs and what passed).
NoTaskBeyondTarget ==
  (starts["fast"] <= 1 /\ Cardinality(Seeds) <= target) =>
     Cardinality(Seeds \cup {t \in Tasks : \E r \in Runs :
        r[1] = "fast" /\ TaskOf(r) = t /\ outcome[r] = "accepted"}) <= target

\* A cohort with an outcome it does not know starts no training, unless a
\* restart has made it forget the future it was waiting for.
NoTrainingOnUnknownOutcomes ==
  pipeline # NoPipeline =>
     \/ starts[pipeline.by] > 1
     \/ \A r \in Runs : r[1] = pipeline.by => outcome[r] # "uncertain"

\* The training set is large enough, and each of its tasks was a seed or has an
\* agent that completed (qualified_paths, snapshot_exports).
TrainsOnCompletedTasks ==
  pipeline # NoPipeline =>
     /\ Cardinality(pipeline.tasks) >= target
     /\ \A t \in pipeline.tasks \ Seeds :
          \E r \in Runs : TaskOf(r) = t /\ summary[r] = "completed" /\ r \notin live

\* A collector that runs comes to an end; the thinking cohort does once the
\* fast campaign has reported (its loop sleeps until then).
CollectorsEnd ==
  \A c \in Cohorts :
     (coord[c].at # "down" /\ (c = "thinking" => report["fast"] # "none")) ~> coord[c].at = "down"

-----------------------------------------------------------------------------
(* What the documents say and the code does not do. *)

\* "Await the preceding batch without overlapping more than four Pro workers":
\* no agent of the protocol cohort beside one of the thinking cohort.
ProBatchesDoNotOverlap ==
  ~ \E r, s \in live : r[1] = "thinking" /\ s[1] = "protocol"
=============================================================================

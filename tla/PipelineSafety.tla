--------------------------- MODULE PipelineSafety ---------------------------
(* What makes the formal experiment correct. *)
EXTENDS Pipeline

TypeOK ==
  /\ experiment \subseteq exports /\ exports \subseteq Exports
  /\ data \subseteq exports /\ audited \subseteq exports /\ trained \subseteq exports
  /\ receipt \subseteq log /\ child \subseteq log \ receipt /\ log \subseteq Labels
  /\ made \in [Labels -> BOOLEAN]
  /\ prefetch \in {"none", "started", "completed"}
  /\ \A d \in Drivers : waits[d] \subseteq {t \in Threads : todo[d][t] # <<>>}

(***************************************************************************)
(* The experiment is a paired evaluation: whatever pipelines, prefetch and *)
(* controls are started and killed, each model runs at most once on a      *)
(* task, and the second of a pair only after the first has run and, if it  *)
(* left a summary, was evaluated.                                          *)
(***************************************************************************)
Over(t, m) ==
  /\ <<t, m>> \in receipt
  /\ made[<<t, m>>] => <<t, Evaluation[m]>> \in receipt

State(t, m) ==
  CASE <<t, m>> \in again  -> "running twice"
    [] <<t, m>> \notin log -> "waiting"
    [] Over(t, m)          -> "over"
    [] OTHER               -> "running"

Runs == [t \in Tasks |-> [m \in Models |-> State(t, m)]]

Pairs == INSTANCE PairedRuns WITH
  Models <- Models,
  First <- [t \in Tasks |-> Order(t)[1]],
  run <- Runs

ImplementsPairedRuns == Pairs!Spec

(***************************************************************************)
(* A report counts what the disk holds: every run and evaluation of an     *)
(* admitted task has its receipt and the counted outcomes are the final ones.  *)
(***************************************************************************)
ReportIsWhole ==
  report.written =>
    /\ made[<<Main, "training">>]
    /\ \A t \in split :
         /\ <<t, "quality">> \in receipt
         /\ <<t, "quality">> \in report.good <=> made[<<t, "quality">>]
         /\ made[<<t, "quality">>] =>
              \A m \in Models : /\ Over(t, m)
                                /\ <<t, Evaluation[m]>> \in report.good <=> made[<<t, Evaluation[m]>>]

(***************************************************************************)
(* The checkpoint is trained on what the audit has kept of the exports     *)
(* that experiment.json names, and on enough of them, although different   *)
(* pipelines combined, audited and trained.  All that it names were        *)
(* audited, unless a pipeline was killed while it wrote the combined file, *)
(* which is not replaced.                                                  *)
(***************************************************************************)
TrainsOnFrozenExports ==
  trained # {} =>
    /\ trained = audited /\ audited \subseteq experiment
    /\ Cardinality(trained) >= Minimum
    /\ data = experiment \/ torn

(***************************************************************************)
(* A pipeline ends whatever the helpers do: it fails on what they left     *)
(* uncertain, and does not wait for the prefetch for ever.                 *)
(***************************************************************************)
PipelinesEnd == \A d \in Pipelines : [](Alive(d) => <>~Alive(d))
=============================================================================

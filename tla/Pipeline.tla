------------------------------ MODULE Pipeline ------------------------------
(***************************************************************************)
(* The formal experiment (scripts/run_clean_training.py) and the two       *)
(* helpers that work ahead of it on the same directory: the heldout        *)
(* controls (preflight_controls.py) and the Base-first prefetch            *)
(* (prewarm_baselines.py).  Each of them executes labelled child processes *)
(* whose log is opened exclusively before, and whose receipt is written    *)
(* after the child; nothing else tells them what was done already.         *)
(*                                                                         *)
(* A pipeline freezes and combines the exports, audits and trains, joins   *)
(* the prefetch, and runs the pairs of all tasks in parallel threads.      *)
(* Drivers may be killed anywhere; their children live on, in sessions of  *)
(* their own, and another pipeline may be started on what is left.         *)
(*                                                                         *)
(* Every task of the instance has a worker of the pool (two by default).   *)
(***************************************************************************)
EXTENDS Naturals, Sequences, FiniteSets

CONSTANTS
  Tasks,      \* the held-out tasks by their place in the frozen order, 1 .. n
  Exports,    \* what the collectors may have exported by the time of a start
  Frozen,     \* the exports there are at first
  Minimum,    \* --minimum-tasks
  Pipelines,  \* the processes of run_clean_training, started one after the other
  Prewarm,    \* the process of prewarm_baselines
  Preflight,  \* the process of preflight_controls
  Casts       \* bound: the tasks, the drivers and the kills of a behaviour

ASSUME PipelineAssumption ==
  /\ Tasks \subseteq Nat \ {0}
  /\ Frozen \subseteq Exports /\ IsFiniteSet(Exports) /\ Minimum \in Nat
  /\ Prewarm \notin Pipelines /\ Preflight \notin Pipelines /\ Prewarm # Preflight
  /\ \A c \in Casts : c.tasks \subseteq Tasks /\ c.kills \in Nat

VARIABLES
  split,       \* the tasks of split.json
  exports,     \* the exports directory
  pipelineLog, \* pipeline.log exists: a collector has started the pipeline
  experiment,  \* experiment.json: the exports of the experiment, {} when absent
  combined,    \* the combined file exists, see CombineOpens
  data,        \* the exports in it
  torn,        \* ghost: a pipeline was killed while it wrote that file
  audited,     \* the exports with a row in the audited dataset
  trained,     \* the exports the checkpoint was trained on
  log,         \* the labels with a log
  receipt,     \* the labels with a receipt
  child,       \* the labels whose process is running
  again,       \* ghost: the labels that were launched twice
  made,        \* made[l]: the process left what it is for, see Good
  prefetch,    \* "none", "started" (base-prefetch.json) or "completed"
  stage,       \* stage[d]: how far driver d has come
  mine,        \* mine[d]: the exports pipeline d has listed
  todo,        \* todo[d][t]: the stages that thread still has to execute
  waits,       \* waits[d]: the threads of d that wait for their child
  failed,      \* the drivers one of whose threads has raised
  seen,        \* seen[d]: the labels d has found good
  report,      \* report.json: the labels it counts as good
  kills        \* bound: the drivers that may still be killed

files   == <<exports, pipelineLog, experiment, combined, data, torn>>
outcome == <<audited, trained, made>>
marks   == <<log, receipt, child, again>>
threads == <<todo, waits, failed, seen>>
bounds  == <<split, kills>>
vars    == <<files, outcome, marks, prefetch, stage, mine, threads, report, bounds>>

Drivers == Pipelines \union {Prewarm, Preflight}
Models  == {"base", "sft"}

\* The thread that prepares the data is the main thread, not one of a task.
Main == 0
Threads == Tasks \union {Main}

\* The evaluation of a run is a label of its own.
Evaluation == [base |-> "base-evaluate", sft |-> "sft-evaluate"]
IsRun(s) == s \in Models

Labels == ({Main} \X {"audit", "training"})
  \union (Tasks \X {"quality", "base", "sft", "base-evaluate", "sft-evaluate"})

\* paired_order: the order alternates from task to task.
Order(t) == IF t % 2 = 1 THEN <<"base", "sft">> ELSE <<"sft", "base">>

Run(m) == <<m, Evaluation[m]>>
Pair(m, n) == <<"quality", m, Evaluation[m], n, Evaluation[n]>>

\* What a thread of a driver executes, if nothing is missing on the way.
Program(d, t) ==
  CASE d = Prewarm   -> Run("base")
    [] d = Preflight -> <<"quality">>
    [] OTHER         -> Pair(Order(t)[1], Order(t)[2])

Alive(d) == stage[d] \notin {"off", "over", "failed", "killed"}

Init ==
  /\ exports = Frozen /\ experiment = {} /\ combined = FALSE
  /\ pipelineLog = FALSE /\ data = {} /\ torn = FALSE
  /\ audited = {} /\ trained = {} /\ made = [l \in Labels |-> FALSE]
  /\ log = {} /\ receipt = {} /\ child = {} /\ again = {}
  /\ prefetch = "none"
  /\ \E c \in Casts : /\ split = c.tasks /\ kills = c.kills
                      /\ stage = [d \in Drivers |-> IF d \in c.drivers THEN "off" ELSE "over"]
  /\ mine = [d \in Drivers |-> {}]
  /\ todo = [d \in Drivers |-> [t \in Threads |-> <<>>]]
  /\ waits = [d \in Drivers |-> {}]
  /\ failed = {}
  /\ seen = [d \in Drivers |-> {}]
  /\ report = [written |-> FALSE, good |-> {}]
-----------------------------------------------------------------------------
(* Threads: execute the stages of a program one after the other. *)

Label(d, t) == <<t, Head(todo[d][t])>>

Busy(d, t) ==
  /\ stage[d] = IF t = Main THEN "data" ELSE "pairs"
  /\ todo[d][t] # <<>>

Raise(d, t) ==
  /\ failed' = failed \union {d}
  /\ todo' = [todo EXCEPT ![d][t] = <<>>]
  /\ UNCHANGED seen

\* The stages left after the first one, which has left what it is for or not:
\* a run without a summary is not evaluated, a task that is not admitted not run.
Rest(d, t) ==
  LET s == Head(todo[d][t])
      left == Tail(todo[d][t])
  IN  IF made[<<t, s>>] THEN left
      ELSE IF IsRun(s) THEN Tail(left)
      ELSE IF s = "quality" THEN <<>>
      ELSE left

\* Of the exports the audit has kept there must be enough; the training must succeed.
Refused(t, s) ==
  t = Main /\ (~made[<<t, s>>] \/ (s = "audit" /\ Cardinality(audited) < Minimum))

\* What a thread does with the outcome of a label that is over.
Advance(d, t) ==
  IF Refused(t, Head(todo[d][t])) THEN Raise(d, t)
  ELSE /\ todo' = [todo EXCEPT ![d][t] = Rest(d, t)]
       /\ seen' = [seen EXCEPT ![d] = @ \union {l \in {Label(d, t)} : made[l]}]
       /\ UNCHANGED failed

\* A label is over when its receipt says so, whoever wrote it.
Known_ByLog(d, l) == d # Prewarm /\ l \in log
Known(d, l) == d # Prewarm /\ l \in receipt

\* A log without a receipt is an uncertain process, a receipt of somebody else
\* a duplicate for the prefetch.
Fresh(l) == l \notin log /\ l \notin receipt

Execute(d, t) ==
  /\ Busy(d, t) /\ t \notin waits[d]
  /\ LET l == Label(d, t) IN
     \/ /\ Known(d, l) /\ Advance(d, t)
        /\ UNCHANGED <<marks, waits>>
     \/ /\ ~Known(d, l) /\ ~Fresh(l) /\ Raise(d, t)
        /\ UNCHANGED <<marks, waits>>
     \/ /\ ~Known(d, l) /\ Fresh(l)
        /\ log' = log \union {l}
        /\ again' = again \union ({l} \intersect log)
        /\ child' = child \union {l}
        /\ waits' = [waits EXCEPT ![d] = @ \union {t}]
        /\ UNCHANGED <<receipt, todo, failed, seen>>
  /\ UNCHANGED <<files, outcome, prefetch, stage, mine, report, bounds>>

\* The child has ended (or was killed at its timeout, which ends it too).
Reap(d, t) ==
  /\ Busy(d, t) /\ t \in waits[d] /\ Label(d, t) \notin child
  /\ receipt' = receipt \union {Label(d, t)}
  /\ waits' = [waits EXCEPT ![d] = @ \ {t}]
  /\ Advance(d, t)
  /\ UNCHANGED <<files, outcome, log, child, again, prefetch, stage, mine, report, bounds>>

\* The audit drops rows that are too long, that repeat another one or have
\* nothing to learn, and with them some of the exports, but not all.
Kept(set) == SUBSET set \ {{}}

\* A child ends, with what it is for (an admitted task, a summary, a passed
\* verdict, an audited dataset, a checkpoint) or without.
ChildEnds(l) ==
  /\ l \in child
  /\ child' = child \ {l}
  /\ \/ UNCHANGED outcome
     \/ /\ made' = [made EXCEPT ![l] = TRUE]
        /\ IF l[2] = "audit" THEN audited' \in Kept(data) ELSE UNCHANGED audited
        /\ trained' = IF l[2] = "training" THEN audited ELSE trained
  /\ UNCHANGED <<files, log, receipt, again, prefetch, stage, mine, threads, report, bounds>>
-----------------------------------------------------------------------------
(* The pipeline. *)

Goto(d, s) == stage' = [stage EXCEPT ![d] = s]

\* A collector starts the pipeline once, behind pipeline.log; later, or instead,
\* it is started by hand, when no other one is running.  Exports may have been
\* added since the last start; one that is added later is not seen.
PipelineStarts(d) ==
  /\ stage[d] = "off" /\ \A e \in Pipelines : ~Alive(e)
  /\ \E more \in SUBSET (Exports \ exports) : exports' = exports \union more
  /\ Cardinality(exports') >= Minimum
  /\ pipelineLog' \in {pipelineLog, TRUE}
  /\ mine' = [mine EXCEPT ![d] = exports']
  /\ Goto(d, "identity")
  /\ UNCHANGED <<experiment, combined, data, torn, outcome, marks, prefetch, threads, report, bounds>>

SameExperiment_Any(d) == TRUE
SameExperiment(d) == experiment \in {{}, mine[d]}

Identify(d) ==
  /\ stage[d] = "identity"
  /\ IF SameExperiment(d)
     THEN experiment' = mine[d] /\ Goto(d, "combine")
     ELSE UNCHANGED experiment /\ Goto(d, "failed")
  /\ UNCHANGED <<exports, pipelineLog, combined, data, torn, outcome, marks, prefetch, mine, threads, report, bounds>>

\* combine refuses exports that are not one passed run of a task each, or too
\* few; then it writes in place: the file exists, empty, until the write is done.
\* The legacy mode makes a second file of it (actions-raw.jsonl) the same way: it
\* is written by the same step, and what is in it refused by this one.
CombineOpens(d) ==
  /\ stage[d] = "combine"
  /\ \/ combined /\ Goto(d, "data") /\ todo' = [todo EXCEPT ![d][Main] = <<"audit", "training">>]
     \/ ~combined /\ Goto(d, "writing") /\ UNCHANGED todo
     \/ Goto(d, "failed") /\ UNCHANGED todo
  /\ combined' = (combined \/ stage'[d] = "writing")
  /\ UNCHANGED <<exports, pipelineLog, experiment, data, torn, outcome, marks, prefetch, mine, waits, failed, seen, report, bounds>>

CombineWrites(d) ==
  /\ stage[d] = "writing"
  /\ data' = mine[d]
  /\ Goto(d, "data") /\ todo' = [todo EXCEPT ![d][Main] = <<"audit", "training">>]
  /\ UNCHANGED <<exports, pipelineLog, experiment, combined, torn, outcome, marks, prefetch, mine, waits, failed, seen, report, bounds>>

DataFails(d) ==
  /\ stage[d] = "data" /\ d \in failed
  /\ Goto(d, "failed")
  /\ UNCHANGED <<files, outcome, marks, prefetch, mine, threads, report, bounds>>

\* A shared lock on base-prefetch.lock, which the prefetch holds while it lives.
Drained == ~Alive(Prewarm)

\* The wait has a deadline of 1200 seconds.
Patience_Endless == FALSE
Patience == ~Drained

\* wait_for_baseline_prefetch.
Join(d) ==
  /\ stage[d] = "data" /\ todo[d][Main] = <<>> /\ d \notin failed
  /\ \/ /\ prefetch = "none" \/ (Drained /\ prefetch = "completed")
        /\ Goto(d, "pairs")
        /\ todo' = [todo EXCEPT ![d] = [t \in Threads |-> IF t \in split THEN Program(d, t) ELSE <<>>]]
     \/ /\ prefetch = "started" /\ (Drained \/ Patience)
        /\ Goto(d, "failed") /\ UNCHANGED todo
  /\ UNCHANGED <<files, outcome, marks, prefetch, mine, waits, failed, seen, report, bounds>>

\* A thread that raised fails its driver, after the other threads have ended.
ThreadsOver(d) == stage[d] = "pairs" /\ \A t \in Tasks : todo[d][t] = <<>>

Report(d) ==
  /\ ThreadsOver(d)
  /\ IF d \in failed
     THEN Goto(d, "failed") /\ UNCHANGED report
     ELSE Goto(d, "over") /\ report' = [written |-> TRUE, good |-> seen[d]]
  /\ UNCHANGED <<files, outcome, marks, prefetch, mine, threads, bounds>>
-----------------------------------------------------------------------------
(* The helpers. *)

\* eligible_tasks: Base runs first, and the controls have admitted the task.
Eligible_Admitted(t) == made[<<t, "quality">>]
Eligible(t) == Order(t)[1] = "base" /\ made[<<t, "quality">>]

PrewarmStarts ==
  /\ stage[Prewarm] = "off" /\ ~pipelineLog /\ prefetch = "none"
  /\ todo' = [todo EXCEPT ![Prewarm] =
                [t \in Threads |-> IF t \in split /\ Eligible(t) THEN Program(Prewarm, t) ELSE <<>>]]
  /\ Goto(Prewarm, "hashing")
  /\ UNCHANGED <<files, outcome, marks, prefetch, mine, waits, failed, seen, report, bounds>>

\* The identity is written after the model files were hashed.
PrewarmIdentifies ==
  /\ stage[Prewarm] = "hashing"
  /\ prefetch' = "started"
  /\ Goto(Prewarm, "pairs")
  /\ UNCHANGED <<files, outcome, marks, mine, threads, report, bounds>>

PrewarmEnds ==
  /\ ThreadsOver(Prewarm)
  /\ IF Prewarm \in failed
     THEN Goto(Prewarm, "failed") /\ UNCHANGED prefetch
     ELSE Goto(Prewarm, "over") /\ prefetch' = "completed"
  /\ UNCHANGED <<files, outcome, marks, mine, threads, report, bounds>>

PreflightStarts ==
  /\ stage[Preflight] = "off" /\ <<Main, "training">> \notin log
  /\ todo' = [todo EXCEPT ![Preflight] = [t \in Threads |-> IF t \in split THEN Program(Preflight, t) ELSE <<>>]]
  /\ Goto(Preflight, "pairs")
  /\ UNCHANGED <<files, outcome, marks, prefetch, mine, waits, failed, seen, report, bounds>>

PreflightEnds ==
  /\ ThreadsOver(Preflight)
  /\ Goto(Preflight, IF Preflight \in failed THEN "failed" ELSE "over")
  /\ UNCHANGED <<files, outcome, marks, prefetch, mine, threads, report, bounds>>
-----------------------------------------------------------------------------
\* A driver dies; a file it is writing keeps any part of what it had to hold.
Kill(d) ==
  /\ Alive(d) /\ kills > 0
  /\ kills' = kills - 1
  /\ Goto(d, "killed")
  /\ waits' = [waits EXCEPT ![d] = {}]
  /\ todo' = [todo EXCEPT ![d] = [t \in Threads |-> <<>>]]
  /\ IF stage[d] = "writing"
     THEN data' \in SUBSET mine[d] /\ torn' = TRUE
     ELSE UNCHANGED <<data, torn>>
  /\ UNCHANGED <<exports, pipelineLog, experiment, combined, outcome, marks, prefetch, mine, failed, seen, report, split>>

Thread(d, t) == Execute(d, t) \/ Reap(d, t)

PipelineStep(d) ==
  \/ Identify(d) \/ CombineOpens(d) \/ CombineWrites(d)
  \/ DataFails(d) \/ Join(d) \/ Report(d)

Next ==
  \/ \E d \in Pipelines : PipelineStarts(d) \/ PipelineStep(d)
  \/ PrewarmStarts \/ PrewarmIdentifies \/ PrewarmEnds
  \/ PreflightStarts \/ PreflightEnds
  \/ \E d \in Drivers : Kill(d)
  \/ \E d \in Drivers, t \in Threads : Thread(d, t)
  \/ \E l \in child : ChildEnds(l)

Spec == Init /\ [][Next]_vars

\* The host runs a pipeline that is not killed; a child it waits for ends, at
\* the latest when it is killed at its timeout.  Nothing is assumed of the
\* helpers, nor of a child nobody waits for.
AwaitedChild(d, t) == Busy(d, t) /\ t \in waits[d] /\ ChildEnds(Label(d, t))

Fairness ==
  \A d \in Pipelines : /\ WF_vars(PipelineStep(d))
                       /\ \A t \in Threads : WF_vars(Thread(d, t) \/ AwaitedChild(d, t))

FairSpec == Spec /\ Fairness
=============================================================================

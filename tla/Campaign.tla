------------------------------ MODULE Campaign ------------------------------
(***************************************************************************)
(* The collection of training trajectories: three collectors that pay for  *)
(* rollouts of the same training tasks, one after the other's outcomes     *)
(* (scripts/accelerate_campaign.py, scripts/fast_finish.py and             *)
(* scripts/repair_protocol_next.py), and the training pipeline one of them *)
(* starts.                                                                 *)
(*                                                                         *)
(* The collectors share nothing but files.  A collector is a coordinator   *)
(* and a pool of threads, one per task in hand; every thread waits for     *)
(* child processes with sessions of their own, which outlive a killed      *)
(* collector.  The exclusive lock of a collector's directory admits one    *)
(* coordinator at a time, so a cohort names both.  The tasks are the       *)
(* admitted ones; an export that would fail seed_ok is no export.          *)
(***************************************************************************)
EXTENDS Integers, FiniteSets, FiniteSetsExt

CONSTANTS
  Tasks,          \* the admitted training tasks
  Seeds,          \* the tasks whose earlier trajectories were copied at the start
  NoPipeline,     \* no training was started
  Attempts,       \* --attempts of the fast campaign
  Targets,        \* the numbers of distinct tasks a campaign may be asked for
  Workers,        \* threads of each cohort
  MaxStarts       \* bound: how often the collector of a cohort is started

Cohorts == {"fast", "thinking", "protocol"}

ASSUME CampaignAssumption ==
  /\ IsFiniteSet(Tasks) /\ Seeds \subseteq Tasks
  /\ Attempts \in Nat \ {0} /\ Targets \subseteq Nat \ {0}
  /\ Workers \in [Cohorts -> Nat \ {0}] /\ MaxStarts \in [Cohorts -> Nat]

\* A rollout is named by its cohort, its task and its attempt; the other
\* cohorts have one attempt.  Both attempts count for fast_finish.
Runs == ({"fast"} \X Tasks \X (0 .. Attempts - 1))
          \cup ({"thinking", "protocol"} \X Tasks \X {0})
TaskOf(r) == r[2]
ExhaustingAttempts == 0 .. 1

VARIABLES
  log,        \* the rollouts whose log file exists
  live,       \* the rollouts whose agent process is alive
  summary,    \* summary.json of a rollout: absent, or the agent's last status
  outcome,    \* the outcome recorded for a rollout
  export,     \* exports/<task>.jsonl of a cohort
  exporting,  \* the process that writes it
  report,     \* the final report of a cohort
  identity,   \* the cohorts that may not be started again
  pipeline,   \* who started the training, and on which tasks
  coord,      \* the coordinators
  thread,     \* the threads of their pools
  starts,     \* coordinators started, per cohort
  target,     \* --target of this campaign
  paid        \* history: agent processes started for a rollout

files   == <<log, summary, outcome, export, report, identity, pipeline>>
childs  == <<live, exporting>>
vars    == <<files, childs, coord, thread, starts, paid, target>>

Idle == [at |-> "idle", attempt |-> 0, result |-> "none"]
Down == [at |-> "down", passed |-> {}, ready |-> {}, tried |-> {}, halted |-> FALSE]

Init ==
  /\ log = {} /\ live = {} /\ identity = {}
  /\ summary = [r \in Runs |-> "none"] /\ outcome = [r \in Runs |-> "none"]
  /\ export = [c \in Cohorts |-> [t \in Tasks |->
                 IF c = "fast" /\ t \in Seeds THEN "good" ELSE "none"]]
  /\ exporting = [c \in Cohorts |-> [t \in Tasks |-> "no"]]
  /\ report = [c \in Cohorts |-> "none"]
  /\ pipeline = NoPipeline
  /\ coord = [c \in Cohorts |-> Down]
  /\ thread = [c \in Cohorts |-> [t \in Tasks |-> Idle]]
  /\ starts = [c \in Cohorts |-> 0] /\ paid = [r \in Runs |-> 0]
  /\ target \in Targets

-----------------------------------------------------------------------------
(* What a coordinator reads. *)

Good(c) == {t \in Tasks : export[c][t] = "good"}

\* qualified_paths over the sources of a cohort.
Sources(c) ==
  CASE c = "fast"     -> {"fast"}
    [] c = "thinking" -> {"fast", "thinking"}
    [] c = "protocol" -> Cohorts
Qualified(c) == UNION {Good(s) : s \in Sources(c)}

Exhausted_Some(t) == \E a \in ExhaustingAttempts : <<"fast", t, a>> \in Runs
                                                    /\ outcome[<<"fast", t, a>>] = "rejected"
Exhausted(t) == \A a \in ExhaustingAttempts : <<"fast", t, a>> \in Runs
                                                /\ outcome[<<"fast", t, a>>] = "rejected"

\* retry_candidates.
Retryable(t) == outcome[<<"thinking", t, 0>>] = "rejected"

Running(c) == {t \in Tasks : thread[c][t].at # "idle"}

Slots_AllWorkers(c) == Cardinality(Running(c)) < Workers[c]
                         /\ Cardinality(coord[c].passed) < target
Slots(c) == Cardinality(Running(c)) < Min({Workers[c], target - Cardinality(coord[c].passed)})

CanSubmit(c) == coord[c].at = "fill" /\ ~coord[c].halted /\ coord[c].ready # {} /\ Slots(c)

-----------------------------------------------------------------------------
(* The coordinators. *)

\* A collector is started, again or for the first time.  The fast campaign
\* reads every export and fails on a torn one.
Start(c) ==
  /\ coord[c].at = "down" /\ starts[c] < MaxStarts[c]
  /\ c = "fast" => \A t \in Tasks : export[c][t] # "torn"
  /\ starts' = [starts EXCEPT ![c] = @ + 1]
  /\ coord' = [coord EXCEPT ![c] =
       CASE c = "fast"     -> [Down EXCEPT !.at = "fill", !.passed = Good(c), !.ready = Tasks \ Good(c)]
         [] c = "thinking" -> [Down EXCEPT !.at = "look"]
         [] c = "protocol" -> [Down EXCEPT !.at = "wait"]]
  /\ UNCHANGED <<files, childs, thread, paid, target>>

ThinkingReported == report["thinking"] # "none"

\* The protocol cohort waits for the report of the thinking cohort, half an
\* hour at most, and its identity is written once.
Admit ==
  /\ coord["protocol"].at = "wait" /\ ThinkingReported
  /\ IF report["thinking"] = "uncertain" \/ "protocol" \in identity
     THEN /\ coord' = [coord EXCEPT !["protocol"] = Down]
          /\ UNCHANGED identity
     ELSE /\ identity' = identity \cup {"protocol"}
          /\ coord' = [coord EXCEPT !["protocol"].at = "look",
                         !["protocol"].ready = {t \in Tasks \ Qualified("protocol") : Retryable(t)}]
  /\ UNCHANGED <<log, summary, outcome, export, report, pipeline, childs, thread, starts, paid, target>>

WaitedTooLong ==
  /\ coord["protocol"].at = "wait" /\ ~ThinkingReported
  /\ coord' = [coord EXCEPT !["protocol"] = Down]
  /\ UNCHANGED <<files, childs, thread, starts, paid, target>>

\* One round of the scheduling loop begins: the exports are read again, and
\* fast_finish looks for tasks the fast campaign has exhausted since.
Look(c) ==
  /\ coord[c].at = "look"
  /\ coord' = [coord EXCEPT ![c].passed = Qualified(c),
       ![c].at = IF c = "thinking" /\ (Cardinality(Qualified(c)) >= target \/ coord[c].halted)
                 THEN "drain" ELSE "fill",
       ![c].ready = IF c = "thinking"
                    THEN {t \in Tasks \ (Qualified(c) \cup coord[c].tried) : Exhausted(t)}
                    ELSE @]
  /\ UNCHANGED <<files, childs, thread, starts, paid, target>>

Submit(c, t) ==
  /\ CanSubmit(c) /\ t \in coord[c].ready
  /\ coord' = [coord EXCEPT ![c].ready = @ \ {t}, ![c].tried = @ \cup {t}]
  /\ thread' = [thread EXCEPT ![c][t] = [Idle EXCEPT !.at = "check"]]
  /\ UNCHANGED <<files, childs, starts, paid, target>>

\* The coordinator takes a finished future, when it can submit no more.
Collect(c, t) ==
  /\ coord[c].at \in {"fill", "drain"} /\ ~CanSubmit(c) /\ thread[c][t].at = "done"
  /\ coord' = [coord EXCEPT
       ![c].halted = @ \/ (c # "fast" /\ thread[c][t].result = "uncertain"),
       ![c].passed = IF c = "fast" /\ thread[c][t].result = "accepted" THEN @ \cup {t} ELSE @,
       ![c].at = IF c # "fast" /\ @ = "fill" THEN "look" ELSE @]
  /\ thread' = [thread EXCEPT ![c][t] = Idle]
  /\ UNCHANGED <<files, childs, starts, paid, target>>

\* With nothing in hand fast_finish asks whether the fast campaign is over,
\* and sleeps otherwise.
FastIsOver_Completed == report["fast"] = "completed"

FastIsOver == report["fast"] # "none"

Poll ==
  /\ coord["thinking"].at = "fill" /\ ~CanSubmit("thinking") /\ Running("thinking") = {}
  /\ coord' = [coord EXCEPT !["thinking"].at = IF FastIsOver THEN "drain" ELSE "look"]
  /\ UNCHANGED <<files, childs, thread, starts, paid, target>>

Verdict_PassedFirst(c, passed) ==
  CASE Cardinality(passed) >= target  -> "completed"
    [] coord[c].halted /\ c # "fast"  -> "uncertain"
    [] OTHER -> "insufficient"

Verdict(c, passed) ==
  CASE coord[c].halted /\ c # "fast"  -> "uncertain"
    [] Cardinality(passed) >= target /\ (c = "fast" \/ ~coord[c].halted) -> "completed"
    [] OTHER -> "insufficient"

\* Nothing is in hand and nothing may be submitted: the final report.
Report(c) ==
  /\ coord[c].at = (IF c = "thinking" THEN "drain" ELSE "fill")
  /\ ~CanSubmit(c) /\ Running(c) = {}
  /\ LET passed == IF c = "fast" THEN coord[c].passed ELSE Qualified(c)
         status == Verdict(c, passed)
     IN /\ report' = [report EXCEPT ![c] = status]
        /\ coord' = [coord EXCEPT ![c] = IF c # "fast" /\ status = "completed"
                                         THEN [Down EXCEPT !.at = "train", !.passed = passed]
                                         ELSE Down]
  /\ UNCHANGED <<log, summary, outcome, export, identity, pipeline, childs, thread, starts, paid, target>>

\* snapshot_exports and the training pipeline, whose log is created once.
Train(c) ==
  /\ coord[c].at = "train"
  /\ pipeline' = IF pipeline = NoPipeline /\ coord[c].passed \subseteq Qualified(c)
                 THEN [by |-> c, tasks |-> coord[c].passed] ELSE pipeline
  /\ coord' = [coord EXCEPT ![c] = Down]
  /\ UNCHANGED <<log, summary, outcome, export, report, identity, childs, thread, starts, paid, target>>

\* The collector is killed; its children live on.
Crash(c) ==
  /\ coord[c].at # "down"
  /\ coord' = [coord EXCEPT ![c] = Down]
  /\ thread' = [thread EXCEPT ![c] = [t \in Tasks |-> Idle]]
  /\ UNCHANGED <<files, childs, starts, paid, target>>

-----------------------------------------------------------------------------
(* A thread: rollout and run. *)

RunOf(c, t) == <<c, t, thread[c][t].attempt>>

Finish(c, t, result) == [thread EXCEPT ![c][t].at = "done", ![c][t].result = result]

\* A rejected attempt is followed by the next one, in the fast campaign.
AfterRejection(c, t) ==
  IF c = "fast" /\ thread[c][t].attempt + 1 < Attempts
  THEN [thread EXCEPT ![c][t].at = "check", ![c][t].attempt = @ + 1]
  ELSE Finish(c, t, "rejected")

Halt(c, when) == [coord EXCEPT ![c].halted = @ \/ (c = "fast" /\ when)]

\* The event halt is looked at before every attempt of the fast campaign.
StopHalted(c, t) ==
  /\ thread[c][t].at = "check" /\ c = "fast" /\ coord[c].halted
  /\ thread' = Finish(c, t, "none")
  /\ UNCHANGED <<files, childs, coord, starts, paid, target>>

GoesOn(c, t) == thread[c][t].at = "check" /\ ~(c = "fast" /\ coord[c].halted)

\* An outcome of an earlier collector is reused.
Reuse(c, t) ==
  /\ GoesOn(c, t) /\ outcome[RunOf(c, t)] # "none"
  /\ LET known == outcome[RunOf(c, t)]
     IN /\ thread' = IF known = "rejected" THEN AfterRejection(c, t) ELSE Finish(c, t, known)
        /\ coord' = Halt(c, known = "uncertain")
  /\ UNCHANGED <<files, childs, starts, paid, target>>

Started_Forgotten(r) == FALSE

Started(r) == r \in log

\* A log without an outcome: an earlier call whose result is unknown.
RefuseUnknown(c, t) ==
  /\ GoesOn(c, t) /\ outcome[RunOf(c, t)] = "none" /\ Started(RunOf(c, t))
  /\ thread' = Finish(c, t, "uncertain")
  /\ coord' = Halt(c, TRUE)
  /\ UNCHANGED <<files, childs, starts, paid, target>>

Pass(c, t) ==
  /\ GoesOn(c, t) /\ outcome[RunOf(c, t)] = "none" /\ ~Started(RunOf(c, t))
  /\ thread' = [thread EXCEPT ![c][t].at = "launch"]
  /\ UNCHANGED <<files, childs, coord, starts, paid, target>>

Launch(c, t) ==
  /\ thread[c][t].at = "launch"
  /\ log' = log \cup {RunOf(c, t)}
  /\ live' = live \cup {RunOf(c, t)}
  /\ paid' = [paid EXCEPT ![RunOf(c, t)] = @ + 1]
  /\ thread' = [thread EXCEPT ![c][t].at = "wait"]
  /\ UNCHANGED <<summary, outcome, export, report, identity, pipeline, exporting, coord, starts, target>>

\* The agent process ends, or is killed at its time limit: with or without
\* a summary.
AgentEnds(r) ==
  /\ r \in live
  /\ live' = live \ {r}
  /\ \E s \in {"none", "unknown", "failed", "completed"} : summary' = [summary EXCEPT ![r] = s]
  /\ UNCHANGED <<log, outcome, export, report, identity, pipeline, exporting, coord, thread, starts, paid, target>>

Waited(c, t) == thread[c][t].at = "wait" /\ RunOf(c, t) \notin live

\* No summary, or one that says interrupted or cancelled.
RecordUnknown(c, t) ==
  /\ Waited(c, t) /\ summary[RunOf(c, t)] \in {"none", "unknown"}
  /\ outcome' = [outcome EXCEPT ![RunOf(c, t)] = "uncertain"]
  /\ thread' = Finish(c, t, "uncertain")
  /\ coord' = Halt(c, TRUE)
  /\ UNCHANGED <<log, summary, export, report, identity, pipeline, childs, starts, paid, target>>

MayExport_AnyKnown(r) == summary[r] \in {"failed", "completed"}

MayExport(r) == summary[r] = "completed"

\* The independent evaluation; a run that passed and was completed is exported.
EvaluationPasses(c, t) ==
  /\ Waited(c, t) /\ MayExport(RunOf(c, t))
  /\ exporting' = [exporting EXCEPT ![c][t] = "open"]
  /\ thread' = [thread EXCEPT ![c][t].at = "export"]
  /\ UNCHANGED <<files, live, coord, starts, paid, target>>

Reject(c, t) ==
  /\ outcome' = [outcome EXCEPT ![RunOf(c, t)] = "rejected"]
  /\ thread' = AfterRejection(c, t)
  /\ UNCHANGED <<log, summary, export, report, identity, pipeline, childs, coord, starts, paid, target>>

EvaluationFails(c, t) ==
  /\ Waited(c, t) /\ summary[RunOf(c, t)] \in {"failed", "completed"}
  /\ Reject(c, t)

\* The export process truncates the file, writes it, or is killed on the way.
ExportOpens(c, t) ==
  /\ exporting[c][t] = "open"
  /\ exporting' = [exporting EXCEPT ![c][t] = "write"]
  /\ export' = [export EXCEPT ![c][t] = "torn"]
  /\ UNCHANGED <<log, live, summary, outcome, report, identity, pipeline, coord, thread, starts, paid, target>>

ExportCloses(c, t) ==
  /\ exporting[c][t] = "write"
  /\ exporting' = [exporting EXCEPT ![c][t] = "no"]
  /\ export' = [export EXCEPT ![c][t] = "good"]
  /\ UNCHANGED <<log, live, summary, outcome, report, identity, pipeline, coord, thread, starts, paid, target>>

ExportKilled(c, t) ==
  /\ exporting[c][t] # "no"
  /\ exporting' = [exporting EXCEPT ![c][t] = "no"]
  /\ UNCHANGED <<files, live, coord, thread, starts, paid, target>>

Exported(c, t) == thread[c][t].at = "export" /\ exporting[c][t] = "no"

Accepts(c, t) == export[c][t] = "good"

RecordAccepted(c, t) ==
  /\ Exported(c, t) /\ Accepts(c, t)
  /\ outcome' = [outcome EXCEPT ![RunOf(c, t)] = "accepted"]
  /\ thread' = Finish(c, t, "accepted")
  /\ UNCHANGED <<log, summary, export, report, identity, pipeline, childs, coord, starts, paid, target>>

\* Also when the process was killed after it had written the file.
RecordRejected(c, t) ==
  /\ Exported(c, t)
  /\ Reject(c, t)

-----------------------------------------------------------------------------
Coordinate(c) ==
  \/ Look(c) \/ Report(c) \/ Train(c)
  \/ \E t \in Tasks : Submit(c, t) \/ Collect(c, t)

Work(c, t) ==
  \/ StopHalted(c, t) \/ Reuse(c, t) \/ RefuseUnknown(c, t) \/ Pass(c, t) \/ Launch(c, t)
  \/ RecordUnknown(c, t) \/ EvaluationPasses(c, t) \/ EvaluationFails(c, t)
  \/ RecordAccepted(c, t) \/ RecordRejected(c, t)

Export(c, t) == ExportOpens(c, t) \/ ExportCloses(c, t) \/ ExportKilled(c, t)

Next ==
  \/ Admit \/ WaitedTooLong \/ Poll
  \/ \E c \in Cohorts : Start(c) \/ Crash(c) \/ Coordinate(c)
  \/ \E c \in Cohorts, t \in Tasks : Work(c, t) \/ Export(c, t)
  \/ \E r \in Runs : AgentEnds(r)

Spec == Init /\ [][Next]_vars

\* A coordinator and its threads are scheduled; every child has a time limit.
FairSpec ==
  /\ Spec
  /\ WF_vars(Admit \/ WaitedTooLong) /\ WF_vars(Poll)
  /\ \A c \in Cohorts : WF_vars(Coordinate(c))
  /\ \A c \in Cohorts, t \in Tasks : WF_vars(Work(c, t)) /\ WF_vars(Export(c, t))
  /\ \A r \in Runs : WF_vars(AgentEnds(r))
=============================================================================

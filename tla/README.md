# Verification of the coding-agent harness

TLA+ modules, TLC configurations and TLAPS proofs for `codeagentbench` (`src/src/codeagentbench`) and
the scripts beside it (`src/scripts`). The program runs coding agents on repository tasks:
a queue hands runs to workers, a worker starts the agent and then its evaluation, the agent leaves
an evidence trail it can be resumed from, campaigns of such runs are collected and turned into training
data, and a formal pipeline trains on them and compares two models. Nearly every component is a sequential Python program; what makes
the system hard is that its processes share files and one table, that any of them may be killed between two writes, and that what
they do (a paid request, a command in a workspace, an attempt of a job) must not be done twice.

Contents: [inventory](#inventory) · [modules and runs](#modules-and-runs) · [JobQueue](#jobqueue) · [AgentRuntime](#agentruntime) ·
[Campaign](#campaign) · [NativeTeacher](#nativeteacher) · [Sandbox](#sandbox) · [Conversation](#conversation) · [Pipeline](#pipeline) · [Rollout](#rollout) ·
[proofs](#proofs) · [disagreements](#disagreements) · [what is not modelled](#what-is-not-modelled) · [running](#running)

## Inventory

| component | state | operations | interacts with | module |
|---|---|---|---|---|
| job queue, `service/repository.py` | table `jobs`: status, lease owner, heartbeat, resumption count | submit, claim, heartbeat, finish, cancel, resume, reap_stale (one transaction each) | called by API and workers | `JobQueue` |
| worker, `service/worker.py` | its job, lease, child process, log files | run_once, `_execute` (polls a child once a second, beats, stops it on cancellation or deadline) | queue; CLI children; run directory | `JobQueue` |
| API, `service/app.py` | none | submit, cancel, resume (reads the checkpoint, then the row) | queue; run directory | `JobQueue` |
| CLI, `cli.py` | none | run, run --resume, evaluate-run, export-sft, ... | runtime, evaluator; started by worker and campaigns | `JobQueue` |
| agent runtime, `runtime.py` | RunState, ledger, signatures, workspace, checkpoint | run: recovery, inventory, the step loop, final records | model client, executor, journal, ledger, artifacts | `AgentRuntime` (durability), `Conversation` (content) |
| action journal, `harness/recovery.py` | `actions.jsonl` | record_intent, record_receipt, pending | runtime | `AgentRuntime` |
| budget, `harness/budget.py` | tokens, cost, seconds, calls | can_spend, consume, restore | runtime, rollout | `AgentRuntime`, `Rollout` |
| artifacts, `storage/artifacts.py` | `run.json`, `checkpoint.json`, `events.jsonl`, `summary.json` | atomic replacement, append | runtime, worker, API, evaluator | `AgentRuntime` |
| inventory observation, `harness/repository_inventory.py` | receipt, event, flag in the checkpoint | observe once, charge once | runtime | `AgentRuntime` |
| workspaces and snapshot cache, `sandbox/workspace.py` | cache, staging directories, checkouts | create (fetch, unpack, init, publish, clone), diff, digest | runtime, evaluator; other processes | `SnapshotCache` |
| sandbox, `sandbox/nsjail.py` | uid leases, `nsjail.lock`, prepared marker | lease, lock, prepare, execute | executor | `Sandbox` |
| supervisor, `sandbox/bounded_process.py` | pipes, deadline, process group | read, limit, cancel, kill, reap | sandbox, runtime | `Sandbox` |
| evaluator, `verification/evaluator.py` | fresh workspace | apply patch, run controls, verdict | CLI, rollout | `JobQueue`, `Rollout` |
| rollout, `rollout/*` | candidates, shared ledger | candidates in order, selection | runtime, evaluator | `Rollout` |
| paid client, `adapters/model.py` | none (retry loop) | balance, complete | provider | `Rollout` |
| action parser, `adapters/action.py`, `file_tools.py` | none | parse_action | runtime, context, export | `AgentActions` |
| source evidence, `harness/source_evidence.py`, `adapters/source_*.py`, `text_edit.py` | observed packets | record, validate and run an edit | runtime | `AgentActions`, `Conversation` |
| context, `harness/context_history.py`, `training/action_context.py` | messages | prepare_context: recent_history, compact_context, native | runtime, export | `ContextHistory` |
| training, `training/*`, `train_sft.py`, `prepare_aligned_sft.py`, `train_aligned_sft.py` | data sets, checkpoint | export, readiness, encoding, sampling, memory ladder | run directories | `AlignedExport`, `TrainingData` |
| collectors, `scripts/accelerate_campaign.py`, `fast_finish.py`, `repair_protocol_next.py` | logs, outcomes, exports, reports, identities; thread pools | schedule, rollout, export, report, start training | CLI children; each other's files | `Campaign` |
| native teacher, `scripts/collect_native*.py` | conversation, pending call, queue of calls, receipts and warnings seen | `_sync`, `complete`, `_next_action` | runtime and its journal; provider | `NativeTeacher` |
| formal pipeline, `scripts/run_clean_training.py`, `preflight_controls.py`, `prewarm_baselines.py` | logs and receipts of stages, `experiment.json`, combined file, report | freeze, combine, audit, train, join, paired evaluation | children; campaigns | `Pipeline` |
| tasks and quality, `tasks/*` | manifests, reports | controls on original and patched trees | evaluator | an outcome in `Pipeline` |

Hard behaviours, and what correctness means:

* **A worker that is slow and not dead.** Its heartbeat expires, `reap_stale` interrupts the job, a user resumes it,
  another worker claims it, and the first worker goes on. The queue is correct when the first worker's verdict
  can never become the verdict of the second attempt, when a job has one holder at a time, and when every claimed job
  leaves the hands of its worker in the end.
* **Orphans.** A child has a session of its own: it survives its worker, collector or pipeline, keeps writing to the run directory and
  may compete there with the child of a later attempt.
* **Crashes between two durable writes** of the runtime: intent, effect, receipt, event, checkpoint, summary. A
  resumed run is correct when no acknowledged action is executed again, nothing paid is paid twice, budgets keep growing,
  and the evidence (events, visible test) tells what happened.
* **Costs known only afterwards.** A request or a tool may cost more than is left; a lost request may have been paid.
* **Files as messages.** Collectors, pipelines and their helpers learn of each other only by files that may be torn, stale or still to be written; the decision whether to
  pay for a task again rests on them, and so does the start of the training.
* **Processes the harness does not control.** A command forks, keeps its pipes open and outlives its leader; the supervisor must end anyway.
* **Derived records.** Contexts, training examples and readiness counts are computed from messages and events that were filtered and compacted
  several times before; they are correct when they still say what happened.

`PROJECT.json` lists every hazard at its line with the properties that cover it, or the reason none does.

## Modules and runs

All modules take their parameters as CONSTANTS with a named assumption, have one action per operation or per durable write, and use no
RECURSIVE operator, so that each can be proved about. `X.tla` holds the behaviour, `XSafety.tla` the
properties, `MCX.tla` the definitions TLC needs, `XProofs.tla` the proofs. A definition with an underscore
in its name (`NewLease_PerJob`) is the form of its neighbour a plausible mistake would give; no specification uses
it, and each property is known to fail with one of them (`mutants` in `PROJECT.json`).

| family | modules | composes / abstract specification | proved |
|---|---|---|---|
| queue | `JobQueue`, `JobQueueSafety`, `JobLifecycle` (abstract) | queue, workers, API, CLI children, run directory; implements `JobLifecycle` | `JobQueueProofs` |
| runtime | `AgentRuntime`, `AgentRuntimeSafety` | runtime, journal, ledger, artifacts, workspace | `AgentRuntimeProofs` |
| campaign | `Campaign`, `CampaignSafety` | three collectors, their children and files | `CampaignProofs` |
| teacher | `NativeTeacher`, `NativeTeacherSafety` | teacher and runtime loop, the journal between them | `NativeTeacherProofs` |
| sandbox | `SnapshotCache`, `Sandbox` (extends it), `SandboxSafety` | cache, checkouts, jail, supervisor, commands | `SandboxProofs` |
| conversation | `AgentActions`, `ContextHistory`, `Conversation`, `AlignedExport`, `TrainingData` (each extends the one before), `ConversationSafety` | parser, tools, contexts, run loop, export, training | `ConversationProofs` |
| pipeline | `Pipeline`, `PipelineSafety`, `PairedRuns` (abstract) | pipelines, prefetch, controls, their children; implements `PairedRuns` | `PipelineProofs` |
| rollout | `Rollout`, `RolloutSafety` | candidates, paid client, ledger, selector, evaluations | `RolloutProofs` |

| run | instance | what holds |
|---|---|---|
| `queue_one_job` | 1 job, 2 workers, 2 leases, 1 kill | `TypeOK`, `PublishedByLatestAttempt`, `ChildrenOverlapOnlyAfterReap`, `EarlyCancelWins`, `OnlyItsWriterSettlesACheckpoint` |
| `queue_liveness` | 1 job, 1 worker that evaluates in its own process, 1 kill, fair | `ImplementsLifecycle`, `ClaimedJobIsReleased` |
| `queue_stale_verdict` | 1 job, 1 worker | `VerdictOfThisAttempt` is violated, see [disagreements](#disagreements) |
| `runtime_recovery` | an edit, a test, two reads and a search, 3 versions, 3 steps, 3 processes | `OutcomesAreKnown`, `NoCommandRunsTwiceOnAVersion`, `SummaryIsAboutTheTestedPatch`, `RequestsAreAcknowledged` |
| `runtime_budget` | 2 steps, every limit small, costs that fit, just fit and do not; with the inventory | `CallsAreChargedOnce`, `SpendingNeverShrinks` |
| `campaign_restart` | 1 task, the first two collectors twice, fair | `PaidOnce`, `OneOpenRolloutPerTask`, `CollectorsEnd` |
| `campaign_cohorts` | 2 tasks, target 1 or 2, 2 fast threads, one start each | `NoTaskBeyondTarget`, `NoTrainingOnUnknownOutcomes`, `TrainsOnCompletedTasks` |
| `teacher_conversation` | 2 commands, 3 versions, groups of up to 3 calls, 4 steps, with and without the inventory | `ResultsAreReceipts`, `RequestsCarryWholeGroups`, `KnownCallsRunOnce`, `WarningsAreToldOnce` |
| `sandbox` | 2 processes, one started twice, 4 runs over 3 repositories, 2 uids, 2 commands, fair | `SnapshotsAreWhole`, `CommandsRunPrepared`, `CommandsOverlapOnlyAfterCrash`, `CommandsEnd` |
| `conversation` | one file of two lines, 8 answers, 6 steps, all three policies, then data and training | `EditsAreGrounded`, `ContextIsRecent`, `ExportIsFaithful`, `RecoveriesAreReal`, `ReadinessIsEarned`, `TrainsOnRealActions` |
| `pipeline` | 1 or 2 tasks, 2 pipelines, prefetch, controls, up to 1 kill, fair | `ReportIsWhole`, `TrainsOnFrozenExports`, `ImplementsPairedRuns`, `PipelinesEnd` |
| `rollout` | 2 candidates of 2 answers on 4 tokens and 4 units of time, requests limited, lost, refused, empty or answered; answers refused, run or last | `UnknownOutcomesStopTheGroup`, `SpendingIsCharged`, `SelectionHasEvidence` |

## JobQueue

`JobQueue.tla` is `service/repository.py`, `service/worker.py`, the writing endpoints of `service/app.py`,
and of `cli.py` what the worker's children do to the run directory.

* `row` is the table. `lease` stands for `lease_owner`: a fresh number for every claim, as uuid4 makes it. `fresh` says whether
  the heartbeat is younger than the reaper's 60 s. `worker[w]` holds the locals of a worker process and its place in `run_once`;
  `child[l]` is the process started under lease `l`; `disk[j]` the run directory: tree, `run.json`, the kind of the checkpoint and its last writer,
  summary, last evaluation event, names of the log files.
* Each SQL transaction is one action, guarded as its `WHERE` clause is: `Submit`, `Cancel`, `Resume`, `Reap`, `Claim`, the heartbeat in `PollBeat`, and
  `Publish`, which is `finish`. The resume endpoint has two actions (`CheckResume`, `Resume`) because the checkpoint is read before the
  transaction. The polling loop reads the row (`PollRead`) and then beats and stops its child (`PollBeat`), as the code uses two transactions. A child creates the
  workspace, writes `run.json` and checkpoints, ends, may die at any step (`ChildDies`),
  and may ignore SIGTERM until it is killed. Any step of a worker may raise (`WorkerRaises`), a worker may be killed (`WorkerCrash`), and time passes in `Expire` (the heartbeat) and in the two parameters of `PollBeat` (the deadline, and ten seconds after SIGTERM).
* `hist` is read by no action. It records the latest attempt and who published.

`JobLifecycle.tla` is the abstract specification, the states and moves a client of the API sees; `ImplementsLifecycle` says the queue, workers and children together
implement it through the status column.

Bounds: two attempts of one job are the least in which a stale worker can meet its successor, and each property relates at most two
attempts; a second job shares nothing with the first but the workers, and the theorems are about any number of jobs. `queue_one_job` has two verdicts (the third
differs from `blocked` in the word only, and the other runs have all three). `MaxClaims` covers every
attempt (an assumption of `MCJobQueue` says so), so no behaviour stops for want of leases. Deadlock is checked in all of these runs: an idle
worker goes on reaping and claiming nothing, as `main` loops for ever.

Fairness (`Fairness`): each worker is scheduled (weak fairness of its steps). The poll at which deadline and grace period are over is
strongly fair: the loop comes back to it once a second and leaves it as often, and the deadline of `_execute` does come. The heartbeat of a row
no worker holds expires. Children get none: they may hang. That is all the code relies on: a worker, a clock and a bounded poll.

## AgentRuntime

`AgentRuntime.tla` is `runtime.py` with the journal, ledger, inventory and artifacts it writes: what survives a crash.

* A process runs from one durable write to the next in one action; `pc` names the place between, and there a process may be killed (`Crash`) or raise. Up to `MaxStarts` processes work on the run one after the other, each
  restoring the state, ledger and history from files as `run` does on resume.
* `ckpt`, `journal`, `log`, `summary` are the files; `mem`, `ledger`, `loc` what is in memory; `ws` the version of the workspace its digest names. `DiffOf` maps a version to
  its diff; the diff leaves untracked files out, so a version `scratch` with the diff of the base is in the instances.
* The model's answers are a command (edit, test, read, search), the finish or nothing a tool can run; each branch
  of the loop is its own action: repeated command, navigation limit, completion without the required test, edits rejected or cancelled, budget gone.
  Tokens, seconds and calls are small numbers; cost is accounted exactly as tokens are and is folded into them.
* `hist.overran` becomes true when the elapsed time of a tool did not fit. Three of the promises hold of all behaviours
  without it (`Regular`); what happens with it is disagreement 3. Spending and requests are about all behaviours.

Bounds: three steps let an action, its repetition and a third command interleave with two restarts at every write; the
inventory has its own run because it doubles the states. A read limit of 1 instead of 3 reaches the same comparison in
fewer steps. `CHECK_DEADLOCK FALSE`: a run ends, and its processes are bounded. The module states safety only: liveness of one process is the bound on its steps, which holds by the shape of a `for` loop.

## Campaign

`Campaign.tla` is the collection phase of `accelerate_campaign.py` (cohort `fast`), `fast_finish.py` (`thinking`) and
`repair_protocol_next.py` (`protocol`), and the start of the training pipeline.

* A cohort is a coordinator (`coord`), a thread per task in hand (`thread`), the agents and exporters they started (`live`, `exporting`)
  and its files: `log` (created with mode `x` before the agent), `summary`, `outcome`, `export`, `report`, `identity`. `flock` admits one collector per directory, so a cohort
  has one coordinator at a time; it may be killed at any step (`Crash`) and started again (`Start`); its children live on, and an exporter may be between the truncation of its file and its last line.
* The scheduling loop is split where it reads another's files: `Look` reads the exports and outcomes, `Submit` fills free slots, `Collect` takes a future, `Poll` asks for the report of the fast campaign. A thread takes an outcome as it finds it, refuses a log without an outcome, launches, waits, evaluates, exports, records.
* `Report` judges by the sources of its cohort, `Train` takes the snapshot and creates the pipeline's log once.

Bounds: all rules are about one task across cohorts, or about counting tasks against one target, so one task with two starts and two tasks with
one start cover both. A second protocol collector is refused by its identity.
Fairness in `campaign_restart`: threads and coordinators are scheduled, every child has a time limit in the code
(`subprocess.run(..., timeout=...)`), the wait for the thinking report ends after half an hour. `CHECK_DEADLOCK FALSE`: starts
are bounded, and a finished campaign stops.

Left out: the quality phase, the balance guards and prices (a wallet is outside), exports that fail `seed_ok` (they count as none).

## NativeTeacher

`NativeTeacher.tla` is `NativeTeacher` of `collect_native_reliable.py` with the part of the runtime's loop it meets. The two scripts it
grew from, `collect_native.py` and `collect_native_queue.py`, are earlier stages of the same class.

* `talk` is the provider's conversation after the task (`history`); a response with calls, a result, or a batch of reminders is one
  entry. `pending`, `queued`, `seen`, `heard`, `buffered` are the fields of the class. `journal` is what the teacher reads of `actions.jsonl`, `said` the harness warnings the runtime's
  messages still hold. `_sync` is one action though it is called twice per step: the second call finds nothing new.
* The provider answers with any sequence of calls up to one more than is accepted; an answer that fails validation, for whatever reason, is the
  empty one. Each command may fail, change the workspace to any version, be refused as a repetition, and the messages may be compressed
  at any step. `PostFails` is every exception of `complete`: the run is then interrupted and the class is never restored.
* The runtime of this module is the loop without crashes, since a native run is not resumed; `AgentRuntime` has it with them.
* Warnings are told apart as `_sync` does it, by their text: two failures in a row say the same, two progress checkpoints do not.

Bounds: a group of three calls followed by another, and a repetition on an old version, fit in four steps; three calls stand for eight and the first step for the
fifth (`CheckpointFrom`). With the inventory on every run ends at its first call (disagreement 5), so what the run shows beyond that is about runs without it, and about the code once the
receipt is told apart. `CHECK_DEADLOCK FALSE`: a run ends.

A warning that is compressed away in the step that gave it, and the warning of a refused repetition (after which `_sync` finds no receipt
and raises), never reach the provider. Both are behaviours of the model; `WarningsAreToldOnce` speaks of the warnings the teacher can see.

## Sandbox

`SnapshotCache.tla` is `WorkspaceManager.create` of `sandbox/workspace.py`; `Sandbox.tla` extends it with `sandbox/nsjail.py` and
`sandbox/bounded_process.py`.

* `cache` is the published snapshot per repository and commit, as what it was unpacked from and whether Git tracks it; `tree[p]` the
  staging directory of a builder, `checkout[r]` the directory of a run. `Create` looks at the cache once; `FetchLocal`, `FetchArchive`, `FetchClone` are the three ways to fill the
  staging directory, with the fallback from an archive to a clone and what a failed unpacking leaves; `Publish` is the rename, `CloneStarts` and `CloneEnds` the clone of the snapshot.
* `lease`, `usr`, `owner`, `sealed`, `marker` are what `_lease_uid` and `_prepare` leave on disk, each written by an action of its own; `lock` is the file lock of
  one command. A torn marker, or a copied template without one, refuses the run for good.
* `sup[p]` is one call of `run_bounded`: a turn of the loop is `Loop` (cancellation, deadline, reading) and `Poll` (the leader's exit), `LimitHit` the output and disk limits,
  `Wait` the time after the pipes are closed, `Kill` the finally clause. `group[c]` is the environment: a leader that writes, forks, closes its pipes and exits as it likes.
* Harness processes are killed anywhere. Their lock goes, the command they started lives on with `JailExpires` as its only end.

Bounds: two builders of one snapshot, two workspaces for two uids, and two commands in one workspace are the least that compete. `Situations` starts the model from three phases of a
machine's life so that their product need not be explored: workspaces that are made, with a crash, while no command runs; commands in one workspace, with a crash; and one command in either of two ready workspaces.
`RenameErrors` has both errors `rename(2)` may give. `CHECK_DEADLOCK FALSE`: starts and commands are bounded.
Fairness: the supervisor is scheduled and its deadline passes. Nothing is assumed of the command, of the builders or of the jail's own limit: `CommandsEnd` is the supervisor's promise alone.

## Conversation

Five modules that each extend the one before follow one run from the text of an answer to the tokens a model is trained on.

* `AgentActions`: an answer is what `parse_action` finds in it, a sequence of JSON objects in prose or an envelope; the choice among several, the precedence of the tools and the
  validations are operators. Files are sequences of lines. Reads, searches and edits are modelled as the programs `file_tools` and `text_edit` generate;
  `ObserveSource` and `Grounded` are `harness/source_evidence.py`.
* `ContextHistory`: messages are records of a role and of what matters about them; `prepare_context` applies one of its three policies. `recent_history` and `compact_context` are applied to what they returned before, as the runtime does;
  `native`, the default of the runtime, keeps every message until they have grown too long, and the runtime then replaces them by a summary of the evidence (`Outgrown` in `Conversation`, `runtime.py:630-635`).
* `Conversation`: the loop of `runtime.py` again, now without crashes and with content. Every branch that refuses an action is an action of the module. Counters
  (streak of rejections, reads of a file, refused finishes, failed edits) are computed from `turns`, which is what `events.jsonl` and the journal hold.
* `AlignedExport`: the events of a run, the row `export_run_to_sft` makes of them, and the fold of `prepare_aligned_sft.examples`; the readiness audit.
* `TrainingData`: preparation, the readiness gate, `encode_next_action` and `encode_example` on abstract tokens, the out-of-memory ladder, sampling, and the two entry points
  (`train_aligned_sft.py`, and `train_sft.py` run directly).

The properties compare each derived record with the turns: `ContextIsRecent` defines the expected context without `messages`, `ExportIsFaithful` the expected data without events,
`RecoveriesAreReal` the expected recoveries without messages. What counts as one depends on what the policy shows: `readiness.py:49-51` wants the action that immediately follows the refusal. Under `native` a refused finish in between is in the context
and takes the credit away; the bounded policies keep no answer without a receipt, so it is not seen (disagreement 11).

Bounds: one file of two lines is the least in which an edit can be grounded in another line than it changes; a search, a read in an imagined transcript, a broken and a good edit, the test, a writing command,
the finish and an answer without JSON can follow each other in six steps, which is what a refused, repaired, tested and finished patch takes. Two kept turns stand for four and a read limit of 1 for 3.
Messages are compressed beyond `NativeChars` = 7 characters, of which each has one and a long output two: runs under `native` are compressed early, late and never.
The length of a record under a bounded policy reaches the limit of the preparation and lies between the two rungs of the ladder; under `native` it exceeds the limit too. Deadlock is checked; a run that ended stutters (`Ended`).

## Pipeline

`Pipeline.tla` is `run_clean_training.py` with `preflight_controls.py` (the heldout controls) and `prewarm_baselines.py` (the Base-first prefetch), which work ahead of it on the same directory.

* Each of the three executes labelled children: `log` is opened exclusively before the child, `receipt` is written after it (`Execute`, `Reap`). `ChildEnds` leaves what the label is for (an admitted task, a summary, a passed verdict, an
  audited dataset, a checkpoint) or does not. A successful audit drops rows that are too long, repeat another one or have nothing to learn, and with them some of the exports (`Kept`, `audit_training_data.py:32-38`): which ones is a choice, and the pipeline refuses what is less than the minimum (`Refused`). A pipeline freezes its exports (`Identify`), combines them in place or refuses them (`CombineOpens`, `CombineWrites`; the file of actions the legacy mode makes of the combined one is written and refused by the same steps), audits and trains (the thread `Main`), joins the prefetch (`Join`), runs
  the pairs of all tasks in threads and reports. A driver may be killed anywhere (`Kill`); its children live on, and another pipeline may be started on what is left.
* `PairedRuns.tla` is the abstract specification of a paired evaluation: each model runs at most once on a task, and the second of a pair starts when the first is over, its evaluation included.
  `ImplementsPairedRuns` maps the marks on disk to it, a label launched twice to a state no step leads to.

Bounds: `Situations` lists the combinations: one task with prefetch or controls, two pipelines and a kill anywhere; two tasks, one of each order, without kills. Three exports let the third arrive between two starts.
Every task has a thread of the pool, and pipelines run one at a time: a collector starts one behind `pipeline.log`, and a second one by hand beside it would be the user's error.
Exports are added only between starts: the collectors have ended when they start the pipeline. `CHECK_DEADLOCK FALSE`: drivers and kills are bounded.
Fairness: the steps of a pipeline, and each of its threads together with the child it waits for, which has a timeout (`subprocess.run(..., timeout=...)`). Nothing is assumed of prefetch, controls or
orphans; the wait for the prefetch has a deadline of 1200 seconds.

## Rollout

`Rollout.tla` is `rollout/coordinator.py` and `rollout/selector.py` with the paid client `DeepSeekModel.complete` below them; a candidate is a run of the agent, of which only what it asks,
spends and leaves is kept.

* `ledger` is the ledger all candidates share; `paid` is what the provider charged, which no action reads. `clock` is the monotonic clock, which every step may move, and `mark` the time the next charge counts from (`clock_at`, and `model_started` while a request runs):
  a step of the run first charges what passed since the last charge (`runtime.py:299-303`), then its request, then its tool. `unpaid` adds up the stretches no charge will count: the making of a workspace (`coordinator.py:57`), the preparing of a request (`runtime.py:303-314`), and the end of a run
  after its last charge (`Finish`). `SpendingIsCharged` says that those are all: tokens entirely, and of the time everything else, exactly once.
* A request is a sequence of attempts: limited and retried, refused by the balance, lost or failed
  with an unknown outcome, answered, answered with nothing and asked once more, answered with counters that do not add up.
* An answer runs a tool (`RunTool`), is refused with a message and the model asked again (`Refuse`), or ends the run (`Finish`). `Settle` and `RunTool` charge afterwards and block the run when the cost does not fit. A run that raises ends the loop over candidates (`AfterFailure`); exceptions the coordinator does not catch end the group (`GroupDies`).
* `Score` is four times the score of the code, whose weights are quarters; `Select` leaves a tie undecided; `Evaluate` charges what an evaluation took or blocks it.

Bounds: two candidates are the least that share and compete; two answers each, so that a refused one is followed by another, requests of one token (two for a request asked again), a limit of two attempts for four, and a unit of time of ten minutes, where the penalty for time is capped. Requests and durations of one or two units fit, just fit and exceed what is left.
What runs may leave (`SmallEvidence`) has patches that are equal and different, tested and not, and more files than the penalty counts. `CHECK_DEADLOCK FALSE`: a group ends. Safety only; the loops are bounded.

## Proofs

All theorems are about every value of the constants, under the named assumptions of the modules. Each is proved by an inductive invariant whose parts have lemmas of their own, one step per action.
A state predicate named in parentheses is the property the theorem states and a run checks.

* **`JobQueueProofs`.** `QueueTyping`: `Spec => []TypeOK`. `QueueFencing`: `Spec => []LeasesFence`; the properties that matter are not inductive, since a worker that believes it
  owns a row holds nothing if another has its lease. `LeasesFence` adds that leases in workers are at most `claims`, that two busy workers never share one, and that an owned row carries
  the lease of its latest attempt. `OneHolder` (`[]SingleHolder`) and `StaleWorkersNeverPublish` (`[]PublishedByLatestAttempt`) are corollaries.
  `QueueImplementsLifecycle`: `Spec => ImplementsLifecycle`, each action maps to a move of the status or to none. `EarlyCancellationWins`: the invariant `Heeded` follows a cancellation from the row
  to the result of its worker. `ChildrenAreReaped` (`[]ChildrenOverlapOnlyAfterReap`): `Loose(j)` is the set of leases under which a worker or a child works on `j` without holding its row. A lease becomes loose only when its row is reaped, because a worker publishes
  after its child is gone, so `Loose(j)` has at most as many members as heartbeats were reaped; beside them there is only the holder. `CheckpointsHaveOneWriter` (`OnlyItsWriterSettlesACheckpoint`): without a reaped heartbeat there is one process,
  a first run finds no checkpoint (`Rooted`: checkpoints lie in workspaces), and a resumed one starts from a resumable one (`Authored`).
* **`SandboxProofs`.** `SnapshotsArePublishedWhole` (`[]SnapshotsAreWhole`): the invariant `Sources` says that a builder starts with an empty directory and that what it is about to publish has one source and is under Git.
  `SupervisorsHoldTheLock` (`[]Supervised`): whoever prepares or runs has the lock of its run, and a command that is not abandoned is watched from there; `CommandsMeetAfterACrash` (`[]CommandsOverlapOnlyAfterCrash`) follows, because two supervisors
  cannot have one lock. `WorkspacesArePrepared` (`[]CommandsRunPrepared`): `Ready` gives every label of `_prepare` what the steps before it left, every uid one workspace, every cloning process its directory; mutual exclusion is what keeps one process's
  facts from another's steps. That a free uid is found rests on the least element of a set of numbers (`Smallest`).
* **`AgentRuntimeProofs`.** `SpendingIsMonotonic`: `Spec => SpendingNeverShrinks`. The invariant `Accounts` says that amounts are natural numbers, that the ledger in memory is never below the
  saved one while a process runs, and that the receipts a resumed process charges carry natural costs. `RequestsAreNeverRepeatedBlindly`: `Spec => RequestsAreAcknowledged`. The invariant `Asking`
  says that a request without an answer exists only while the process that sent it waits or ends, or while the saved state admits one (`pendingModel`), which blocks every later process.
  The four promises that hold unless a tool overran the budget share the invariant `Record`: while nothing overran, `Honest`. It says that the journal is `Orderly` (intents and receipts alternate, no identifier and no signature twice), that
  every entry is `Known` to the state a process would continue from, that the charged calls and at most one owed receipt make up all receipts (`Balanced`), and that a patch called tested is `Proven` by a receipt (`Told` for the summary).
  `Saved` says it of the checkpoint and `Alive` of the memory of a live process, which differ between any two writes; a crash passes from `Alive` to `Saved`. `OutcomesStayKnown` (`OutcomesAreKnown`), `RunsMakeProgress` (`NoCommandRunsTwiceOnAVersion`),
  `ToolCallsAreChargedOnce` (`CallsAreChargedOnce`) and `SummariesAreAboutTheTestedPatch` (`SummaryIsAboutTheTestedPatch`) read off its parts.
* **`CampaignProofs`.** `RolloutsArePaidOnce`: `Spec => []PaidOnce`; a run that is not in the log is not paid. `TasksHaveOneOpenRollout`: with `Attempts <= 2`, `Spec => []OneOpenRolloutPerTask`. The invariant gives every
  logged, running or intended rollout its title: it is the first of its task, or each rollout before it in the order of cohorts and attempts is rejected, and a rejection is final. The hypothesis is the code's: `exhausted_tasks` looks
  at the first two attempts only, and `--attempts` of `accelerate_campaign.py` may ask for more (disagreement 9). `CampaignInv` carries the other three: `Knowledge` (an uncertain outcome of a cohort that was started once is known to its coordinator or to the thread that has just found it,
  and what has trained is gone and had none), `Evidence` (every ready task is backed by a seed or an agent that completed) and `Capacity` (the tasks the first fast collector counts as passed and
  its running threads together stay within the target, and no task is accepted outside of them). They give `NoTrainingWithoutKnowledge` (`NoTrainingOnUnknownOutcomes`), `TrainingHasItsEvidence` (`TrainsOnCompletedTasks`) and `TargetIsNotExceeded` (`NoTaskBeyondTarget`).
* **`NativeTeacherProofs`.** `TeacherTyping`: `Spec => []TypeOK`. `ExchangeInvariant`: `Exchange` relates the conversation, the journal and the queue of the class: each call of the conversation has its result right behind it or waits (`Groups`), what was asked is
  what was done followed by what is due, and only the receipt of the pending call is not shown yet. `ShownResultsAreReceipts` (`ResultsAreReceipts`), `GroupsAreWhole` (`RequestsCarryWholeGroups`) and `CallsRunOnceInOrder` (`KnownCallsRunOnce`)
  follow. `Warned` says that a warning was told once or is buffered, however messages are compressed: `WarningsReachTheProviderOnce` (`WarningsAreToldOnce`). What `FlattenSeq` computes is a fold; its recursive equation follows from the definition of the library
  (`IsFlat`), and what it says of all prefixes by a least counterexample, since no induction theorem can be cited with an operator.
* **`PipelineProofs`.** `PipelineTyping`: `Spec => []TypeOK`. `MarksAreExclusive`: a label is launched once, its receipt is written by the driver that waits for it, and nobody else. `PipelineImplementsPairedRuns`: `Spec => ImplementsPairedRuns`, step by step; the invariant adds
  the order of a thread's remaining program, and that a second run is only on a program whose first one is over. `TrainingIsOnFrozenExports` (`TrainsOnFrozenExports`) rests on `DataInv`: the exports a pipeline read are those of `experiment.json`, the
  combined file holds all of them unless it is torn, what an audit kept are some of it and, once it was accepted, enough, and a helper changes none of it. `ReportsAreWhole` (`ReportIsWhole`) rests on `ReportInv`: an evaluation is launched only on a summary, what a thread found good is over and was good, and
  a receipt never changes, so what a report says stays true.
* **`RolloutProofs`.** `GroupIsTyped`, `UnknownStops` (`[]UnknownOutcomesStopTheGroup`), `SpendingIsExact` (as long as nothing was blocked or died, the ledger holds all tokens that were paid, and clock, ledger, `unpaid` and what passed since `mark` add up, for any pauses anywhere in a run),
  `EverySpendingIsCharged` (`[]SpendingIsCharged`, the same with the summary: the tokens of the summary are a fold over the candidates; a group has at most four, and the equation of the fold determines its value for so many) and
  `SelectionIsBest` (`[]SelectionHasEvidence`: the penalties add up to at most 38 and the smallest piece of evidence counts 60).
* **`ConversationProofs`.** Its theorems are about the two bounded policies, `DataSpec /\ policy \in BoundedPolicies => []P`, for every value of the constants; under `native` the same properties are model-checked only. A native context shows answers without a receipt, and nothing of what a compression
  replaced, so that it needs another invariant than `Shape`. `ConversationTyping`: `[]Typing`. The messages of the runtime are never read as they are, they are scanned for receipts, answers and interventions; `Scanned` states the result of the scan as a sequence of dialogues, an answer without receipt
  and the active interventions, lemmas follow it message by message, and both bounded policies are shown to keep it. `Shape` and `Progress` say that the latest dialogue is about the latest turn with a receipt.
  `RecoveriesAreCountedRight` (`RecoveriesAreReal`) follows. `ContextsAreRecent` (`ContextIsRecent`) needs more than that, since a context is made of messages that an earlier call of the policy has compressed already: `Recalled` says that every
  dialogue of the messages shows its turn as far as `LatestChars` or, if it is not the latest, as far as the limit it has come to (`Aligned`), that what was said since the latest receipt still stands, and that all dialogues of the run are left, or at least as many as the policy keeps.
  `EditsRestOnReads` (`EditsAreGrounded`): every observed packet was shown by a read after which no edit of the file applied (`Evidence`).
  `DataAreTheRealActions`: the fold over the events is followed turn by turn beside the observations of the run (`Watched`), and whatever it accepts, it gives back the actions that ran in their order, from the preparation through the training.
  `ExportsAreFaithful` (`ExportIsFaithful`) adds that it accepts a suitable run. A seed whose answers were all well formed is converted (`ConvertibleRun`): every action that ran can be shown, every receipt is for the answer before it, and a refused finish, of which there is
  at most one, is told in the next context and in no earlier one (`Refusals`, which rests on `Recalled`; the old policy forgets the warning, hence the hypothesis). What remains for a preparation to refuse is an example that is too long (`Explained`).
  `ReadinessIsEarnedByTheRun` (`ReadinessIsEarned`) and `TrainingIsOnRealActions` (`TrainsOnRealActions`) join that with the gate, and with the tokens of a record, which are those of its messages in order, headers apart from bodies, and of which both encoders only cut.

Assumptions beside the types and lower bounds of constants: the inventory is not one of the model's commands (`AgentRuntime`: its identifier is the constant of `repository_inventory.py`, not a step); the exports are finitely many (`Pipeline`: files of a directory);
answers are what a parser can find in a text, and contents are sequences of lines (`Conversation`). TLC evaluates every assumption; the proofs use no fact about the instances.

Every safety invariant and every safety action property of a passing run is a theorem, those of `conversation` under the bounded policies. Only model-checked: the properties of `conversation` under `native`, and liveness (`ClaimedJobIsReleased`, `CollectorsEnd`, `CommandsEnd`, `PipelinesEnd`), which with ENABLED is out of the prover's reach.

## Disagreements

Where the code and its own words part. The first is a run of the project; the others have a configuration whose counterexample is the code's behaviour.

1. `queue_stale_verdict` (`VerdictOfThisAttempt`): an evaluation child that dies without a result makes the worker publish the verdict of an earlier attempt, because it takes the last evaluation event in the file (`worker.py:120-125`).
2. `JobQueueLateCancel.cfg` (`CancellationWins`): `worker.py:72-73` says a cancellation wins over completion. The row is read once more after the child ended (line 74) and `finish` accepts a `cancelling` row,
   so a cancellation accepted in between is overwritten. With the local executor that window is the whole evaluation. `EarlyCancelWins` is what holds.
3. `AgentRuntimeReplay.cfg` (`AcknowledgedActionsAreNotReplayed`): a tool whose elapsed time exceeds what is left makes `consume` raise after the receipt is written (`runtime.py:512`). The final checkpoint has no pending action and keeps the answer; a resumed process executes the action again.
   The same exception keeps the tool's seconds and call out of every checkpoint, and skips the line that clears `visible_test_passed` after an edit.
4. `CampaignOverlap.cfg` (`ProBatchesDoNotOverlap`): the protocol cohort waits for a report file that an earlier thinking cohort left, so two Pro batches overlap.
5. `NativeTeacherInventory.cfg` (`ReceiptedCallsAreAnswered`): `_sync` wants the receipt of its call to be the only one it has not seen (`collect_native_reliable.py:79`), but the runtime journals its inventory observation first, which `main` leaves on. The first call that ran is
   refused, the run ends interrupted and the cohort halts.
6. `SandboxRace.cfg` (`WinnerIsReused`): `workspace.py:134` says the loser of the race for a snapshot reuses the winner's. `except FileExistsError` sees EEXIST only; Linux says ENOTEMPTY for a directory that is not empty, and the loser's run fails.
7. `ConversationEnvelope.cfg` (`HistoryIsAccepted`): an envelope of a tool with an empty command passes the check for a non-empty one (`action.py:186-192` against 212), is run, and cannot be parsed when the context is built again: the run ends interrupted.
8. `RolloutBudget.cfg` (`BudgetIsShared`): "Budgets remain cumulative across retries and candidates" (`README.md:166`). `consume` refuses a cost that does not fit as a whole (`budget.py:63`), so a request that took too long leaves its tokens uncharged (`runtime.py:317`), and the
   next candidate begins on them (`coordinator.py:49`).

Found while reading, with no configuration of their own:

9. `exhausted_tasks` knows attempts 0 and 1 only, so with `--attempts 3` a task may be retried elsewhere while its third attempt is open.
10. `export_run_to_sft` drops malformed answers while `prepare_aligned_sft.examples` demands all texts (lines 60-62): one malformed answer of one run aborts the whole preparation, against the comment at line 84.
11. `readiness.py:49` says only the immediately following action is evidence of a recovery, and `tests/test_training_readiness.py:87-89` that a stale one earns no credit. Under a bounded policy readiness counts a recovery although a refused finish lies between the refusal and the action, since the context does not show it; under `native` it does not. The context policy `last-action-v2` drops the warning of a refused finish, which makes such a run inconvertible; `train_sft.py` run directly ignores `next_action_only_loss`.
12. A GitHub archive whose unpacking fails leaves its target, and the fallback to a clone refuses the existing directory; a clone that times out is not one of the exceptions `coordinator.py:59` catches.
13. Time of a clean run is missing from its ledger: a workspace is made (a clone may take minutes) before the run sets `clock_at`, `clock_at` is set again before a request is prepared, and a run that ends by a finish, a refusal or a last tool charges nothing after its last charge (`SpendingIsCharged`).
    `total_tokens` of a group omits an interrupted candidate's tokens and `total_duration` the time of evaluations, against `docs/architecture.md:46`; the usage of a paid empty answer is lost when the request after it fails.
14. The selector keeps the first candidate of a diff and with it that one's evidence; a completed run that changed only untracked files can score below an uncompleted one with a patch.
15. `prewarm_baselines.py` asks only for `pipeline.log`, which a pipeline started by hand does not create, and names itself only after hashing the model: a pipeline that joins in between finds no prefetch and both launch Base; the exclusive log decides, and one of them fails.
16. `combine` is not atomic: a pipeline killed while it writes leaves a file its successor takes as it is, if enough of it survives the audit (`torn` in `TrainsOnFrozenExports`, which therefore does not tell a torn file from a whole one). Without any kill the audit may drop exports that `experiment.json` names,
    and only their number is checked, against the minimum.

## What is not modelled

* Torn appended lines: an event or journal line is appended whole or not at all. A torn last line makes every later start raise; it loses no complete record.
* A failure of `git` while a receipt is settled (it ends the process as a raise does elsewhere).
* Two live children of one run directory are in `JobQueue`, where they write checkpoints side by side; `AgentRuntime` has one process at a time.
* Wording: prompts, rendering, the search for JSON in text, secrets and their redaction, the character budget of `harness/context.py`, test selectors and test output, reading endpoints of the API.
* `decide_recovery` (it reports to a caller), the resolution of backends, mounts and the seccomp policy (configuration of the kernel; no command leaves its process group), the local model and the mini-SWE adapter (calls into libraries).
* The quality phase of the collectors, their balance guards and prices; `tasks/*` beyond the outcome of a control: sequential code over validated files.
* The action dataset before the aligned one (`prepare_action_sft.py`), comparison of reports, one-off experiments, audits and probes (`analysis/`, most of `scripts/`): sequential conversions with no state that lasts.
* Numerical training: optimisation, sampling weights, tokenizers. A template is taken to append only, as those of the supported models do.

## Running

`tlc -config JobQueueOneJob.cfg MCJobQueue.tla`, and likewise:

| module | configurations |
|---|---|
| `MCJobQueue` | `JobQueueOneJob`, `JobQueueLiveness`, `JobQueueStaleVerdict`; `JobQueueLateCancel` |
| `MCAgentRuntime` | `AgentRuntimeRecovery`, `AgentRuntimeBudget`; `AgentRuntimeReplay` |
| `MCCampaign` | `CampaignRestart`, `CampaignCohorts`; `CampaignOverlap` |
| `NativeTeacherSafety` | `NativeTeacher`; `NativeTeacherInventory` |
| `MCSandbox` | `Sandbox`; `SandboxRace` |
| `MCConversation` | `Conversation`; `ConversationEnvelope` |
| `MCPipeline` | `Pipeline` |
| `MCRollout` | `Rollout`; `RolloutBudget` |

Those after the semicolon end in a counterexample ([disagreements](#disagreements)), as `JobQueueStaleVerdict` does. Every other run finishes within five minutes with two workers.
`tlapm JobQueueProofs.tla`, and `AgentRuntimeProofs`, `CampaignProofs`, `ConversationProofs`, `NativeTeacherProofs`, `PipelineProofs`, `RolloutProofs`, `SandboxProofs`: a few minutes each.

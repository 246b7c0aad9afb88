--------------------------- MODULE JobQueueSafety ---------------------------
(***************************************************************************)
(* What the job queue and its workers must do and must never do.           *)
(***************************************************************************)
EXTENDS JobQueue

LeaseNumbers == 0 .. MaxClaims

Judgement == [by : LeaseNumbers, verdict : Verdicts]

JobRow == [status : Statuses, lease : LeaseNumbers, fresh : BOOLEAN,
           resumes : Nat, rank : Nat]

PCs == {"reap", "claim", "launch", "poll", "beat", "evaluate", "publish"}

Results == Final \cup Stopped \cup {"absent"}

WorkerState == [pc : PCs, job : Jobs \cup {NoJob}, lease : LeaseNumbers, tries : Nat,
                phase : {"agent", "eval"}, seen : Statuses, stop : BOOLEAN,
                result : Results]

ChildStates == {"none", "starting", "created", "recorded", "running", "ended",
                "loading", "judging", "refused", "exited"}

ChildState == [state : ChildStates, job : Jobs \cup {NoJob},
               resume : BOOLEAN, term : BOOLEAN, code : {0, 1}]

Checkpoints == {"none", "resumable", "unknown", "completed"}

LogNames == {"agent", "eval"} \X Nat

RunDir == [tree : BOOLEAN, run : BOOLEAN, ckpt : Checkpoints,
           writer : LeaseNumbers, summary : LeaseNumbers, evaltree : BOOLEAN,
           eval : Judgement, logs : SUBSET LogNames]

JobHistory == [attempt : LeaseNumbers, publisher : LeaseNumbers, eval : Judgement,
               reaps : Nat, late : BOOLEAN]

Busy(w) == worker[w].pc \notin {"reap", "claim"}

\* The shape of every variable, and that a worker, or a child, with work to do
\* has a job and a lease to do it under.
TypeOK ==
  /\ row \in [Jobs -> JobRow]
  /\ api \in SUBSET Jobs
  /\ worker \in [Workers -> WorkerState]
  /\ child \in [Leases -> ChildState]
  /\ disk \in [Jobs -> RunDir]
  /\ claims \in LeaseNumbers
  /\ crashes \in Nat
  /\ hist \in [Jobs -> JobHistory]
  /\ \A w \in Workers : Busy(w) =>
       worker[w].job \in Jobs /\ worker[w].lease \in Leases
  /\ \A l \in Leases : child[l].state # "none" => child[l].job \in Jobs

-----------------------------------------------------------------------------
(* Safety.                                                                 *)

\* At most one worker holds the current lease of a job, however many stale
\* ones still believe they do (claim, reap_stale, resume).
SingleHolder ==
  \A v, w \in Workers :
    (Busy(v) /\ Busy(w) /\ Holds(v) /\ Holds(w) /\ worker[v].job = worker[w].job) => v = w

\* A verdict in the table was published by the latest attempt: a worker that
\* lost its lease never publishes over a recovered job (finish).
PublishedByLatestAttempt ==
  \A j \in Jobs : row[j].status \in Final => hist[j].publisher = hist[j].attempt

\* Why the two hold.  Leases are handed out once, so two workers at work have
\* different ones; an owned row carries the lease of its latest attempt.  The
\* inductive invariant of the proofs.
LeasesFence ==
  /\ \A w \in Workers : worker[w].lease <= claims
  /\ \A v, w \in Workers :
       (Busy(v) /\ Busy(w) /\ worker[v].lease = worker[w].lease) => v = w
  /\ \A j \in Jobs : row[j].status \in Owned => row[j].lease = hist[j].attempt
  /\ \A j \in Jobs : row[j].status \in Final => hist[j].publisher = hist[j].attempt

\* Two processes work in one run directory only after a heartbeat expired:
\* cancellation, failures of a worker and resumption by themselves never
\* leave a child behind (_execute waits for it, children outlive only a crash).
LiveChildren(j) == {l \in Leases : Alive(l) /\ child[l].job = j}

ChildrenOverlapOnlyAfterReap ==
  \A j \in Jobs : Cardinality(LiveChildren(j)) <= 1 + hist[j].reaps

\* A cancellation accepted before the worker's last look at the row is never
\* overwritten by a verdict (_execute, line 74).
EarlyCancelWins ==
  [][\A j \in Jobs : (row[j].status = "cancelling" /\ row'[j].status \in Final)
                       => hist[j].late]_vars

\* As long as no heartbeat expired, a checkpoint that records an outstanding
\* model or tool outcome, or a finished agent, is moved on only by the process
\* that wrote it: a resumed attempt never picks up what nobody acknowledged,
\* even when the resume request was checked before the outcome became unknown
\* (app.resume, AgentRuntime.run).
OnlyItsWriterSettlesACheckpoint ==
  [][\A j \in Jobs :
       (/\ hist[j].reaps = 0
        /\ disk[j].ckpt \in {"unknown", "completed"}
        /\ disk'[j].ckpt # disk[j].ckpt) => disk'[j].writer = disk[j].writer]_vars

-----------------------------------------------------------------------------
(* Refinement and liveness.                                                *)

\* The status column follows the documented life of a job.
Lifecycle == INSTANCE JobLifecycle WITH status <- [j \in Jobs |-> row[j].status]
ImplementsLifecycle == Lifecycle!Spec

\* A claimed job is decided, stopped or interrupted in the end, whatever its
\* child does and whichever worker dies (deadline, heartbeat and reaper).
ClaimedJobIsReleased == \A j \in Jobs : row[j].status \in Owned ~> row[j].status \notin Owned

-----------------------------------------------------------------------------
(* Claims of the documentation that the code does not keep.                *)

\* service/worker.py:72: "The queue's authoritative request must still win
\* over completion."
CancellationWins ==
  [][\A j \in Jobs : row[j].status = "cancelling" => row'[j].status \notin Final]_vars

\* service/worker.py:125: an evaluation child that wrote no result is
\* published as "evaluation did not produce a result", never as the result of
\* an evaluation of an earlier attempt.
VerdictOfThisAttempt ==
  \A j \in Jobs : row[j].status \in Final => hist[j].eval.by \in {hist[j].attempt, NoLease}
=============================================================================

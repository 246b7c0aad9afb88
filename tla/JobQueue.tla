------------------------------ MODULE JobQueue ------------------------------
(***************************************************************************)
(* The run service: the transactional job table (service/repository.py),   *)
(* the worker processes that drain it (service/worker.py), the resume      *)
(* endpoint of the API (service/app.py) and, seen from the worker, the CLI *)
(* children it starts and the run directory they leave (cli.py).           *)
(*                                                                         *)
(* Every SQL transaction, every file write another actor can observe and   *)
(* every poll of a child is one action, so the races the code has between  *)
(* two of them are behaviours of the model.  A lease is a fresh number:    *)
(* claims counts the leases handed out, as uuid4 never repeats.  Time is   *)
(* abstracted: a heartbeat is fresh or has expired, a deadline passes or   *)
(* does not.                                                               *)
(***************************************************************************)
EXTENDS Integers, FiniteSets

CONSTANTS Jobs,          \* run ids
          Workers,       \* worker processes
          NoJob,         \* a worker that has claimed nothing
          Verdicts,      \* what an evaluation may conclude
          LocalExecutor, \* TRUE: evaluation runs inside the worker process
          MaxResumes,    \* bound: accepted resume requests per job
          MaxClaims,     \* bound: leases handed out in a behaviour
          MaxCrashes     \* bound: workers killed in a behaviour

ASSUME JobQueueAssumption ==
  /\ IsFiniteSet(Jobs)
  /\ NoJob \notin Jobs
  /\ "blocked" \in Verdicts /\ Verdicts \subseteq {"passed", "failed", "blocked"}
  /\ LocalExecutor \in BOOLEAN
  /\ MaxResumes \in Nat
  /\ MaxClaims \in Nat \ {0}
  /\ MaxCrashes \in Nat

NoLease == 0
Leases  == 1 .. MaxClaims

Owned    == {"running", "cancelling"}
Final    == {"completed", "failed", "blocked"}
Stopped  == {"cancelled", "interrupted"}
Statuses == {"absent", "queued"} \cup Owned \cup Final \cup Stopped

VARIABLES
  row,      \* the jobs table; fresh: the heartbeat is less than 60 s old
  api,      \* jobs whose resume request has passed the checkpoint check
  worker,   \* the local variables of each worker process
  child,    \* the CLI process started under each lease
  disk,     \* the run directory of each job
  claims,   \* leases handed out so far
  crashes,  \* workers killed so far
  hist      \* history, read by no action: what each job went through

vars == <<row, api, worker, child, disk, claims, crashes, hist>>

IdleWorker == [pc |-> "reap", job |-> NoJob, lease |-> NoLease, tries |-> 0,
               phase |-> "agent", seen |-> "absent", stop |-> FALSE,
               result |-> "absent"]

NoChild == [state |-> "none", job |-> NoJob, resume |-> FALSE,
            term |-> FALSE, code |-> 0]

NoEval == [by |-> NoLease, verdict |-> "blocked"]

EmptyDir == [tree |-> FALSE, run |-> FALSE, ckpt |-> "none", writer |-> NoLease,
             summary |-> NoLease, evaltree |-> FALSE, eval |-> NoEval,
             logs |-> {}]

Init ==
  /\ row = [j \in Jobs |-> [status |-> "absent", lease |-> NoLease,
                            fresh |-> FALSE, resumes |-> 0, rank |-> 0]]
  /\ api = {}
  /\ worker = [w \in Workers |-> IdleWorker]
  /\ child = [l \in Leases |-> NoChild]
  /\ disk = [j \in Jobs |-> EmptyDir]
  /\ claims = 0
  /\ crashes = 0
  /\ hist = [j \in Jobs |-> [attempt |-> NoLease, publisher |-> NoLease,
                             eval |-> NoEval, reaps |-> 0, late |-> FALSE]]

-----------------------------------------------------------------------------
(* The API: submit, cancel and the two halves of resume.                   *)

Submit(j) ==
  /\ row[j].status = "absent"
  /\ row' = [row EXCEPT ![j].status = "queued",
                        ![j].rank = Cardinality({k \in Jobs : row[k].rank > 0}) + 1]
  /\ UNCHANGED <<api, worker, child, disk, claims, crashes, hist>>

\* The worker past its last look at the row cannot notice a cancellation.
PastLastCheck(j) ==
  \E w \in Workers : /\ worker[w].job = j
                     /\ worker[w].lease = row[j].lease
                     /\ worker[w].pc = "publish" \/ (LocalExecutor /\ worker[w].pc = "evaluate")

Cancel(j) ==
  /\ row[j].status \in {"queued", "running"}
  /\ row' = [row EXCEPT ![j].status = IF @ = "queued" THEN "cancelled" ELSE "cancelling"]
  /\ hist' = [hist EXCEPT ![j].late = row[j].status = "running" /\ PastLastCheck(j)]
  /\ UNCHANGED <<api, worker, child, disk, claims, crashes>>

\* The endpoint reads the checkpoint before it touches the row.
CheckResume(j) ==
  /\ row[j].status # "absent"
  /\ row[j].resumes < MaxResumes
  /\ j \notin api
  /\ disk[j].ckpt \in {"none", "resumable"}
  /\ api' = api \cup {j}
  /\ UNCHANGED <<row, worker, child, disk, claims, crashes, hist>>

NextAttempt(n) == n + 1

Resume(j) ==
  /\ j \in api
  /\ api' = api \ {j}
  /\ row' = IF row[j].status \in Stopped
            THEN [row EXCEPT ![j].status = "queued", ![j].lease = NoLease,
                             ![j].resumes = NextAttempt(@)]
            ELSE row
  /\ UNCHANGED <<worker, child, disk, claims, crashes, hist>>

\* Sixty seconds pass without a heartbeat: the worker died, stalled, or is in
\* its own process evaluating.
Expire(j) ==
  /\ row[j].status \in Owned
  /\ row[j].fresh
  /\ row' = [row EXCEPT ![j].fresh = FALSE]
  /\ UNCHANGED <<api, worker, child, disk, claims, crashes, hist>>

-----------------------------------------------------------------------------
(* The worker: run_once and the polling loop of _execute.                  *)

At(w, pc) == worker[w].pc = pc

Alive(l) == child[l].state \notin {"none", "exited"}

\* All that is left of an exited process is its return code.
Exit(l, code) ==
  [child EXCEPT ![l] = [NoChild EXCEPT !.state = "exited", !.job = child[l].job, !.code = code]]

Kill(l) == Exit(l, 1)

Stale_AnyStatus(j) == row[j].rank > 0 /\ ~row[j].fresh

Stale(j) == row[j].status \in Owned /\ ~row[j].fresh

Reap(w) ==
  /\ At(w, "reap")
  /\ row' = [j \in Jobs |-> IF Stale(j)
                            THEN [row[j] EXCEPT !.status = "interrupted", !.lease = NoLease]
                            ELSE row[j]]
  /\ hist' = [j \in Jobs |-> IF Stale(j) THEN [hist[j] EXCEPT !.reaps = @ + 1] ELSE hist[j]]
  /\ worker' = [worker EXCEPT ![w].pc = "claim"]
  /\ UNCHANGED <<api, child, disk, claims, crashes>>

Queued == {j \in Jobs : row[j].status = "queued"}

Oldest(j) == j \in Queued /\ \A k \in Queued : row[j].rank <= row[k].rank

NewLease(j) == claims + 1

Claim(w, j) ==
  /\ At(w, "claim")
  /\ Oldest(j)
  /\ claims < MaxClaims
  /\ claims' = claims + 1
  /\ row' = [row EXCEPT ![j].status = "running", ![j].lease = NewLease(j), ![j].fresh = TRUE]
  /\ worker' = [worker EXCEPT ![w] = [IdleWorker EXCEPT !.pc = "launch", !.job = j,
                                        !.lease = NewLease(j), !.tries = row[j].resumes]]
  /\ hist' = [hist EXCEPT ![j].attempt = NewLease(j), ![j].late = FALSE]
  /\ UNCHANGED <<api, child, disk, crashes>>

ClaimNothing(w) ==
  /\ At(w, "claim")
  /\ Queued = {}
  /\ worker' = [worker EXCEPT ![w].pc = "reap"]
  /\ UNCHANGED <<row, api, child, disk, claims, crashes, hist>>

\* The log of an attempt is opened with "x": it must not exist yet.
LogName(w) == <<worker[w].phase, worker[w].tries>>

Launch(w) ==
  LET j == worker[w].job
      l == worker[w].lease
  IN  /\ At(w, "launch")
      /\ IF LogName(w) \in disk[j].logs
         THEN /\ worker' = [worker EXCEPT ![w].pc = "publish", ![w].result = "interrupted"]
              /\ UNCHANGED <<child, disk>>
         ELSE /\ disk' = [disk EXCEPT ![j].logs = @ \cup {LogName(w)}]
              /\ child' = [child EXCEPT ![l] =
                   [state |-> IF worker[w].phase = "agent" THEN "starting" ELSE "loading",
                    job |-> j, resume |-> worker[w].tries > 0 /\ disk[j].run,
                    term |-> FALSE, code |-> 0]]
              /\ worker' = [worker EXCEPT ![w].pc = "poll", ![w].stop = FALSE]
      /\ UNCHANGED <<row, api, claims, crashes, hist>>

PollRead(w) ==
  /\ At(w, "poll")
  /\ Alive(worker[w].lease)
  /\ worker' = [worker EXCEPT ![w].pc = "beat", ![w].seen = row[worker[w].job].status]
  /\ UNCHANGED <<row, api, child, disk, claims, crashes, hist>>

Holds_ByStatus(w) == row[worker[w].job].status \in Owned

Holds(w) ==
  LET j == worker[w].job
  IN  row[j].lease = worker[w].lease /\ row[j].status \in Owned

\* expired: the subprocess deadline has passed.
MustStop_NoDeadline(w, expired) == ~Holds(w) \/ worker[w].seen = "cancelling"

MustStop(w, expired) == ~Holds(w) \/ worker[w].seen = "cancelling" \/ expired

\* overdue: ten seconds have passed since SIGTERM.
PollBeat(w, expired, overdue) ==
  LET l == worker[w].lease
      stop == MustStop(w, expired)
  IN  /\ At(w, "beat")
      /\ row' = IF Holds(w) THEN [row EXCEPT ![worker[w].job].fresh = TRUE] ELSE row
      /\ child' = IF ~stop \/ ~Alive(l) THEN child
                  ELSE IF ~worker[w].stop THEN [child EXCEPT ![l].term = TRUE]
                  ELSE IF overdue THEN Kill(l) ELSE child
      /\ worker' = [worker EXCEPT ![w].pc = "poll", ![w].seen = "absent", ![w].stop = @ \/ stop]
      /\ UNCHANGED <<api, disk, claims, crashes, hist>>

Outcome_Raw(verdict) == verdict

Outcome(verdict) == IF verdict = "passed" THEN "completed" ELSE verdict

\* The row is read once more after the child's exit.
CancelledAtExit_StopOnly(w) == worker[w].stop

CancelledAtExit(w) == worker[w].stop \/ row[worker[w].job].status = "cancelling"

\* The branch of run_once.  The verdict is that of the last evaluation event
\* in the run directory; the exit code of the evaluation is not looked at.
Confirm(w) ==
  LET j == worker[w].job
      judged == worker[w].phase = "eval"
      code == child[worker[w].lease].code
      Goto(pc, result) == worker' = [worker EXCEPT ![w].pc = pc, ![w].result = result]
  IN  /\ At(w, "poll")
      /\ ~Alive(worker[w].lease)
      /\ \/ CancelledAtExit(w) /\ Goto("publish", "cancelled") /\ UNCHANGED hist
         \/ /\ ~CancelledAtExit(w) /\ judged
            /\ Goto("publish", Outcome(disk[j].eval.verdict))
            /\ hist' = [hist EXCEPT ![j].eval = disk[j].eval]
         \/ /\ ~CancelledAtExit(w) /\ ~judged
            /\ IF code = 0 THEN Goto("evaluate", "absent") ELSE Goto("publish", "interrupted")
            /\ UNCHANGED hist
      /\ UNCHANGED <<row, api, child, disk, claims, crashes>>

\* Isolated executor: a second child, under the same lease, evaluates.
EvaluateInChild(w) ==
  /\ At(w, "evaluate")
  /\ ~LocalExecutor
  /\ worker' = [worker EXCEPT ![w].pc = "launch", ![w].phase = "eval"]
  /\ UNCHANGED <<row, api, child, disk, claims, crashes, hist>>

\* Evaluator.evaluate prepares a fresh directory and is blocked by an old one.
MayJudge(j, v) == v \in Verdicts /\ (disk[j].evaltree => v = "blocked")

\* Demo executor: evaluation inside the worker, with no heartbeat meanwhile.
EvaluateInProcess(w, v) ==
  LET j == worker[w].job
      e == [by |-> worker[w].lease, verdict |-> v]
  IN  /\ At(w, "evaluate")
      /\ LocalExecutor
      /\ MayJudge(j, v)
      /\ disk' = [disk EXCEPT ![j].evaltree = TRUE]
      /\ hist' = [hist EXCEPT ![j].eval = e]
      /\ worker' = [worker EXCEPT ![w].pc = "publish", ![w].result = Outcome(v)]
      /\ UNCHANGED <<row, api, child, claims, crashes>>

Publish(w) ==
  LET j == worker[w].job
  IN  /\ At(w, "publish")
      /\ row' = IF Holds(w)
                THEN [row EXCEPT ![j].status = worker[w].result, ![j].lease = NoLease]
                ELSE row
      /\ hist' = IF Holds(w) THEN [hist EXCEPT ![j].publisher = worker[w].lease] ELSE hist
      /\ worker' = [worker EXCEPT ![w] = IdleWorker]
      /\ UNCHANGED <<api, child, disk, claims, crashes>>

AfterRaise_Abandoned(l) == child

AfterRaise(l) == IF Alive(l) THEN Kill(l) ELSE child

\* Any exception inside run_once: the child is killed, the row interrupted.
WorkerRaises(w) ==
  /\ worker[w].pc \in {"launch", "poll", "beat", "evaluate", "publish"}
  /\ child' = AfterRaise(worker[w].lease)
  /\ worker' = [worker EXCEPT ![w].pc = "publish", ![w].result = "interrupted"]
  /\ UNCHANGED <<row, api, disk, claims, crashes, hist>>

\* SIGKILL or power loss of the worker alone: its child has its own session
\* and lives on.
WorkerCrash(w) ==
  /\ ~At(w, "reap")
  /\ crashes < MaxCrashes
  /\ crashes' = crashes + 1
  /\ worker' = [worker EXCEPT ![w] = IdleWorker]
  /\ UNCHANGED <<row, api, child, disk, claims, hist>>

-----------------------------------------------------------------------------
(* The children: "run" and "evaluate-run" of cli.py.                       *)

In(l, s) == child[l].state = s

Enter(l, s) == [child EXCEPT ![l].state = s]

ChildOnly == UNCHANGED <<row, api, worker, claims, crashes, hist>>

Save(l, c) == [disk EXCEPT ![child[l].job].ckpt = c, ![child[l].job].writer = l]

Resumable_Any(c) == c # "none"

Resumable(c) == c = "resumable"

\* --resume: the runtime refuses anything but a resumable checkpoint.
AgentResume(l) ==
  /\ In(l, "starting")
  /\ child[l].resume
  /\ child' = IF Resumable(disk[child[l].job].ckpt) THEN Enter(l, "running") ELSE Exit(l, 1)
  /\ UNCHANGED disk
  /\ ChildOnly

\* A first run creates the workspace, refusing one that exists ...
AgentCreate(l) ==
  LET j == child[l].job
  IN  /\ In(l, "starting")
      /\ ~child[l].resume
      /\ IF disk[j].tree
         THEN child' = Exit(l, 1) /\ UNCHANGED disk
         ELSE child' = Enter(l, "created") /\ disk' = [disk EXCEPT ![j].tree = TRUE]
      /\ ChildOnly

\* ... then run.json, then the first checkpoint.
AgentInit(l) ==
  LET j == child[l].job
  IN  /\ In(l, "created")
      /\ IF disk[j].run
         THEN child' = Exit(l, 1) /\ UNCHANGED disk
         ELSE child' = Enter(l, "recorded") /\ disk' = [disk EXCEPT ![j].run = TRUE]
      /\ ChildOnly

AgentCheckpoint(l) ==
  /\ In(l, "recorded")
  /\ child' = Enter(l, "running")
  /\ disk' = Save(l, "resumable")
  /\ ChildOnly

\* A model request or a tool action becomes outstanding, or is acknowledged.
AgentWork(l, c) ==
  /\ In(l, "running")
  /\ c \in {"resumable", "unknown"}
  /\ disk[child[l].job].ckpt # c
  /\ disk' = Save(l, c)
  /\ UNCHANGED child
  /\ ChildOnly

\* The final checkpoint; the summary is a second write.  Only the tests of the
\* loop observe SIGTERM, so a signalled run may still end on its own.  A budget
\* block right after a model answer leaves the request outstanding.
AgentFinal(l, c, code) ==
  LET j == child[l].job
  IN  /\ In(l, "running")
      /\ \/ c = "completed" /\ disk[j].ckpt = "resumable" /\ code = 0
         \/ c = disk[j].ckpt /\ code = 0
         \/ c = "resumable" /\ disk[j].ckpt = c /\ child[l].term /\ code = 1
      /\ disk' = Save(l, c)
      /\ child' = [child EXCEPT ![l].state = "ended", ![l].code = code]
      /\ ChildOnly

\* A cancelled run exits 130; any other, even a failed one, exits 0.
AgentSummary(l) ==
  /\ In(l, "ended")
  /\ disk' = [disk EXCEPT ![child[l].job].summary = l]
  /\ child' = Exit(l, child[l].code)
  /\ ChildOnly

\* evaluate-run needs a summary and prepares a fresh evaluation directory.
EvalLoad(l) ==
  LET j == child[l].job
  IN  /\ In(l, "loading")
      /\ IF disk[j].summary = NoLease
         THEN child' = Exit(l, 1) /\ UNCHANGED disk
         ELSE IF disk[j].evaltree
         THEN child' = Enter(l, "refused") /\ UNCHANGED disk
         ELSE child' = Enter(l, "judging") /\ disk' = [disk EXCEPT ![j].evaltree = TRUE]
      /\ ChildOnly

EvalReport(l, v) ==
  LET j == child[l].job
  IN  /\ child[l].state \in {"judging", "refused"}
      /\ v \in Verdicts
      /\ In(l, "refused") => v = "blocked"
      /\ disk' = [disk EXCEPT ![j].eval = [by |-> l, verdict |-> v]]
      /\ child' = Exit(l, IF v = "passed" THEN 0 ELSE 1)
      /\ ChildOnly

\* An exception, an OOM kill or a signal ends a child wherever it is.
ChildDies(l) ==
  /\ Alive(l)
  /\ child' = Exit(l, 1)
  /\ UNCHANGED disk
  /\ ChildOnly

-----------------------------------------------------------------------------
ApiStep == \E j \in Jobs : Submit(j) \/ Cancel(j) \/ CheckResume(j) \/ Resume(j)

Beat(w) == \E expired, overdue \in BOOLEAN : PollBeat(w, expired, overdue)

WorkerStep(w) ==
  \/ Reap(w)
  \/ \E j \in Jobs : Claim(w, j)
  \/ ClaimNothing(w)
  \/ Launch(w)
  \/ PollRead(w)
  \/ Beat(w)
  \/ Confirm(w)
  \/ EvaluateInChild(w)
  \/ \E v \in Verdicts : EvaluateInProcess(w, v)
  \/ Publish(w)

ChildStep(l) ==
  \/ AgentResume(l) \/ AgentCreate(l) \/ AgentInit(l) \/ AgentCheckpoint(l)
  \/ \E c \in {"resumable", "unknown", "completed"} :
       AgentWork(l, c) \/ \E code \in {0, 1} : AgentFinal(l, c, code)
  \/ AgentSummary(l)
  \/ EvalLoad(l)
  \/ \E v \in Verdicts : EvalReport(l, v)
  \/ ChildDies(l)

Next ==
  \/ ApiStep
  \/ \E j \in Jobs : Expire(j)
  \/ \E w \in Workers : WorkerStep(w) \/ WorkerRaises(w) \/ WorkerCrash(w)
  \/ \E l \in Leases : ChildStep(l)

Spec == Init /\ [][Next]_vars

\* A worker that died leaves its row to the clock.
Orphaned(j) == \A w \in Workers : worker[w].lease # row[j].lease

(***************************************************************************)
(* Fairness: a worker process keeps running (main loops for ever), time    *)
(* passes, so that the deadline of a child and the ten seconds after its   *)
(* SIGTERM are reached in the end, and an orphaned heartbeat expires.  No  *)
(* child is assumed to make progress of its own.                           *)
(***************************************************************************)
Fairness ==
  /\ \A w \in Workers : /\ WF_vars(WorkerStep(w))
                        /\ SF_vars(PollBeat(w, TRUE, TRUE))
  /\ \A j \in Jobs : WF_vars(Orphaned(j) /\ Expire(j))

FairSpec == Spec /\ Fairness
=============================================================================

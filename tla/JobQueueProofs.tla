--------------------------- MODULE JobQueueProofs ---------------------------
(***************************************************************************)
(* For every set of jobs and workers and every bound: the queue is type    *)
(* correct, a lease has one holder and only the latest attempt publishes;  *)
(* the status column implements the life cycle of a job, an early          *)
(* cancellation wins, children overlap only after a reaped heartbeat, and  *)
(* a checkpoint is settled by its writer.                                  *)
(***************************************************************************)
EXTENDS JobQueueSafety, FiniteSetTheorems, TLAPS

\* The initial state is well typed.
LEMMA InitTyping == Init => TypeOK
<1> USE JobQueueAssumption
<1>1. /\ NoEval \in Judgement /\ IdleWorker \in WorkerState /\ NoChild \in ChildState
  BY DEF IdleWorker, NoChild, NoEval, NoLease, LeaseNumbers, Judgement, WorkerState,
         ChildState, Owned, Final, Stopped, Statuses, PCs, Results, ChildStates
<1>2. EmptyDir \in RunDir
  BY <1>1 DEF EmptyDir, RunDir, Checkpoints, NoLease, LeaseNumbers
<1> SUFFICES ASSUME Init PROVE TypeOK
  OBVIOUS
<1>3. row \in [Jobs -> JobRow] /\ hist \in [Jobs -> JobHistory]
  BY <1>1 DEF Init, JobRow, JobHistory, NoLease, LeaseNumbers, Statuses
<1>4. worker \in [Workers -> WorkerState] /\ child \in [Leases -> ChildState]
  BY <1>1 DEF Init
<1>5. disk \in [Jobs -> RunDir] /\ api \in SUBSET Jobs /\ claims \in LeaseNumbers /\ crashes \in Nat
  BY <1>2 DEF Init, LeaseNumbers
<1> QED
  BY <1>3, <1>4, <1>5 DEF Init, TypeOK, Busy, IdleWorker, NoChild

\* An exited child is well typed, and so is one that moved on.
LEMMA ExitTyping ==
  ASSUME TypeOK, NEW l \in Leases, child[l].state # "none", NEW code \in {0, 1}
  PROVE  /\ Exit(l, code) \in [Leases -> ChildState]
         /\ \A k \in Leases : Exit(l, code)[k].state # "none" => Exit(l, code)[k].job \in Jobs
BY DEF TypeOK, Exit, NoChild, NoLease, ChildState, ChildStates

\* Every step of the API and of the clock keeps the types.
LEMMA ApiTyping ==
  ASSUME TypeOK, NEW j \in Jobs,
         Submit(j) \/ Cancel(j) \/ CheckResume(j) \/ Resume(j) \/ Expire(j)
  PROVE  TypeOK'
<1> USE DEF TypeOK, Busy, JobRow, Statuses, Owned
<1>1. CASE Submit(j)
  <2> DEFINE Ranked == {k \in Jobs : row[k].rank > 0}
  <2>1. Cardinality(Ranked) \in Nat
    BY JobQueueAssumption, FS_Subset, FS_CardinalityType
  <2> DEFINE n == Cardinality(Ranked) + 1
  <2>2. n \in Nat
    BY <2>1
  <2>3. row' = [row EXCEPT ![j].status = "queued", ![j].rank = n]
    BY <1>1 DEF Submit
  <2>4. UNCHANGED <<api, worker, child, disk, claims, crashes, hist>>
    BY <1>1 DEF Submit
  <2> HIDE DEF n
  <2>5. row' \in [Jobs -> JobRow]
    BY <2>2, <2>3
  <2> QED
    BY <2>4, <2>5
<1>2. CASE Cancel(j)
  <2> DEFINE late == row[j].status = "running" /\ PastLastCheck(j)
  <2>1. late \in BOOLEAN
    OBVIOUS
  <2>2. /\ row' = [row EXCEPT ![j].status = IF @ = "queued" THEN "cancelled" ELSE "cancelling"]
        /\ hist' = [hist EXCEPT ![j].late = late]
        /\ UNCHANGED <<api, worker, child, disk, claims, crashes>>
    BY <1>2 DEF Cancel
  <2> HIDE DEF late
  <2>3. row' \in [Jobs -> JobRow]
    BY <2>2 DEF Stopped
  <2>4. hist' \in [Jobs -> JobHistory]
    BY <2>1, <2>2 DEF JobHistory
  <2> QED
    BY <2>2, <2>3, <2>4
<1>3. CASE CheckResume(j)
  BY <1>3 DEF CheckResume
<1>4. CASE Resume(j)
  BY <1>4, JobQueueAssumption DEF Resume, NextAttempt, NoLease, LeaseNumbers
<1>5. CASE Expire(j)
  BY <1>5 DEF Expire
<1> QED
  BY <1>1, <1>2, <1>3, <1>4, <1>5

\* A worker that has claimed a job has one.
LEMMA BusyTyping ==
  ASSUME TypeOK, NEW w \in Workers, worker[w].pc \notin {"reap", "claim"}
  PROVE  worker[w].job \in Jobs /\ worker[w].lease \in Leases
BY DEF TypeOK, Busy

\* Every step of a worker keeps the types.
LEMMA WorkerTyping ==
  ASSUME TypeOK, NEW w \in Workers, WorkerStep(w) \/ WorkerRaises(w) \/ WorkerCrash(w)
  PROVE  TypeOK'
<1>a. row \in [Jobs -> JobRow] /\ hist \in [Jobs -> JobHistory]
  BY DEF TypeOK
<1>b. worker \in [Workers -> WorkerState] /\ IdleWorker \in WorkerState
  BY JobQueueAssumption DEF TypeOK, IdleWorker, WorkerState, NoLease, LeaseNumbers, Statuses,
         PCs, Results
<1>c. child \in [Leases -> ChildState] /\ disk \in [Jobs -> RunDir]
  BY DEF TypeOK
<1>d. \A j \in Jobs : /\ row[j].status \in Statuses /\ row[j].resumes \in Nat
                      /\ disk[j].eval \in Judgement /\ row[j] \in JobRow /\ hist[j] \in JobHistory
  BY <1>a, <1>c DEF JobRow, RunDir
<1>e. /\ worker[w].result \in Results
      /\ worker[w].phase \in {"agent", "eval"} /\ worker[w].tries \in Nat
      /\ worker[w].lease \in LeaseNumbers
  BY <1>b DEF WorkerState
<1>f. ASSUME NEW pc \in PCs, NEW r \in Results
      PROVE  /\ [worker EXCEPT ![w].pc = pc] \in [Workers -> WorkerState]
             /\ [worker EXCEPT ![w].pc = pc, ![w].result = r] \in [Workers -> WorkerState]
  BY <1>b DEF WorkerState
<1>g. "reap" \in PCs /\ "claim" \in PCs /\ "poll" \in PCs /\ "evaluate" \in PCs /\ "publish" \in PCs
  BY DEF PCs
<1>h. /\ Final \subseteq Results /\ "interrupted" \in Results /\ "cancelled" \in Results
      /\ "absent" \in Results
  BY DEF Results, Stopped
<1>1. CASE Reap(w)
  <2>1. ASSUME NEW j \in Jobs
        PROVE  /\ [row[j] EXCEPT !.status = "interrupted", !.lease = NoLease] \in JobRow
               /\ [hist[j] EXCEPT !.reaps = @ + 1] \in JobHistory
    <3>1. "interrupted" \in Statuses /\ NoLease \in LeaseNumbers
      BY JobQueueAssumption DEF NoLease, LeaseNumbers, Statuses, Stopped
    <3>2. [row[j] EXCEPT !.status = "interrupted", !.lease = NoLease] \in JobRow
      BY <1>d, <3>1 DEF JobRow
    <3>3. [hist[j] EXCEPT !.reaps = @ + 1] \in JobHistory
      BY <1>d DEF JobHistory
    <3> QED
      BY <3>2, <3>3
  <2>2. row' \in [Jobs -> JobRow] /\ hist' \in [Jobs -> JobHistory]
    BY <1>1, <1>d, <2>1 DEF Reap
  <2>3. worker' \in [Workers -> WorkerState]
    BY <1>1, <1>f, <1>g, <1>h DEF Reap
  <2>4. /\ worker' = [worker EXCEPT ![w].pc = "claim"]
        /\ UNCHANGED <<api, child, disk, claims, crashes>>
    BY <1>1 DEF Reap
  <2> QED
    BY <2>2, <2>3, <2>4 DEF TypeOK, Busy
<1>2. ASSUME NEW j \in Jobs, Claim(w, j) PROVE TypeOK'
  <2>1. claims + 1 \in Leases /\ claims + 1 \in LeaseNumbers
    BY <1>2, JobQueueAssumption DEF Claim, Leases, LeaseNumbers, TypeOK
  <2> DEFINE n == claims + 1
             s == [IdleWorker EXCEPT !.pc = "launch", !.job = j, !.lease = n, !.tries = row[j].resumes]
  <2>2. /\ row' = [row EXCEPT ![j].status = "running", ![j].lease = n, ![j].fresh = TRUE]
        /\ worker' = [worker EXCEPT ![w] = s]
        /\ hist' = [hist EXCEPT ![j].attempt = n, ![j].late = FALSE]
        /\ claims' = n
        /\ UNCHANGED <<api, child, disk, crashes>>
    BY <1>2 DEF Claim, NewLease
  <2>3. n \in Leases /\ n \in LeaseNumbers
    BY <2>1
  <2> HIDE DEF n
  <2>4. s \in WorkerState /\ s.job = j /\ s.lease = n
    BY <1>b, <1>d, <2>3 DEF WorkerState, IdleWorker, PCs
  <2> HIDE DEF s
  <2>5. row' \in [Jobs -> JobRow]
    BY <1>a, <2>2, <2>3, ZenonT(40) DEF JobRow, Statuses, Owned
  <2>6. hist' \in [Jobs -> JobHistory]
    BY <1>a, <2>2, <2>3 DEF JobHistory
  <2>7. worker' \in [Workers -> WorkerState]
    BY <1>b, <2>2, <2>4
  <2> QED
    BY <2>2, <2>3, <2>4, <2>5, <2>6, <2>7 DEF TypeOK, Busy
<1>3. CASE ClaimNothing(w)
  <2>1. worker' \in [Workers -> WorkerState]
    BY <1>3, <1>f, <1>g, <1>h DEF ClaimNothing
  <2> QED
    BY <1>3, <2>1 DEF ClaimNothing, TypeOK, Busy
<1>4. CASE Launch(w)
  <2>1. worker[w].job \in Jobs /\ worker[w].lease \in Leases
    BY <1>4, BusyTyping DEF Launch, At
  <2>2. worker' \in [Workers -> WorkerState]
    <3>1. [worker EXCEPT ![w].pc = "poll", ![w].stop = FALSE] \in [Workers -> WorkerState]
      BY <1>b, <1>g DEF WorkerState
    <3>2. \/ worker' = [worker EXCEPT ![w].pc = "publish", ![w].result = "interrupted"]
          \/ worker' = [worker EXCEPT ![w].pc = "poll", ![w].stop = FALSE]
      BY <1>4 DEF Launch
    <3>3. [worker EXCEPT ![w].pc = "publish", ![w].result = "interrupted"] \in [Workers -> WorkerState]
      BY <1>f, <1>g, <1>h
    <3> QED
      BY <3>1, <3>2, <3>3, Zenon
  <2>3. disk' \in [Jobs -> RunDir]
    BY <1>4, <1>c, <1>e, <2>1 DEF Launch, LogName, LogNames, RunDir
  <2>4. /\ child' \in [Leases -> ChildState]
        /\ \A l \in Leases : child'[l].state # "none" => child'[l].job \in Jobs
    <3>1. CASE child' = child
      BY <1>c, <3>1 DEF TypeOK
    <3>2. ASSUME NEW c \in ChildState, c.job \in Jobs, child' = [child EXCEPT ![worker[w].lease] = c]
          PROVE  <2>4!1 /\ <2>4!2
      BY <1>c, <2>1, <3>2 DEF TypeOK
    <3> DEFINE c == [state |-> IF worker[w].phase = "agent" THEN "starting" ELSE "loading",
                     job |-> worker[w].job,
                     resume |-> worker[w].tries > 0 /\ disk[worker[w].job].run,
                     term |-> FALSE, code |-> 0]
    <3>3. c \in ChildState /\ c.job \in Jobs
      BY <2>1 DEF ChildState, ChildStates
    <3>4. child' = child \/ child' = [child EXCEPT ![worker[w].lease] = c]
      BY <1>4 DEF Launch
    <3> HIDE DEF c
    <3> QED
      BY <3>1, <3>2, <3>3, <3>4
  <2>5. UNCHANGED <<row, api, claims, crashes, hist>>
    BY <1>4 DEF Launch
  <2>6. \A v \in Workers : /\ worker'[v].job = worker[v].job
                           /\ worker'[v].lease = worker[v].lease
                           /\ Busy(v)' => Busy(v)
    <3>1. \/ worker' = [worker EXCEPT ![w].pc = "publish", ![w].result = "interrupted"]
          \/ worker' = [worker EXCEPT ![w].pc = "poll", ![w].stop = FALSE]
      BY <1>4 DEF Launch
    <3>2. Busy(w)
      BY <1>4 DEF Launch, At, Busy
    <3> QED
      BY <1>b, <3>1, <3>2 DEF Busy, WorkerState
  <2> QED
    BY <2>2, <2>3, <2>4, <2>5, <2>6 DEF TypeOK
<1>5. CASE PollRead(w)
  <2>1. worker[w].job \in Jobs /\ worker[w].lease \in Leases
    BY <1>5, BusyTyping DEF PollRead, At
  <2>2. worker' \in [Workers -> WorkerState]
    BY <1>5, <1>b, <1>d, <2>1, ZenonT(40) DEF PollRead, WorkerState, PCs
  <2> QED
    BY <1>5, <2>1, <2>2 DEF PollRead, TypeOK, Busy
<1>6. CASE Beat(w)
  <2> PICK expired \in BOOLEAN, overdue \in BOOLEAN : PollBeat(w, expired, overdue)
    BY <1>6 DEF Beat
  <2>1. worker[w].job \in Jobs /\ worker[w].lease \in Leases
    BY BusyTyping DEF PollBeat, At
  <2>2. row' \in [Jobs -> JobRow]
    BY <1>a DEF PollBeat, JobRow
  <2>3. worker' \in [Workers -> WorkerState]
    <3> DEFINE s == worker[w].stop \/ MustStop(w, expired)
    <3>1. worker' = [worker EXCEPT ![w].pc = "poll", ![w].seen = "absent", ![w].stop = s]
      BY DEF PollBeat
    <3>2. s \in BOOLEAN /\ "absent" \in Statuses
      BY DEF Statuses
    <3> HIDE DEF s
    <3> QED
      BY <1>b, <1>g, <3>1, <3>2, ZenonT(40) DEF WorkerState
  <2>4. /\ child' \in [Leases -> ChildState]
        /\ \A l \in Leases : child'[l].state # "none" => child'[l].job \in Jobs
    <3>1. CASE child' = child
      BY <1>c, <3>1 DEF TypeOK
    <3>2. CASE child' = [child EXCEPT ![worker[w].lease].term = TRUE]
      <4>1. child' \in [Leases -> ChildState]
        BY <1>c, <2>1, <3>2 DEF ChildState
      <4>2. \A l \in Leases : child'[l].state = child[l].state /\ child'[l].job = child[l].job
        BY <1>c, <2>1, <3>2 DEF ChildState
      <4> QED
        BY <4>1, <4>2 DEF TypeOK
    <3>3. CASE Alive(worker[w].lease) /\ child' = Exit(worker[w].lease, 1)
      BY <2>1, <3>3, ExitTyping DEF Alive
    <3> QED
      BY <3>1, <3>2, <3>3 DEF PollBeat, Kill
  <2> QED
    BY <2>1, <2>2, <2>3, <2>4 DEF PollBeat, TypeOK, Busy
<1>7. CASE Confirm(w)
  <2>1. worker[w].job \in Jobs /\ worker[w].lease \in Leases
    BY <1>7, BusyTyping DEF Confirm, At
  <2>2. Outcome(disk[worker[w].job].eval.verdict) \in Final
    BY JobQueueAssumption, <1>d, <2>1 DEF Outcome, Judgement, Final
  <2>5. \E pc \in {"publish", "evaluate"} :
          \E res \in {"cancelled", "interrupted", "absent", Outcome(disk[worker[w].job].eval.verdict)} :
            worker' = [worker EXCEPT ![w].pc = pc, ![w].result = res]
    BY <1>7 DEF Confirm
  <2>3. worker' \in [Workers -> WorkerState]
    <3>1. PICK pc \in {"publish", "evaluate"},
               res \in {"cancelled", "interrupted", "absent", Outcome(disk[worker[w].job].eval.verdict)} :
                 worker' = [worker EXCEPT ![w].pc = pc, ![w].result = res]
      BY <2>5
    <3>2. pc \in PCs /\ res \in Results
      BY <1>g, <1>h, <2>2
    <3> QED
      BY <1>f, <3>1, <3>2, Zenon
  <2>4. hist' \in [Jobs -> JobHistory]
    BY <1>7, <1>a, <1>d, <2>1 DEF Confirm, JobHistory
  <2> QED
    <3>1. \A v \in Workers : /\ worker'[v].job = worker[v].job
                             /\ worker'[v].lease = worker[v].lease
                             /\ Busy(v)' => Busy(v) \/ v = w
      BY <1>b, <2>5 DEF Busy, WorkerState
    <3>2. UNCHANGED <<row, api, child, disk, claims, crashes>>
      BY <1>7 DEF Confirm
    <3> QED
      BY <2>1, <2>3, <2>4, <3>1, <3>2 DEF TypeOK
<1>8. CASE EvaluateInChild(w)
  <2>1. worker[w].job \in Jobs /\ worker[w].lease \in Leases
    BY <1>8, BusyTyping DEF EvaluateInChild, At
  <2>2. worker' \in [Workers -> WorkerState]
    BY <1>8, <1>b, ZenonT(40) DEF EvaluateInChild, WorkerState, PCs
  <2> QED
    BY <1>8, <2>1, <2>2 DEF EvaluateInChild, TypeOK, Busy
<1>9. ASSUME NEW v \in Verdicts, EvaluateInProcess(w, v) PROVE TypeOK'
  <2>1. worker[w].job \in Jobs /\ worker[w].lease \in Leases
    BY <1>9, BusyTyping DEF EvaluateInProcess, At
  <2>2. [by |-> worker[w].lease, verdict |-> v] \in Judgement
    BY <1>e DEF Judgement
  <2>3. disk' \in [Jobs -> RunDir]
    BY <1>9, <1>c, ZenonT(60) DEF EvaluateInProcess, RunDir
  <2>4. hist' \in [Jobs -> JobHistory]
    BY <1>9, <1>a, <2>2 DEF EvaluateInProcess, JobHistory
  <2>5. worker' \in [Workers -> WorkerState]
    <3>1. Outcome(v) \in Final
      BY JobQueueAssumption DEF Outcome, Final
    <3> QED
      BY <1>9, <1>f, <1>g, <1>h, <3>1 DEF EvaluateInProcess
  <2> QED
    BY <1>9, <2>1, <2>3, <2>4, <2>5 DEF EvaluateInProcess, TypeOK, Busy
<1>10. CASE Publish(w)
  <2>1. row' \in [Jobs -> JobRow]
    <3>1. worker[w].result \in Statuses /\ NoLease \in LeaseNumbers
      BY <1>e, JobQueueAssumption DEF Results, Statuses, NoLease, LeaseNumbers
    <3>2. \/ row' = row
          \/ row' = [row EXCEPT ![worker[w].job].status = worker[w].result,
                                ![worker[w].job].lease = NoLease]
      BY <1>10 DEF Publish
    <3> QED
      BY <1>a, <3>1, <3>2 DEF JobRow
  <2>2. hist' \in [Jobs -> JobHistory]
    BY <1>10, <1>a, <1>e DEF Publish, JobHistory
  <2>3. worker' \in [Workers -> WorkerState] /\ IdleWorker.pc = "reap"
    BY <1>10, <1>b DEF Publish, IdleWorker
  <2> QED
    BY <1>10, <2>1, <2>2, <2>3 DEF Publish, TypeOK, Busy
<1>11. CASE WorkerRaises(w)
  <2>1. worker[w].job \in Jobs /\ worker[w].lease \in Leases
    BY <1>11, BusyTyping DEF WorkerRaises
  <2>2. /\ child' \in [Leases -> ChildState]
        /\ \A l \in Leases : child'[l].state # "none" => child'[l].job \in Jobs
    <3>1. CASE Alive(worker[w].lease)
      BY <1>11, <2>1, <3>1, ExitTyping DEF WorkerRaises, AfterRaise, Kill, Alive
    <3>2. CASE ~Alive(worker[w].lease)
      BY <1>11, <1>c, <3>2 DEF WorkerRaises, AfterRaise, TypeOK
    <3> QED
      BY <3>1, <3>2
  <2>3. worker' \in [Workers -> WorkerState]
    BY <1>11, <1>f, <1>g, <1>h DEF WorkerRaises
  <2> QED
    BY <1>11, <2>1, <2>2, <2>3 DEF WorkerRaises, TypeOK, Busy
<1>12. CASE WorkerCrash(w)
  <2>1. worker' \in [Workers -> WorkerState] /\ IdleWorker.pc = "reap"
    BY <1>12, <1>b DEF WorkerCrash, IdleWorker
  <2> QED
    BY <1>12, <2>1 DEF WorkerCrash, TypeOK, Busy
<1> QED
  BY <1>1, <1>2, <1>3, <1>4, <1>5, <1>6, <1>7, <1>8, <1>9, <1>10, <1>11, <1>12 DEF WorkerStep

\* Every step of a child keeps the types.
LEMMA ChildTyping ==
  ASSUME TypeOK, NEW l \in Leases, ChildStep(l)
  PROVE  TypeOK'
<1> DEFINE ChildOK == /\ child' \in [Leases -> ChildState]
                      /\ \A k \in Leases : child'[k].state # "none" => child'[k].job \in Jobs
           DiskOK  == disk' \in [Jobs -> RunDir]
<1>a. child \in [Leases -> ChildState] /\ disk \in [Jobs -> RunDir]
  BY DEF TypeOK
<1>b. l \in LeaseNumbers /\ "absent" \in Statuses
  BY JobQueueAssumption DEF Leases, LeaseNumbers, Statuses
<1>c. UNCHANGED <<row, api, worker, claims, crashes, hist>> /\ child[l].state # "none"
  BY DEF ChildStep, AgentResume, AgentCreate, AgentInit, AgentCheckpoint, AgentWork, AgentFinal,
         AgentSummary, EvalLoad, EvalReport, ChildDies, ChildOnly, In, Alive
<1>d. child[l].job \in Jobs
  BY <1>c DEF TypeOK
<1>e. ASSUME NEW s \in {"created", "recorded", "running", "refused", "judging"},
             child' = Enter(l, s)
      PROVE  ChildOK
  <2>1. child' \in [Leases -> ChildState]
    BY <1>a, <1>e DEF Enter, ChildState, ChildStates
  <2>2. \A k \in Leases : child'[k].job = child[k].job /\ (k # l => child'[k].state = child[k].state)
    BY <1>a, <1>e DEF Enter, ChildState
  <2> QED
    BY <1>d, <2>1, <2>2 DEF TypeOK
<1>f. ASSUME NEW code \in {0, 1}, child' = Exit(l, code) PROVE ChildOK
  BY <1>c, <1>f, ExitTyping
<1>g. ASSUME child' = child PROVE ChildOK
  BY <1>g DEF TypeOK
<1>h. ASSUME NEW c \in Checkpoints, disk' = Save(l, c)
      PROVE  DiskOK
  BY <1>a, <1>b, <1>h, ZenonT(40) DEF Save, RunDir
<1>i. ASSUME disk' = disk PROVE DiskOK
  BY <1>a, <1>i
<1>j. {"resumable", "unknown", "completed"} \subseteq Checkpoints
  BY DEF Checkpoints
<1> HIDE DEF ChildOK, DiskOK
<1>1. ASSUME AgentResume(l) PROVE ChildOK /\ DiskOK
  BY <1>1, <1>e, <1>f, <1>i DEF AgentResume
<1>2. ASSUME AgentCreate(l) PROVE ChildOK /\ DiskOK
  <2>1. ASSUME NEW j \in Jobs, disk' = [disk EXCEPT ![j].tree = TRUE] PROVE DiskOK
    BY <1>a, <2>1 DEF RunDir, DiskOK
  <2> QED
    BY <1>2, <1>d, <1>e, <1>f, <1>i, <2>1 DEF AgentCreate
<1>3. ASSUME AgentInit(l) PROVE ChildOK /\ DiskOK
  <2>1. ASSUME NEW j \in Jobs, disk' = [disk EXCEPT ![j].run = TRUE] PROVE DiskOK
    BY <1>a, <2>1 DEF RunDir, DiskOK
  <2> QED
    BY <1>3, <1>d, <1>e, <1>f, <1>i, <2>1 DEF AgentInit
<1>4. ASSUME AgentCheckpoint(l) PROVE ChildOK /\ DiskOK
  BY <1>4, <1>e, <1>h, <1>j DEF AgentCheckpoint
<1>5. ASSUME NEW c \in {"resumable", "unknown", "completed"}, AgentWork(l, c)
      PROVE  ChildOK /\ DiskOK
  BY <1>5, <1>g, <1>h, <1>j DEF AgentWork
<1>6. ASSUME NEW c \in {"resumable", "unknown", "completed"}, NEW code \in {0, 1},
             AgentFinal(l, c, code)
      PROVE  ChildOK /\ DiskOK
  <2>1. child' = [child EXCEPT ![l].state = "ended", ![l].code = code] /\ disk' = Save(l, c)
    BY <1>6 DEF AgentFinal
  <2>2. child' \in [Leases -> ChildState]
    BY <1>a, <2>1, ZenonT(40) DEF ChildState, ChildStates
  <2>3. \A k \in Leases : child'[k].job = child[k].job /\ (k # l => child'[k].state = child[k].state)
    BY <1>a, <2>1 DEF ChildState
  <2> QED
    BY <1>d, <1>h, <1>j, <2>1, <2>2, <2>3 DEF TypeOK, ChildOK
<1>7. ASSUME AgentSummary(l) PROVE ChildOK /\ DiskOK
  <2>1. child[l].code \in {0, 1}
    BY <1>a DEF ChildState
  <2>2. DiskOK
    BY <1>7, <1>a, <1>b, ZenonT(60) DEF AgentSummary, RunDir, DiskOK
  <2> QED
    BY <1>7, <1>f, <2>1, <2>2 DEF AgentSummary
<1>8. ASSUME EvalLoad(l) PROVE ChildOK /\ DiskOK
  <2>1. ASSUME NEW j \in Jobs, disk' = [disk EXCEPT ![j].evaltree = TRUE] PROVE DiskOK
    BY <1>a, <2>1 DEF RunDir, DiskOK
  <2> QED
    BY <1>8, <1>d, <1>e, <1>f, <1>i, <2>1 DEF EvalLoad
<1>9. ASSUME NEW v \in Verdicts, EvalReport(l, v) PROVE ChildOK /\ DiskOK
  <2>1. [by |-> l, verdict |-> v] \in Judgement
    BY <1>b DEF Judgement
  <2>2. DiskOK
    BY <1>9, <1>a, <2>1, ZenonT(40) DEF EvalReport, RunDir, DiskOK
  <2> QED
    BY <1>9, <1>f, <2>2 DEF EvalReport
<1>10. ASSUME ChildDies(l) PROVE ChildOK /\ DiskOK
  BY <1>10, <1>f, <1>i DEF ChildDies
<1>11. ChildOK /\ DiskOK
  BY <1>1, <1>2, <1>3, <1>4, <1>5, <1>6, <1>7, <1>8, <1>9, <1>10 DEF ChildStep
<1> QED
  BY <1>c, <1>11 DEF TypeOK, Busy, ChildOK, DiskOK

\* Types are kept by every step.
LEMMA Typing == TypeOK /\ [Next]_vars => TypeOK'
<1> SUFFICES ASSUME TypeOK, [Next]_vars PROVE TypeOK'
  OBVIOUS
<1>1. CASE Next
  BY <1>1, ApiTyping, WorkerTyping, ChildTyping DEF Next, ApiStep
<1>2. CASE UNCHANGED vars
  BY <1>2 DEF vars, TypeOK, Busy
<1> QED
  BY <1>1, <1>2

\* Rows, leases and workers are always well typed, and a worker at work has a
\* job and a lease (JobRepository, Worker.run_once).
THEOREM QueueTyping == Spec => []TypeOK
BY InitTyping, Typing, PTL DEF Spec

-----------------------------------------------------------------------------
\* A step that moves no lease and no row keeps the fence.
LEMMA FenceFrame ==
  ASSUME LeasesFence,
         UNCHANGED <<row, claims>>,
         \A w \in Workers : worker'[w].lease = worker[w].lease /\ (Busy(w)' => Busy(w)),
         \A j \in Jobs : hist'[j].attempt = hist[j].attempt /\ hist'[j].publisher = hist[j].publisher
  PROVE  LeasesFence'
BY DEF LeasesFence

\* The API and the clock only move rows between unowned states, from running
\* to cancelling, or age a heartbeat.
LEMMA ApiFence ==
  ASSUME TypeOK, LeasesFence, NEW j \in Jobs,
         Submit(j) \/ Cancel(j) \/ CheckResume(j) \/ Resume(j) \/ Expire(j)
  PROVE  LeasesFence'
<1>1. UNCHANGED <<worker, claims>>
  BY DEF Submit, Cancel, CheckResume, Resume, Expire
<1>2. \A k \in Jobs : /\ hist'[k].attempt = hist[k].attempt
                      /\ hist'[k].publisher = hist[k].publisher
  BY DEF TypeOK, JobHistory, Submit, Cancel, CheckResume, Resume, Expire
<1>3. \A k \in Jobs : row'[k].status \in Owned => row[k].status \in Owned /\ row'[k].lease = row[k].lease
  BY DEF TypeOK, JobRow, Submit, Cancel, CheckResume, Resume, Expire, Owned
<1>4. \A k \in Jobs : row'[k].status \in Final => row[k].status \in Final
  BY DEF TypeOK, JobRow, Submit, Cancel, CheckResume, Resume, Expire, Owned, Final
<1> QED
  BY <1>1, <1>2, <1>3, <1>4 DEF LeasesFence, Busy

\* A worker step keeps the fence: a claim hands out a number nobody has, and
\* only the holder of the row's lease publishes.
LEMMA WorkerFence ==
  ASSUME TypeOK, LeasesFence, NEW w \in Workers,
         WorkerStep(w) \/ WorkerRaises(w) \/ WorkerCrash(w)
  PROVE  LeasesFence'
<1>a. /\ row \in [Jobs -> JobRow] /\ hist \in [Jobs -> JobHistory]
      /\ worker \in [Workers -> WorkerState] /\ claims \in Nat
  BY JobQueueAssumption DEF TypeOK, LeaseNumbers
<1>b. \A v \in Workers : worker[v].lease \in Nat
  BY <1>a, JobQueueAssumption DEF WorkerState, LeaseNumbers
<1>1. CASE Reap(w)
  <2>1. \A j \in Jobs : /\ hist'[j].attempt = hist[j].attempt
                        /\ hist'[j].publisher = hist[j].publisher
    BY <1>1, <1>a DEF Reap, JobHistory
  <2>2. \A j \in Jobs : row'[j] = row[j] \/ row'[j].status = "interrupted"
    BY <1>1, <1>a DEF Reap, JobRow
  <2>3. \A v \in Workers : worker'[v].lease = worker[v].lease /\ (Busy(v)' => Busy(v))
    BY <1>1, <1>a DEF Reap, WorkerState, Busy
  <2>4. claims' = claims
    BY <1>1 DEF Reap
  <2> QED
    BY <2>1, <2>2, <2>3, <2>4 DEF LeasesFence, Owned, Final
<1>2. ASSUME NEW j \in Jobs, Claim(w, j) PROVE LeasesFence'
  <2> DEFINE n == claims + 1
  <2>1. /\ \A v \in Workers : v # w => worker'[v] = worker[v]
        /\ worker'[w].lease = n
        /\ claims' = n
    BY <1>2, <1>a DEF Claim, NewLease, IdleWorker
  <2>2. \A k \in Jobs : /\ k # j => row'[k] = row[k] /\ hist'[k] = hist[k]
                        /\ k = j => /\ row'[k].status = "running"
                                    /\ row'[k].lease = n /\ hist'[k].attempt = n
    BY <1>2, <1>a DEF Claim, NewLease, JobRow, JobHistory
  <2>3. \A v \in Workers : worker[v].lease < n /\ worker[v].lease # n
    BY <1>a, <1>b DEF LeasesFence
  <2>4. \A v \in Workers : worker'[v].lease <= claims'
    BY <1>a, <1>b, <2>1, <2>3
  <2>5. \A u, v \in Workers :
          (Busy(u)' /\ Busy(v)' /\ worker'[u].lease = worker'[v].lease) => u = v
    BY <2>1, <2>3 DEF LeasesFence, Busy
  <2>6. \A k \in Jobs : /\ row'[k].status \in Owned => row'[k].lease = hist'[k].attempt
                        /\ row'[k].status \in Final => hist'[k].publisher = hist'[k].attempt
    BY <2>2 DEF LeasesFence, Final
  <2> QED
    BY <2>4, <2>5, <2>6 DEF LeasesFence
<1>3. CASE PollRead(w) \/ ClaimNothing(w) \/ EvaluateInChild(w) \/ WorkerRaises(w)
  BY <1>3, <1>a, FenceFrame DEF PollRead, ClaimNothing, EvaluateInChild, WorkerRaises, At, Busy, WorkerState
<1>4. CASE Launch(w)
  <2>1. \A v \in Workers : worker'[v].lease = worker[v].lease /\ (Busy(v)' => Busy(v))
    <3>1. \/ worker' = [worker EXCEPT ![w].pc = "publish", ![w].result = "interrupted"]
          \/ worker' = [worker EXCEPT ![w].pc = "poll", ![w].stop = FALSE]
      BY <1>4 DEF Launch
    <3>2. Busy(w)
      BY <1>4 DEF Launch, At, Busy
    <3> QED
      BY <1>a, <3>1, <3>2 DEF WorkerState, Busy
  <2>2. UNCHANGED <<row, claims, hist>>
    BY <1>4 DEF Launch
  <2> QED
    BY <2>1, <2>2, FenceFrame
<1>5. CASE Beat(w)
  <2> PICK expired \in BOOLEAN, overdue \in BOOLEAN : PollBeat(w, expired, overdue)
    BY <1>5 DEF Beat
  <2>1. \A v \in Workers : worker'[v].lease = worker[v].lease /\ (Busy(v)' => Busy(v))
    BY <1>a DEF PollBeat, At, Busy, WorkerState
  <2>2. \A j \in Jobs : row'[j].status = row[j].status /\ row'[j].lease = row[j].lease
    BY <1>a DEF PollBeat, JobRow
  <2> QED
    BY <2>1, <2>2, ZenonT(40) DEF PollBeat, LeasesFence
<1>6. CASE Confirm(w)
  <2>1. \E pc \in {"publish", "evaluate"} :
          \E res \in {"cancelled", "interrupted", "absent", Outcome(disk[worker[w].job].eval.verdict)} :
            worker' = [worker EXCEPT ![w].pc = pc, ![w].result = res]
    BY <1>6 DEF Confirm
  <2>2. Busy(w)
    BY <1>6 DEF Confirm, At, Busy
  <2>3. \A v \in Workers : worker'[v].lease = worker[v].lease /\ (Busy(v)' => Busy(v))
    BY <1>a, <2>1, <2>2 DEF Busy, WorkerState
  <2>4. hist' = hist \/ hist' = [hist EXCEPT ![worker[w].job].eval = disk[worker[w].job].eval]
    BY <1>6 DEF Confirm
  <2>5. \A j \in Jobs : /\ hist'[j].attempt = hist[j].attempt
                        /\ hist'[j].publisher = hist[j].publisher
    BY <1>a, <2>4 DEF JobHistory
  <2>6. UNCHANGED <<row, claims>>
    BY <1>6 DEF Confirm
  <2> QED
    BY <2>3, <2>5, <2>6, FenceFrame
<1>9. ASSUME NEW v \in Verdicts, EvaluateInProcess(w, v) PROVE LeasesFence'
  <2>1. \A u \in Workers : worker'[u].lease = worker[u].lease /\ (Busy(u)' => Busy(u))
    BY <1>9, <1>a DEF EvaluateInProcess, At, Busy, WorkerState
  <2>2. \A j \in Jobs : /\ hist'[j].attempt = hist[j].attempt
                        /\ hist'[j].publisher = hist[j].publisher
    BY <1>9, <1>a DEF EvaluateInProcess, JobHistory
  <2> QED
    BY <1>9, <2>1, <2>2, FenceFrame DEF EvaluateInProcess
<1>7. CASE Publish(w)
  <2>1. /\ \A v \in Workers : v # w => worker'[v] = worker[v]
        /\ worker'[w].lease = 0 /\ ~Busy(w)' /\ claims' = claims
    BY <1>7, <1>a DEF Publish, IdleWorker, NoLease, Busy
  <2>2. CASE ~Holds(w)
    BY <1>7, <1>a, <1>b, <2>1, <2>2 DEF Publish, LeasesFence, Busy
  <2>3. CASE Holds(w)
    <3> DEFINE j == worker[w].job
    <3>1. j \in Jobs /\ worker[w].lease = hist[j].attempt
      BY <1>7, <2>3, BusyTyping DEF Publish, At, Holds, LeasesFence
    <3>2. \A k \in Jobs : /\ k # j => row'[k] = row[k] /\ hist'[k] = hist[k]
                          /\ k = j => /\ row'[k].status = worker[w].result
                                      /\ hist'[k].publisher = worker[w].lease
                                      /\ hist'[k].attempt = hist[k].attempt
      BY <1>7, <1>a, <2>3 DEF Publish, JobRow, JobHistory
    <3>3. worker[w].result \notin Owned
      BY <1>a DEF WorkerState, Results, Final, Stopped, Owned
    <3> QED
      BY <1>a, <1>b, <2>1, <3>1, <3>2, <3>3 DEF LeasesFence, Busy
  <2> QED
    BY <2>2, <2>3
<1>8. CASE WorkerCrash(w)
  <2>1. /\ \A v \in Workers : v # w => worker'[v] = worker[v]
        /\ worker'[w].lease = 0 /\ ~Busy(w)'
        /\ UNCHANGED <<row, claims, hist>>
    BY <1>8, <1>a DEF WorkerCrash, IdleWorker, NoLease, Busy
  <2> QED
    BY <1>a, <1>b, <2>1 DEF LeasesFence, Busy
<1> QED
  BY <1>1, <1>2, <1>3, <1>4, <1>5, <1>6, <1>7, <1>8, <1>9 DEF WorkerStep

\* The invariant is inductive.
LEMMA Fencing == TypeOK /\ LeasesFence /\ [Next]_vars => LeasesFence'
<1> SUFFICES ASSUME TypeOK, LeasesFence, [Next]_vars PROVE LeasesFence'
  OBVIOUS
<1>1. CASE Next
  <2>1. ASSUME NEW l \in Leases, ChildStep(l) PROVE LeasesFence'
    BY <2>1, FenceFrame
       DEF ChildStep, AgentResume, AgentCreate, AgentInit, AgentCheckpoint, AgentWork, AgentFinal,
           AgentSummary, EvalLoad, EvalReport, ChildDies, ChildOnly, Busy
  <2> QED
    BY <1>1, <2>1, ApiFence, WorkerFence DEF Next, ApiStep
<1>2. CASE UNCHANGED vars
  BY <1>2, FenceFrame DEF vars, Busy
<1> QED
  BY <1>1, <1>2

LEMMA InitFence == Init => LeasesFence
BY DEF Init, LeasesFence, Busy, IdleWorker, NoLease, Owned, Final

\* Every behaviour keeps the fence.
THEOREM QueueFencing == Spec => []LeasesFence
BY QueueTyping, InitFence, Fencing, PTL DEF Spec

\* At most one worker holds the lease of a job's row (claim, reap_stale, resume).
THEOREM OneHolder == Spec => []SingleHolder
<1>1. LeasesFence => SingleHolder
  BY DEF LeasesFence, SingleHolder, Holds
<1> QED
  BY <1>1, QueueFencing, PTL

\* A verdict is published by the latest attempt only, never by a worker whose
\* job was recovered (finish).
THEOREM StaleWorkersNeverPublish == Spec => []PublishedByLatestAttempt
<1>1. LeasesFence => PublishedByLatestAttempt
  BY DEF LeasesFence, PublishedByLatestAttempt
<1> QED
  BY <1>1, QueueFencing, PTL

-----------------------------------------------------------------------------
(* The attempts of a job in order.                                         *)

\* What a worker does, as one action.
Turn(w) == WorkerStep(w) \/ WorkerRaises(w) \/ WorkerCrash(w)

\* A step changes the locals of the worker that takes it, and no others.
LEMMA OneWorkerTurns ==
  ASSUME TypeOK, [Next]_vars, NEW w \in Workers, worker'[w] # worker[w]
  PROVE  /\ Turn(w)
         /\ \A v \in Workers \ {w} : worker'[v] = worker[v]
<1>1. worker' # worker
  OBVIOUS
<1>2. PICK v \in Workers : Turn(v)
  <2>1. ASSUME NEW j \in Jobs, Submit(j) \/ Cancel(j) \/ CheckResume(j) \/ Resume(j) \/ Expire(j)
        PROVE  worker' = worker
    BY <2>1 DEF Submit, Cancel, CheckResume, Resume, Expire
  <2>2. ASSUME NEW l \in Leases, ChildStep(l)
        PROVE  worker' = worker
    BY <2>2 DEF ChildStep, AgentResume, AgentCreate, AgentInit, AgentCheckpoint, AgentWork, AgentFinal,
       AgentSummary, EvalLoad, EvalReport, ChildDies, ChildOnly
  <2> QED
    BY <1>1, <2>1, <2>2 DEF Next, ApiStep, Turn, vars
<1>3. \A u \in Workers \ {v} : worker'[u] = worker[u]
  BY <1>2 DEF Turn, WorkerStep, Beat, TypeOK, Reap, Claim, ClaimNothing, Launch, PollRead, PollBeat, Confirm,
     EvaluateInChild, EvaluateInProcess, Publish, WorkerRaises, WorkerCrash
<1> QED
  BY <1>2, <1>3

-----------------------------------------------------------------------------
\* A worker that is about to publish has a result to publish.
Decided == \A w \in Workers : At(w, "publish") => worker[w].result \in Final \cup Stopped

\* Every step keeps what is decided.
LEMMA Deciding == TypeOK /\ Decided /\ [Next]_vars => Decided'
<1> SUFFICES ASSUME TypeOK, Decided, [Next]_vars, NEW w \in Workers, At(w, "publish")'
             PROVE  worker'[w].result \in Final \cup Stopped
  BY DEF Decided
<1>1. CASE worker'[w] = worker[w]
  BY <1>1 DEF Decided, At
<1>2. CASE worker'[w] # worker[w]
  <2>1. Turn(w)
    BY <1>2, OneWorkerTurns
  <2>2. worker \in [Workers -> WorkerState] /\ "publish" # "reap"
    BY DEF TypeOK
  <2>3. CASE Launch(w)
    <3>1. \/ worker' = [worker EXCEPT ![w].pc = "publish", ![w].result = "interrupted"]
          \/ worker' = [worker EXCEPT ![w].pc = "poll", ![w].stop = FALSE]
      BY <2>3 DEF Launch
    <3>2. worker'[w].pc # "poll"
      BY DEF At
    <3> QED
      BY <2>2, <3>1, <3>2 DEF WorkerState, Stopped
  <2>4. CASE Confirm(w)
    <3>1. worker[w].job \in Jobs
      BY <2>4, BusyTyping DEF Confirm, At
    <3>2. disk[worker[w].job].eval.verdict \in {"passed", "failed", "blocked"}
      BY <3>1, JobQueueAssumption DEF TypeOK, RunDir, Judgement
    <3>3. Outcome(disk[worker[w].job].eval.verdict) \in Final
      BY <3>2 DEF Outcome, Final
    <3>4. \E pc, result : /\ worker' = [worker EXCEPT ![w].pc = pc, ![w].result = result]
                          /\ pc = "publish" => result \in Final \cup Stopped
      BY <2>4, <3>3, SMTT(30) DEF Confirm, Stopped
    <3> QED
      BY <2>2, <3>4 DEF WorkerState, At
  <2>5. ASSUME NEW v \in Verdicts, EvaluateInProcess(w, v) PROVE worker'[w].result \in Final
    BY <2>2, <2>5, JobQueueAssumption DEF EvaluateInProcess, Final, Outcome
  <2>6. CASE WorkerRaises(w)
    BY <2>2, <2>6 DEF WorkerRaises, Stopped
  <2>7. CASE \/ Reap(w) \/ ClaimNothing(w) \/ PollRead(w) \/ Beat(w)
             \/ EvaluateInChild(w) \/ Publish(w) \/ WorkerCrash(w)
             \/ \E j \in Jobs : Claim(w, j)
    <3>1. CASE Reap(w) \/ ClaimNothing(w) \/ PollRead(w) \/ EvaluateInChild(w)
      BY <2>2, <3>1, ZenonT(60) DEF Reap, ClaimNothing, PollRead, EvaluateInChild, WorkerState, At
    <3>2. CASE Beat(w)
      BY <2>2, <3>2 DEF Beat, PollBeat, WorkerState, At
    <3>3. CASE Publish(w) \/ WorkerCrash(w)
      BY <2>2, <3>3 DEF Publish, WorkerCrash, IdleWorker, At
    <3>4. ASSUME NEW j \in Jobs, Claim(w, j) PROVE FALSE
      BY <2>2, <3>4 DEF Claim, IdleWorker, At
    <3> QED
      BY <2>7, <3>1, <3>2, <3>3, <3>4
  <2> QED
    BY <2>1, <2>3, <2>4, <2>5, <2>6, <2>7 DEF Turn, WorkerStep
<1> QED
  BY <1>1, <1>2

\* The status column of the jobs table.
Status == [j \in Jobs |-> row[j].status]

\* A step of the queue is a move of one job in its life, a reaping pass, or
\* nothing a client sees.
LEMMA LifecycleStep ==
  ASSUME TypeOK, Decided, [Next]_vars
  PROVE  Lifecycle!Next \/ Status' = Status
<1> USE DEF Status
<1>a. row \in [Jobs -> JobRow]
  BY DEF TypeOK
<1>m. ASSUME NEW j \in Jobs, NEW from, NEW to, row[j].status \in from, NEW s \in to,
             Status' = [Status EXCEPT ![j] = s]
      PROVE  Lifecycle!Move(j, from, to)
  BY <1>m DEF Lifecycle!Move
<1>1. CASE row' = row
  BY <1>1
<1>2. ASSUME NEW j \in Jobs, Submit(j) PROVE Lifecycle!Next
  <2>1. Status' = [Status EXCEPT ![j] = "queued"] /\ row[j].status \in {"absent"}
    BY <1>a, <1>2 DEF Submit, JobRow
  <2> QED
    BY <1>m, <2>1 DEF Lifecycle!Next, Lifecycle!Submit
<1>3. ASSUME NEW j \in Jobs, Cancel(j) PROVE Lifecycle!Next
  <2>1. CASE row[j].status = "queued"
    <3>1. Status' = [Status EXCEPT ![j] = "cancelled"]
      BY <1>a, <1>3, <2>1 DEF Cancel, JobRow
    <3> QED
      BY <1>m, <2>1, <3>1 DEF Lifecycle!Next, Lifecycle!Drop
  <2>2. CASE row[j].status = "running"
    <3>1. Status' = [Status EXCEPT ![j] = "cancelling"]
      BY <1>a, <1>3, <2>2 DEF Cancel, JobRow
    <3> QED
      BY <1>m, <2>2, <3>1 DEF Lifecycle!Next, Lifecycle!Request
  <2> QED
    BY <1>3, <2>1, <2>2 DEF Cancel
<1>4. ASSUME NEW j \in Jobs, Resume(j), row' # row PROVE Lifecycle!Next
  <2>1. Status' = [Status EXCEPT ![j] = "queued"] /\ row[j].status \in {"cancelled", "interrupted"}
    BY <1>a, <1>4 DEF Resume, JobRow, Stopped
  <2> QED
    BY <1>m, <2>1 DEF Lifecycle!Next, Lifecycle!Retry
<1>5. ASSUME NEW j \in Jobs, Expire(j) PROVE Status' = Status
  BY <1>a, <1>5 DEF Expire, JobRow
<1>6. ASSUME NEW w \in Workers, Reap(w) PROVE Lifecycle!Next
  <2> DEFINE S == {j \in Jobs : Stale(j)}
  <2>1. S \in SUBSET {j \in Jobs : Status[j] \in {"running", "cancelling"}}
    BY DEF Stale, Owned
  <2>2. Status' = [j \in Jobs |-> IF j \in S THEN "interrupted" ELSE Status[j]]
    BY <1>a, <1>6 DEF Reap, JobRow
  <2> QED
    BY <2>1, <2>2 DEF Lifecycle!Next, Lifecycle!Reap
<1>7. ASSUME NEW w \in Workers, NEW j \in Jobs, Claim(w, j) PROVE Lifecycle!Next
  <2>1. Status' = [Status EXCEPT ![j] = "running"] /\ row[j].status \in {"queued"}
    BY <1>a, <1>7 DEF Claim, Oldest, Queued, JobRow
  <2> QED
    BY <1>m, <2>1 DEF Lifecycle!Next, Lifecycle!Start
<1>8. ASSUME NEW w \in Workers, Beat(w) PROVE Status' = Status
  <2>1. worker[w].job \in Jobs
    BY <1>8, BusyTyping DEF Beat, PollBeat, At
  <2> QED
    BY <1>a, <1>8, <2>1 DEF Beat, PollBeat, JobRow
<1>9. ASSUME NEW w \in Workers, Publish(w), row' # row PROVE Lifecycle!Next
  <2> DEFINE j == worker[w].job
  <2>1. j \in Jobs /\ worker[w].result \in Final \cup Stopped
    BY <1>9, BusyTyping DEF Publish, At, Decided
  <2>2. /\ Status' = [Status EXCEPT ![j] = worker[w].result]
        /\ row[j].status \in {"running", "cancelling"}
    BY <1>a, <1>9, <2>1 DEF Publish, Holds, Owned, JobRow
  <2>3. CASE worker[w].result \in {"completed", "failed", "blocked"}
    BY <1>m, <2>1, <2>2, <2>3 DEF Lifecycle!Next, Lifecycle!Decide
  <2>4. CASE worker[w].result \in {"cancelled", "interrupted"}
    BY <1>m, <2>1, <2>2, <2>4 DEF Lifecycle!Next, Lifecycle!Stop
  <2> QED
    BY <2>1, <2>3, <2>4 DEF Final, Stopped
<1>10. ASSUME NEW w \in Workers, Turn(w), row' # row PROVE Lifecycle!Next \/ Status' = Status
  BY <1>6, <1>7, <1>8, <1>9, <1>10
     DEF Turn, WorkerStep, ClaimNothing, Launch, PollRead, Confirm, EvaluateInChild, EvaluateInProcess,
         WorkerRaises, WorkerCrash
<1>11. ASSUME NEW l \in Leases, ChildStep(l) PROVE row' = row
  BY <1>11 DEF ChildStep, AgentResume, AgentCreate, AgentInit, AgentCheckpoint, AgentWork, AgentFinal,
     AgentSummary, EvalLoad, EvalReport, ChildDies, ChildOnly
<1>12. ASSUME NEW j \in Jobs, CheckResume(j) PROVE row' = row
  BY <1>12 DEF CheckResume
<1> QED
  BY <1>1, <1>2, <1>3, <1>4, <1>5, <1>10, <1>11, <1>12 DEF Next, ApiStep, Turn, vars

\* The queue, its workers and their children implement the life of a job that
\* the API promises, for any number of each.
THEOREM QueueImplementsLifecycle == Spec => ImplementsLifecycle
<1>1. Init => Lifecycle!Init
  BY DEF Init, Lifecycle!Init
<1>2. Init => Decided
  BY DEF Init, Decided, IdleWorker, At
<1>3. TypeOK /\ Decided /\ [Next]_vars => [Lifecycle!Next]_Status
  BY LifecycleStep
<1> QED
  BY <1>1, <1>2, <1>3, Deciding, QueueTyping, PTL DEF Spec, ImplementsLifecycle, Lifecycle!Spec, Status

-----------------------------------------------------------------------------
\* The worker that holds a cancelled row whose cancellation came in time.
CancelledInTime(w) ==
  LET j == worker[w].job
  IN  /\ Busy(w) /\ row[j].status = "cancelling" /\ row[j].lease = worker[w].lease
      /\ hist[j].late = FALSE

\* Such a worker publishes no verdict, nor does it evaluate in its own process,
\* where nothing would tell it of the cancellation any more.
Heeded ==
  \A w \in Workers : CancelledInTime(w) =>
    /\ At(w, "publish") => worker[w].result \in Stopped
    /\ At(w, "evaluate") => LocalExecutor = FALSE

\* What a step does to the row of a job that it leaves, or makes, cancelling.
LEMMA CancellingRow ==
  ASSUME TypeOK, Decided, [Next]_vars, NEW j \in Jobs, row'[j].status = "cancelling"
  PROVE  \/ /\ row'[j].status = row[j].status /\ row'[j].lease = row[j].lease
            /\ hist'[j].late = hist[j].late
         \/ /\ row'[j].lease = row[j].lease /\ worker' = worker
            /\ hist'[j].late = (row[j].status = "running" /\ PastLastCheck(j))
            /\ row[j].status = "running"
<1>a. row \in [Jobs -> JobRow] /\ hist \in [Jobs -> JobHistory]
  BY DEF TypeOK
<1>1. CASE row' = row /\ \A k \in Jobs : hist'[k].late = hist[k].late
  BY <1>1
<1>2. ASSUME NEW k \in Jobs, Submit(k) \/ Resume(k) \/ Expire(k)
      PROVE  row'[j].status = row[j].status /\ row'[j].lease = row[j].lease /\ hist'[j].late = hist[j].late
  BY <1>a, <1>2 DEF Submit, Resume, Expire, JobRow
<1>3. ASSUME NEW k \in Jobs, Cancel(k)
      PROVE  \/ /\ row'[j].status = row[j].status /\ row'[j].lease = row[j].lease
                /\ hist'[j].late = hist[j].late
             \/ /\ row'[j].lease = row[j].lease /\ worker' = worker
                /\ hist'[j].late = (row[j].status = "running" /\ PastLastCheck(j))
                /\ row[j].status = "running"
  BY <1>a, <1>3 DEF Cancel, JobRow, JobHistory
<1>4. ASSUME NEW w \in Workers, Reap(w)
      PROVE  row'[j].status = row[j].status /\ row'[j].lease = row[j].lease /\ hist'[j].late = hist[j].late
  BY <1>a, <1>4 DEF Reap, JobRow, JobHistory
<1>5. ASSUME NEW w \in Workers, NEW k \in Jobs, Claim(w, k)
      PROVE  row'[j].status = row[j].status /\ row'[j].lease = row[j].lease /\ hist'[j].late = hist[j].late
  <2>1. row' = [row EXCEPT ![k].status = "running", ![k].lease = NewLease(k), ![k].fresh = TRUE]
    BY <1>5 DEF Claim
  <2>2. hist' = [hist EXCEPT ![k].attempt = NewLease(k), ![k].late = FALSE]
    BY <1>5 DEF Claim
  <2>3. CASE k = j
    BY <1>a, <2>1, <2>3 DEF JobRow
  <2>4. CASE k # j
    BY <1>a, <2>1, <2>2, <2>4
  <2> QED
    BY <2>3, <2>4
<1>6. ASSUME NEW w \in Workers, Beat(w)
      PROVE  row'[j].status = row[j].status /\ row'[j].lease = row[j].lease /\ hist'[j].late = hist[j].late
  BY <1>a, <1>6 DEF Beat, PollBeat, JobRow
<1>7. ASSUME NEW w \in Workers, Publish(w)
      PROVE  row'[j].status = row[j].status /\ row'[j].lease = row[j].lease /\ hist'[j].late = hist[j].late
  <2>1. worker[w].job \in Jobs /\ worker[w].result # "cancelling"
    BY <1>7, BusyTyping DEF Publish, At, Decided, Final, Stopped
  <2>2. \A k \in Jobs : hist'[k].late = hist[k].late
    BY <1>a, <1>7, <2>1 DEF Publish, JobHistory
  <2>3. CASE worker[w].job = j
    BY <1>a, <1>7, <2>1, <2>2, <2>3 DEF Publish, JobRow
  <2>4. CASE worker[w].job # j
    BY <1>a, <1>7, <2>1, <2>2, <2>4 DEF Publish, JobRow
  <2> QED
    BY <2>3, <2>4
<1>8. ASSUME NEW w \in Workers, Confirm(w) \/ \E v \in Verdicts : EvaluateInProcess(w, v)
      PROVE  row' = row /\ \A k \in Jobs : hist'[k].late = hist[k].late
  <2>1. worker[w].job \in Jobs
    BY <1>8, BusyTyping DEF Confirm, EvaluateInProcess, At
  <2>2. row' = row /\ (hist' = hist \/ \E e : hist' = [hist EXCEPT ![worker[w].job].eval = e])
    BY <1>8 DEF Confirm, EvaluateInProcess
  <2>3. ASSUME NEW e, hist' = [hist EXCEPT ![worker[w].job].eval = e], NEW k \in Jobs
        PROVE  hist'[k].late = hist[k].late
    BY <1>a, <2>1, <2>3 DEF JobHistory
  <2> QED
    BY <2>2, <2>3
<1>9. ASSUME NEW w \in Workers,
             \/ ClaimNothing(w) \/ Launch(w) \/ PollRead(w) \/ EvaluateInChild(w)
             \/ WorkerRaises(w) \/ WorkerCrash(w)
      PROVE  row' = row /\ hist' = hist
  BY <1>9 DEF ClaimNothing, Launch, PollRead, EvaluateInChild, WorkerRaises, WorkerCrash
<1>10. ASSUME NEW l \in Leases, ChildStep(l) PROVE row' = row /\ hist' = hist
  BY <1>10 DEF ChildStep, AgentResume, AgentCreate, AgentInit, AgentCheckpoint, AgentWork, AgentFinal,
     AgentSummary, EvalLoad, EvalReport, ChildDies, ChildOnly
<1>11. ASSUME NEW k \in Jobs, CheckResume(k) PROVE row' = row /\ hist' = hist
  BY <1>11 DEF CheckResume
<1> QED
  BY <1>1, <1>2, <1>3, <1>4, <1>5, <1>6, <1>7, <1>8, <1>9, <1>10, <1>11 DEF Next, ApiStep, WorkerStep, vars

\* A cancellation in time is heeded by every step.
LEMMA Heeding ==
  ASSUME TypeOK, Decided, Heeded, [Next]_vars
  PROVE  Heeded'
<1> SUFFICES ASSUME NEW w \in Workers, CancelledInTime(w)'
             PROVE  /\ At(w, "publish")' => worker'[w].result \in Stopped
                    /\ At(w, "evaluate")' => LocalExecutor = FALSE
  BY DEF Heeded
<1> DEFINE j == worker'[w].job
<1>a. worker \in [Workers -> WorkerState] /\ hist \in [Jobs -> JobHistory]
  BY DEF TypeOK
<1>b. /\ j \in Jobs /\ worker'[w].pc \notin {"reap", "claim"}
      /\ row'[j].status = "cancelling" /\ row'[j].lease = worker'[w].lease /\ hist'[j].late = FALSE
  BY Typing DEF CancelledInTime, Busy, TypeOK
<1>1. CASE worker'[w] = worker[w]
  <2>1. CASE /\ row'[j].status = row[j].status /\ row'[j].lease = row[j].lease
             /\ hist'[j].late = hist[j].late
    BY <1>b, <1>1, <2>1 DEF Heeded, CancelledInTime, Busy, At
  <2>2. CASE /\ row'[j].lease = row[j].lease
             /\ hist'[j].late = (row[j].status = "running" /\ PastLastCheck(j))
             /\ row[j].status = "running"
    <3>1. ~PastLastCheck(j)
      BY <1>b, <2>2
    <3> QED
      BY <1>b, <1>1, <2>2, <3>1, JobQueueAssumption DEF PastLastCheck, At
  <2> QED
    BY <1>b, <2>1, <2>2, CancellingRow
<1>2. CASE worker'[w] # worker[w]
  <2>1. Turn(w)
    BY <1>2, OneWorkerTurns
  <2>2. /\ row'[j].status = row[j].status /\ row'[j].lease = row[j].lease
        /\ hist'[j].late = hist[j].late
    BY <1>b, <1>2, CancellingRow
  <2>3. CASE Launch(w)
    <3>1. \/ worker' = [worker EXCEPT ![w].pc = "publish", ![w].result = "interrupted"]
          \/ worker' = [worker EXCEPT ![w].pc = "poll", ![w].stop = FALSE]
      BY <2>3 DEF Launch
    <3> QED
      BY <1>a, <3>1 DEF WorkerState, At, Stopped
  <2>4. CASE Confirm(w)
    <3>1. worker'[w].job = worker[w].job
      BY <1>a, <2>4 DEF Confirm, WorkerState
    <3>2. CancelledAtExit(w)
      BY <1>b, <2>2, <3>1 DEF CancelledAtExit
    <3>3. worker' = [worker EXCEPT ![w].pc = "publish", ![w].result = "cancelled"]
      BY <2>4, <3>2 DEF Confirm
    <3> QED
      BY <1>a, <3>3 DEF WorkerState, At, Stopped
  <2>5. ASSUME NEW v \in Verdicts, EvaluateInProcess(w, v) PROVE FALSE
    <3>1. worker'[w].job = worker[w].job /\ worker'[w].lease = worker[w].lease
      BY <1>a, <2>5 DEF EvaluateInProcess, WorkerState
    <3>2. CancelledInTime(w)
      BY <1>b, <2>2, <2>5, <3>1 DEF CancelledInTime, Busy, EvaluateInProcess, At
    <3> QED
      BY <2>5, <3>2, JobQueueAssumption DEF Heeded, EvaluateInProcess
  <2>6. CASE WorkerRaises(w)
    BY <1>a, <2>6 DEF WorkerRaises, WorkerState, At, Stopped
  <2>7. CASE PollRead(w) \/ Beat(w) \/ EvaluateInChild(w)
    BY <1>a, <2>7 DEF PollRead, Beat, PollBeat, EvaluateInChild, WorkerState, At
  <2>8. CASE Reap(w) \/ ClaimNothing(w) \/ Publish(w) \/ WorkerCrash(w)
    <3>1. CASE Reap(w) \/ ClaimNothing(w)
      <4>1. \E pc \in {"claim", "reap"} : worker' = [worker EXCEPT ![w].pc = pc]
        BY <3>1 DEF Reap, ClaimNothing
      <4> QED
        BY <1>a, <1>b, <4>1 DEF WorkerState
    <3>2. CASE Publish(w) \/ WorkerCrash(w)
      BY <1>a, <1>b, <3>2 DEF Publish, WorkerCrash, IdleWorker
    <3> QED
      BY <2>8, <3>1, <3>2
  <2>9. ASSUME NEW k \in Jobs, Claim(w, k)
        PROVE  worker'[w].pc = "launch"
    BY <1>a, <2>9 DEF Claim, IdleWorker
  <2> QED
    BY <2>1, <2>3, <2>4, <2>5, <2>6, <2>7, <2>8, <2>9 DEF Turn, WorkerStep, At
<1> QED
  BY <1>1, <1>2

\* Only the holder decides a row.
LEMMA DecidingTurn ==
  ASSUME TypeOK, [Next]_vars, NEW j \in Jobs, row[j].status = "cancelling", row'[j].status \in Final
  PROVE  \E w \in Workers : /\ At(w, "publish") /\ worker[w].job = j /\ Holds(w)
                            /\ row'[j].status = worker[w].result
<1>a. row \in [Jobs -> JobRow]
  BY DEF TypeOK
<1>1. ASSUME NEW k \in Jobs, Submit(k) \/ Cancel(k) \/ CheckResume(k) \/ Resume(k) \/ Expire(k) PROVE FALSE
  <2>1. CASE Submit(k) \/ CheckResume(k) \/ Expire(k)
    BY <1>a, <2>1 DEF Submit, CheckResume, Expire, JobRow, Final
  <2>2. CASE Cancel(k)
    BY <1>a, <2>2 DEF Cancel, JobRow, Final
  <2>3. CASE Resume(k)
    BY <1>a, <2>3 DEF Resume, JobRow, Final
  <2> QED
    BY <1>1, <2>1, <2>2, <2>3
<1>2. ASSUME NEW l \in Leases, ChildStep(l) PROVE FALSE
  BY <1>2 DEF ChildStep, AgentResume, AgentCreate, AgentInit, AgentCheckpoint, AgentWork, AgentFinal,
     AgentSummary, EvalLoad, EvalReport, ChildDies, ChildOnly, Final
<1>3. ASSUME NEW w \in Workers, Reap(w) PROVE FALSE
  BY <1>a, <1>3 DEF Reap, JobRow, Final
<1>4. ASSUME NEW w \in Workers, NEW k \in Jobs, Claim(w, k) PROVE FALSE
  BY <1>a, <1>4 DEF Claim, JobRow, Final
<1>5. ASSUME NEW w \in Workers, Beat(w) PROVE FALSE
  BY <1>a, <1>5 DEF Beat, PollBeat, JobRow, Final
<1>6. ASSUME NEW w \in Workers, Publish(w)
      PROVE  /\ At(w, "publish") /\ worker[w].job = j /\ Holds(w)
             /\ row'[j].status = worker[w].result
  <2>1. worker[w].job \in Jobs
    BY <1>6, BusyTyping DEF Publish, At
  <2>2. row' # row
    BY DEF Final
  <2>3. Holds(w) /\ row' = [row EXCEPT ![worker[w].job].status = worker[w].result, ![worker[w].job].lease = NoLease]
    BY <1>6, <2>2 DEF Publish
  <2>4. CASE worker[w].job # j
    BY <1>a, <2>1, <2>3, <2>4 DEF JobRow, Final
  <2>5. CASE worker[w].job = j
    BY <1>a, <1>6, <2>1, <2>3, <2>5 DEF JobRow, Publish
  <2> QED
    BY <2>4, <2>5
<1>7. row' # row
  BY DEF Final
<1>8. ASSUME NEW w \in Workers,
             \/ ClaimNothing(w) \/ Launch(w) \/ PollRead(w) \/ Confirm(w) \/ EvaluateInChild(w)
             \/ WorkerRaises(w) \/ WorkerCrash(w) \/ \E v \in Verdicts : EvaluateInProcess(w, v)
      PROVE  FALSE
  BY <1>7, <1>8 DEF ClaimNothing, Launch, PollRead, Confirm, EvaluateInChild, EvaluateInProcess,
     WorkerRaises, WorkerCrash
<1> QED
  BY <1>1, <1>2, <1>3, <1>4, <1>5, <1>6, <1>7, <1>8 DEF Next, ApiStep, WorkerStep, vars

\* A cancellation accepted before the worker's last look at the row is never
\* overwritten by a verdict (worker.py, the end of _execute).
THEOREM EarlyCancellationWins == Spec => EarlyCancelWins
<1>1. Init => Decided /\ Heeded
  BY DEF Init, Decided, Heeded, CancelledInTime, Busy, IdleWorker, At
<1>2. ASSUME TypeOK, Decided, Heeded, [Next]_vars, NEW j \in Jobs,
             row[j].status = "cancelling", row'[j].status \in Final
      PROVE  hist[j].late
  <2>1. PICK w \in Workers : /\ At(w, "publish") /\ worker[w].job = j /\ Holds(w)
                             /\ row'[j].status = worker[w].result
    BY <1>2, DecidingTurn
  <2>2. worker[w].result \notin Stopped
    BY <1>2, <2>1 DEF Final, Stopped
  <2>3. ~CancelledInTime(w)
    BY <1>2, <2>1, <2>2 DEF Heeded
  <2> QED
    BY <1>2, <2>1, <2>3 DEF CancelledInTime, Holds, Busy, At, TypeOK, JobHistory
<1>3. TypeOK /\ Decided /\ Heeded /\ [Next]_vars
        => [\A j \in Jobs : (row[j].status = "cancelling" /\ row'[j].status \in Final) => hist[j].late]_vars
  BY <1>2
<1>4. TypeOK /\ Decided /\ Heeded /\ [Next]_vars => (Decided /\ Heeded)'
  BY Deciding, Heeding
<1> QED
  BY <1>1, <1>3, <1>4, QueueTyping, PTL DEF Spec, EarlyCancelWins

-----------------------------------------------------------------------------
\* Somebody works under lease l on job j: the child started under it, or the
\* worker that claimed it.
Working(l, j) ==
  \/ Alive(l) /\ child[l].job = j
  \/ \E w \in Workers : Busy(w) /\ worker[w].lease = l /\ worker[w].job = j

\* The leases under which somebody works although the row has another, or none.
Loose(j) == {l \in Leases : Working(l, j) /\ ~(row[j].status \in Owned /\ row[j].lease = l)}

\* A worker that is not polling has no child, and leases have no child before
\* they are handed out.
Settled ==
  /\ \A w \in Workers : (Busy(w) /\ worker[w].pc \notin {"poll", "beat"}) => ~Alive(worker[w].lease)
  /\ \A l \in Leases : l > claims => child[l].state = "none"

\* Each of them has cost a reaped heartbeat.
Reaped == \A j \in Jobs : Cardinality(Loose(j)) <= hist[j].reaps

\* A child moves by its own steps and the signals of its worker, or is started.
LEMMA ChildMoves ==
  ASSUME TypeOK, [Next]_vars, NEW l \in Leases
  PROVE  \/ child'[l] = child[l]
         \/ Alive(l) /\ child'[l].job = child[l].job /\ child'[l].state \in {child[l].state, "exited"}
         \/ ChildStep(l) /\ Alive(l) /\ child'[l].job = child[l].job
         \/ \E w \in Workers : /\ Launch(w) /\ worker[w].lease = l
                               /\ child'[l].job = worker[w].job
                               /\ child'[l].state \in {"starting", "loading"}
                               /\ worker'[w].pc = "poll"
<1>a. child \in [Leases -> ChildState] /\ worker \in [Workers -> WorkerState]
  BY DEF TypeOK
<1>b. ASSUME NEW k \in Leases, NEW code
      PROVE  /\ Exit(k, code)[k].job = child[k].job /\ Exit(k, code)[k].state = "exited"
             /\ \A m \in Leases \ {k} : Exit(k, code)[m] = child[m]
  BY <1>a DEF Exit, NoChild
<1>c. ASSUME NEW k \in Leases, NEW state
      PROVE  /\ Enter(k, state)[k].job = child[k].job
             /\ \A m \in Leases \ {k} : Enter(k, state)[m] = child[m]
  BY <1>a DEF Enter, ChildState
<1>1. CASE child' = child
  BY <1>1
<1>2. ASSUME NEW k \in Leases, ChildStep(k)
      PROVE  /\ Alive(k) /\ child'[k].job = child[k].job
             /\ \A m \in Leases \ {k} : child'[m] = child[m]
  <2>1. CASE AgentResume(k) \/ AgentCreate(k) \/ AgentInit(k)
    BY <1>b, <1>c, <2>1 DEF AgentResume, AgentCreate, AgentInit, In, Alive
  <2>2. CASE AgentCheckpoint(k) \/ AgentSummary(k) \/ EvalLoad(k) \/ ChildDies(k)
    BY <1>b, <1>c, <2>2 DEF AgentCheckpoint, AgentSummary, EvalLoad, ChildDies, In, Alive
  <2>3. ASSUME NEW v \in Verdicts, EvalReport(k, v)
        PROVE  /\ Alive(k) /\ child'[k].job = child[k].job
               /\ \A m \in Leases \ {k} : child'[m] = child[m]
    BY <1>b, <2>3 DEF EvalReport, Alive
  <2>4. ASSUME NEW c, AgentWork(k, c)
        PROVE  /\ Alive(k) /\ child'[k].job = child[k].job
               /\ \A m \in Leases \ {k} : child'[m] = child[m]
    BY <2>4 DEF AgentWork, In, Alive
  <2>5. ASSUME NEW c, NEW code, AgentFinal(k, c, code)
        PROVE  /\ Alive(k) /\ child'[k].job = child[k].job
               /\ \A m \in Leases \ {k} : child'[m] = child[m]
    BY <1>a, <2>5 DEF AgentFinal, In, Alive, ChildState
  <2> QED
    BY <1>2, <2>1, <2>2, <2>3, <2>4, <2>5 DEF ChildStep
<1>3. ASSUME NEW w \in Workers, Beat(w)
      PROVE  \/ child'[l] = child[l]
             \/ Alive(l) /\ child'[l].job = child[l].job /\ child'[l].state \in {child[l].state, "exited"}
  <2>1. worker[w].lease \in Leases
    BY <1>3, BusyTyping DEF Beat, PollBeat, At
  <2>2. \/ child' = child
        \/ Alive(worker[w].lease) /\ child' = [child EXCEPT ![worker[w].lease].term = TRUE]
        \/ Alive(worker[w].lease) /\ child' = Exit(worker[w].lease, 1)
    BY <1>3 DEF Beat, PollBeat, Kill
  <2> QED
    BY <1>a, <1>b, <2>1, <2>2 DEF ChildState
<1>4. ASSUME NEW w \in Workers, WorkerRaises(w)
      PROVE  \/ child'[l] = child[l]
             \/ Alive(l) /\ child'[l].job = child[l].job /\ child'[l].state \in {child[l].state, "exited"}
  <2>1. worker[w].lease \in Leases
    BY <1>4, BusyTyping DEF WorkerRaises
  <2>2. child' = child \/ (Alive(worker[w].lease) /\ child' = Exit(worker[w].lease, 1))
    BY <1>4 DEF WorkerRaises, AfterRaise, Kill
  <2> QED
    BY <1>b, <2>1, <2>2
<1>5. ASSUME NEW w \in Workers, Launch(w), child' # child
      PROVE  \/ child'[l] = child[l]
             \/ /\ worker[w].lease = l /\ child'[l].job = worker[w].job
                /\ child'[l].state \in {"starting", "loading"}
                /\ worker'[w].pc = "poll"
  <2>1. worker[w].lease \in Leases
    BY <1>5, BusyTyping DEF Launch, At
  <2>2. /\ child' = [child EXCEPT ![worker[w].lease] =
                   [state |-> IF worker[w].phase = "agent" THEN "starting" ELSE "loading",
                    job |-> worker[w].job, resume |-> worker[w].tries > 0 /\ disk[worker[w].job].run,
                    term |-> FALSE, code |-> 0]]
        /\ worker' = [worker EXCEPT ![w].pc = "poll", ![w].stop = FALSE]
    BY <1>5 DEF Launch
  <2> QED
    BY <1>a, <2>1, <2>2 DEF WorkerState
<1>6. ASSUME NEW w \in Workers,
             \/ Reap(w) \/ ClaimNothing(w) \/ PollRead(w) \/ Confirm(w) \/ EvaluateInChild(w) \/ Publish(w)
             \/ WorkerCrash(w) \/ \E v \in Verdicts : EvaluateInProcess(w, v)
             \/ \E j \in Jobs : Claim(w, j)
      PROVE  child' = child
  BY <1>6 DEF Reap, ClaimNothing, PollRead, Confirm, EvaluateInChild, EvaluateInProcess, Publish, WorkerCrash, Claim
<1>7. ASSUME NEW j \in Jobs, Submit(j) \/ Cancel(j) \/ CheckResume(j) \/ Resume(j) \/ Expire(j)
      PROVE  child' = child
  BY <1>7 DEF Submit, Cancel, CheckResume, Resume, Expire
<1> QED
  BY <1>1, <1>2, <1>3, <1>4, <1>5, <1>6, <1>7 DEF Next, ApiStep, WorkerStep, vars

\* A worker at work keeps its lease and its job, and begins with a claim.
LEMMA WorkerKeeps ==
  ASSUME TypeOK, [Next]_vars, NEW w \in Workers, Busy(w)'
  PROVE  \/ Busy(w) /\ worker'[w].lease = worker[w].lease /\ worker'[w].job = worker[w].job
         \/ \E j \in Jobs : /\ Claim(w, j)
                            /\ worker'[w].lease = claims + 1 /\ worker'[w].job = j /\ worker'[w].pc = "launch"
<1>a. worker \in [Workers -> WorkerState]
  BY DEF TypeOK
<1>1. CASE worker'[w] = worker[w]
  BY <1>1 DEF Busy
<1>2. CASE worker'[w] # worker[w]
  <2>1. Turn(w)
    BY <1>2, OneWorkerTurns
  <2>2. CASE Launch(w)
    <3>1. \/ worker' = [worker EXCEPT ![w].pc = "publish", ![w].result = "interrupted"]
          \/ worker' = [worker EXCEPT ![w].pc = "poll", ![w].stop = FALSE]
      BY <2>2 DEF Launch
    <3> QED
      BY <1>a, <2>2, <3>1 DEF Launch, WorkerState, Busy, At
  <2>3. CASE Confirm(w)
    <3>1. \E pc, result : worker' = [worker EXCEPT ![w].pc = pc, ![w].result = result]
      BY <2>3 DEF Confirm
    <3> QED
      BY <1>a, <2>3, <3>1 DEF Confirm, WorkerState, Busy, At
  <2>4. ASSUME NEW v \in Verdicts, EvaluateInProcess(w, v)
        PROVE  Busy(w) /\ worker'[w].lease = worker[w].lease /\ worker'[w].job = worker[w].job
    BY <1>a, <2>4 DEF EvaluateInProcess, WorkerState, Busy, At
  <2>5. CASE PollRead(w) \/ Beat(w) \/ EvaluateInChild(w)
    BY <1>a, <2>5 DEF PollRead, Beat, PollBeat, EvaluateInChild, WorkerState, Busy, At
  <2>6. CASE WorkerRaises(w)
    BY <1>a, <2>6 DEF WorkerRaises, WorkerState, Busy
  <2>7. CASE Reap(w) \/ ClaimNothing(w)
    <3>1. \E pc \in {"claim", "reap"} : worker' = [worker EXCEPT ![w].pc = pc]
      BY <2>7 DEF Reap, ClaimNothing
    <3> QED
      BY <1>a, <3>1 DEF WorkerState, Busy
  <2>8. CASE Publish(w) \/ WorkerCrash(w)
    BY <1>a, <2>8 DEF Publish, WorkerCrash, IdleWorker, Busy
  <2>9. ASSUME NEW k \in Jobs, Claim(w, k)
        PROVE  /\ worker'[w].lease = claims + 1 /\ worker'[w].job = k /\ worker'[w].pc = "launch"
    BY <1>a, <2>9 DEF Claim, IdleWorker, NewLease
  <2> QED
    BY <2>1, <2>2, <2>3, <2>4, <2>5, <2>6, <2>7, <2>8, <2>9 DEF Turn, WorkerStep
<1> QED
  BY <1>1, <1>2

\* Work under a lease begins with a claim of the job.
LEMMA WorkBegins ==
  ASSUME TypeOK, [Next]_vars, NEW l \in Leases, NEW j \in Jobs, Working(l, j)'
  PROVE  Working(l, j) \/ \E w \in Workers : Claim(w, j) /\ l = claims + 1
<1>1. CASE Alive(l)' /\ child'[l].job = j
  <2>1. CASE child'[l] = child[l]
    BY <1>1, <2>1 DEF Working, Alive
  <2>2. CASE Alive(l) /\ child'[l].job = child[l].job
    BY <1>1, <2>2 DEF Working
  <2>3. ASSUME NEW w \in Workers, Launch(w), worker[w].lease = l, child'[l].job = worker[w].job
        PROVE  Working(l, j)
    BY <1>1, <2>3 DEF Working, Launch, Busy, At
  <2> QED
    BY <2>1, <2>2, <2>3, ChildMoves
<1>2. ASSUME NEW w \in Workers, Busy(w)', worker'[w].lease = l, worker'[w].job = j
      PROVE  Working(l, j) \/ \E u \in Workers : Claim(u, j) /\ l = claims + 1
  BY <1>2, WorkerKeeps DEF Working
<1> QED
  BY <1>1, <1>2 DEF Working

\* Nobody else's child, and none too early.
LEMMA Settling ==
  ASSUME TypeOK, LeasesFence, Settled, [Next]_vars
  PROVE  Settled'
<1>a. /\ child \in [Leases -> ChildState] /\ worker \in [Workers -> WorkerState]
      /\ claims \in Nat
  BY JobQueueAssumption DEF TypeOK, LeaseNumbers
<1>b. claims' \in {claims, claims + 1}
  <2>1. ASSUME NEW w \in Workers, Turn(w) PROVE claims' \in {claims, claims + 1}
    BY <2>1 DEF Turn, WorkerStep, Reap, Claim, ClaimNothing, Launch, PollRead, Beat, PollBeat, Confirm,
       EvaluateInChild, EvaluateInProcess, Publish, WorkerRaises, WorkerCrash
  <2>2. ASSUME NEW l \in Leases, ChildStep(l) PROVE claims' = claims
    BY <2>2 DEF ChildStep, AgentResume, AgentCreate, AgentInit, AgentCheckpoint, AgentWork, AgentFinal,
       AgentSummary, EvalLoad, EvalReport, ChildDies, ChildOnly
  <2>3. ASSUME NEW j \in Jobs, Submit(j) \/ Cancel(j) \/ CheckResume(j) \/ Resume(j) \/ Expire(j)
        PROVE  claims' = claims
    BY <2>3 DEF Submit, Cancel, CheckResume, Resume, Expire
  <2> QED
    BY <2>1, <2>2, <2>3 DEF Next, ApiStep, Turn, vars
<1>1. ASSUME NEW l \in Leases, l > claims' PROVE child'[l].state = "none"
  <2>1. child[l].state = "none" /\ ~Alive(l)
    BY <1>a, <1>b, <1>1 DEF Settled, Alive, Leases
  <2>2. ASSUME NEW w \in Workers, worker[w].lease = l PROVE FALSE
    BY <1>a, <1>b, <1>1, <2>2 DEF LeasesFence, Leases
  <2> QED
    BY <2>1, <2>2, ChildMoves
<1>2. ASSUME NEW w \in Workers, Busy(w)', worker'[w].pc \notin {"poll", "beat"}
      PROVE  child'[worker'[w].lease].state \in {"none", "exited"}
  <2> DEFINE l == worker'[w].lease
  <2>1. l \in Leases
    BY <1>2, Typing DEF TypeOK
  <2>2. ASSUME NEW u \in Workers, Launch(u), worker[u].lease = l, worker'[u].pc = "poll" PROVE FALSE
    <3>1. u # w /\ Busy(u)
      BY <1>2, <2>2 DEF Launch, Busy, At
    <3>2. CASE Busy(w) /\ l = worker[w].lease
      BY <2>2, <3>1, <3>2 DEF LeasesFence
    <3>3. CASE l = claims + 1
      BY <1>a, <2>2, <3>3 DEF LeasesFence
    <3> QED
      BY <1>2, <3>2, <3>3, WorkerKeeps
  <2>3. ASSUME ~Alive(l) PROVE child'[l].state \in {"none", "exited"}
    BY <2>1, <2>2, <2>3, ChildMoves DEF Alive
  <2>4. CASE worker'[w] = worker[w]
    BY <1>2, <2>3, <2>4 DEF Settled, Busy
  <2>5. CASE worker'[w] # worker[w]
    <3>1. Turn(w)
      BY <2>5, OneWorkerTurns
    <3>2. ASSUME NEW j \in Jobs, Claim(w, j) PROVE ~Alive(l)
      <4>1. l = claims + 1
        BY <1>a, <3>2 DEF Claim, IdleWorker, NewLease
      <4> QED
        BY <1>a, <2>1, <4>1 DEF Settled, Alive, Leases
    <3>3. CASE Busy(w) /\ l = worker[w].lease /\ worker[w].pc \notin {"poll", "beat"}
      BY <2>3, <3>3 DEF Settled
    <3>4. CASE Busy(w) /\ l = worker[w].lease /\ worker[w].pc \in {"poll", "beat"}
      <4>1. CASE Confirm(w)
        BY <2>3, <3>4, <4>1 DEF Confirm
      <4>2. CASE WorkerRaises(w)
        <5>1. child' = (IF Alive(l) THEN Exit(l, 1) ELSE child)
          BY <3>4, <4>2 DEF WorkerRaises, AfterRaise, Kill
        <5>2. Exit(l, 1)[l].state = "exited"
          BY <1>a, <2>1 DEF Exit, NoChild
        <5> QED
          BY <2>3, <5>1, <5>2
      <4>3. CASE PollRead(w) \/ Beat(w)
        BY <1>a, <1>2, <4>3 DEF PollRead, Beat, PollBeat, WorkerState
      <4>4. CASE WorkerCrash(w)
        BY <1>a, <1>2, <4>4 DEF WorkerCrash, IdleWorker, Busy
      <4> QED
        BY <3>1, <3>4, <4>1, <4>2, <4>3, <4>4
           DEF Turn, WorkerStep, Reap, Claim, ClaimNothing, Launch, EvaluateInChild, EvaluateInProcess, Publish, At
    <3> QED
      BY <1>2, <2>3, <3>2, <3>3, <3>4, WorkerKeeps
  <2> QED
    BY <2>4, <2>5
<1> QED
  BY <1>1, <1>2 DEF Settled, Alive

\* A row leaves its holder's hands by a reaping pass or by its holder.
LEMMA OwnershipEnds ==
  ASSUME TypeOK, Decided, [Next]_vars, NEW j \in Jobs, row[j].status \in Owned,
         ~(row'[j].status \in Owned /\ row'[j].lease = row[j].lease)
  PROVE  \/ hist'[j].reaps = hist[j].reaps + 1
         \/ \E w \in Workers : /\ Publish(w) /\ worker[w].job = j /\ worker[w].lease = row[j].lease
                               /\ row'[j].status \notin Owned
<1>a. row \in [Jobs -> JobRow] /\ hist \in [Jobs -> JobHistory]
  BY DEF TypeOK
<1>1. row' # row
  OBVIOUS
<1>2. ASSUME NEW k \in Jobs, Submit(k) \/ Cancel(k) \/ CheckResume(k) \/ Resume(k) \/ Expire(k) PROVE FALSE
  <2>1. CASE Submit(k) \/ CheckResume(k) \/ Expire(k)
    BY <1>a, <2>1 DEF Submit, CheckResume, Expire, JobRow, Owned
  <2>2. CASE Cancel(k)
    BY <1>a, <2>2 DEF Cancel, JobRow, Owned
  <2>3. CASE Resume(k)
    BY <1>a, <2>3 DEF Resume, JobRow, Owned, Stopped
  <2> QED
    BY <1>2, <2>1, <2>2, <2>3
<1>3. ASSUME NEW l \in Leases, ChildStep(l) PROVE FALSE
  BY <1>1, <1>3 DEF ChildStep, AgentResume, AgentCreate, AgentInit, AgentCheckpoint, AgentWork, AgentFinal,
     AgentSummary, EvalLoad, EvalReport, ChildDies, ChildOnly
<1>4. ASSUME NEW w \in Workers, Reap(w) PROVE hist'[j].reaps = hist[j].reaps + 1
  BY <1>a, <1>4 DEF Reap, JobRow, JobHistory
<1>5. ASSUME NEW w \in Workers, NEW k \in Jobs, Claim(w, k) PROVE FALSE
  BY <1>a, <1>5 DEF Claim, Oldest, Queued, JobRow, Owned
<1>6. ASSUME NEW w \in Workers, Beat(w) PROVE FALSE
  BY <1>a, <1>6 DEF Beat, PollBeat, JobRow, Owned
<1>7. ASSUME NEW w \in Workers, Publish(w)
      PROVE  worker[w].job = j /\ worker[w].lease = row[j].lease /\ row'[j].status \notin Owned
  <2>1. worker[w].job \in Jobs /\ worker[w].result \notin Owned
    BY <1>7, BusyTyping DEF Publish, At, Decided, Final, Stopped, Owned
  <2>2. Holds(w) /\ row' = [row EXCEPT ![worker[w].job].status = worker[w].result, ![worker[w].job].lease = NoLease]
    BY <1>1, <1>7 DEF Publish
  <2> QED
    BY <1>a, <2>1, <2>2 DEF JobRow, Holds
<1>8. ASSUME NEW w \in Workers,
             \/ ClaimNothing(w) \/ Launch(w) \/ PollRead(w) \/ Confirm(w) \/ EvaluateInChild(w)
             \/ WorkerRaises(w) \/ WorkerCrash(w) \/ \E v \in Verdicts : EvaluateInProcess(w, v)
      PROVE  FALSE
  BY <1>1, <1>8 DEF ClaimNothing, Launch, PollRead, Confirm, EvaluateInChild, EvaluateInProcess,
     WorkerRaises, WorkerCrash
<1> QED
  BY <1>2, <1>3, <1>4, <1>5, <1>6, <1>7, <1>8 DEF Next, ApiStep, WorkerStep, vars

\* Reaped heartbeats are counted and never forgotten.
LEMMA ReapsGrow ==
  ASSUME TypeOK, [Next]_vars, NEW j \in Jobs
  PROVE  hist'[j].reaps \in {hist[j].reaps, hist[j].reaps + 1}
<1>a. hist \in [Jobs -> JobHistory]
  BY DEF TypeOK
<1>1. CASE hist' = hist
  BY <1>1
<1>2. ASSUME NEW k \in Jobs, Cancel(k) PROVE hist'[j].reaps = hist[j].reaps
  BY <1>a, <1>2 DEF Cancel, JobHistory
<1>3. ASSUME NEW w \in Workers, Reap(w) PROVE hist'[j].reaps \in {hist[j].reaps, hist[j].reaps + 1}
  BY <1>a, <1>3 DEF Reap, JobHistory
<1>4. ASSUME NEW w \in Workers, NEW k \in Jobs, Claim(w, k) PROVE hist'[j].reaps = hist[j].reaps
  BY <1>a, <1>4 DEF Claim, JobHistory
<1>5. ASSUME NEW w \in Workers, Confirm(w) \/ Publish(w) \/ \E v \in Verdicts : EvaluateInProcess(w, v)
      PROVE  hist'[j].reaps = hist[j].reaps
  <2>1. \/ hist' = hist
        \/ \E e : hist' = [hist EXCEPT ![worker[w].job].eval = e]
        \/ \E p : hist' = [hist EXCEPT ![worker[w].job].publisher = p]
    BY <1>5 DEF Confirm, Publish, EvaluateInProcess
  <2>2. ASSUME NEW e, hist' = [hist EXCEPT ![worker[w].job].eval = e]
        PROVE  hist'[j].reaps = hist[j].reaps
    BY <1>a, <2>2 DEF JobHistory
  <2>3. ASSUME NEW p, hist' = [hist EXCEPT ![worker[w].job].publisher = p]
        PROVE  hist'[j].reaps = hist[j].reaps
    BY <1>a, <2>3 DEF JobHistory
  <2> QED
    BY <2>1, <2>2, <2>3
<1>6. ASSUME NEW w \in Workers,
             \/ ClaimNothing(w) \/ Launch(w) \/ PollRead(w) \/ Beat(w) \/ EvaluateInChild(w)
             \/ WorkerRaises(w) \/ WorkerCrash(w)
      PROVE  hist' = hist
  BY <1>6 DEF ClaimNothing, Launch, PollRead, Beat, PollBeat, EvaluateInChild, WorkerRaises, WorkerCrash
<1>7. ASSUME NEW l \in Leases, ChildStep(l) PROVE hist' = hist
  BY <1>7 DEF ChildStep, AgentResume, AgentCreate, AgentInit, AgentCheckpoint, AgentWork, AgentFinal,
     AgentSummary, EvalLoad, EvalReport, ChildDies, ChildOnly
<1>8. ASSUME NEW k \in Jobs, Submit(k) \/ CheckResume(k) \/ Resume(k) \/ Expire(k) PROVE hist' = hist
  BY <1>8 DEF Submit, CheckResume, Resume, Expire
<1> QED
  BY <1>1, <1>2, <1>3, <1>4, <1>5, <1>6, <1>7, <1>8 DEF Next, ApiStep, WorkerStep, vars

\* Only a reaping pass adds to the leases somebody works under in vain.
LEMMA LooseGrows ==
  ASSUME TypeOK, LeasesFence, Decided, Settled, [Next]_vars, NEW j \in Jobs
  PROVE  \/ Loose(j)' \subseteq Loose(j)
         \/ /\ hist'[j].reaps = hist[j].reaps + 1
            /\ Loose(j)' \subseteq Loose(j) \cup {row[j].lease}
<1>a. row \in [Jobs -> JobRow] /\ worker \in [Workers -> WorkerState]
  BY DEF TypeOK
<1>1. ASSUME NEW l \in Loose(j)'
      PROVE  /\ l \in Leases /\ Working(l, j) /\ Working(l, j)'
             /\ ~(row'[j].status \in Owned /\ row'[j].lease = l)
  <2>1. l \in Leases /\ Working(l, j)' /\ ~(row'[j].status \in Owned /\ row'[j].lease = l)
    BY <1>1 DEF Loose
  <2>2. ASSUME NEW w \in Workers, Claim(w, j), l = claims + 1 PROVE FALSE
    BY <1>a, <2>1, <2>2 DEF Claim, NewLease, JobRow, Owned
  <2> QED
    BY <2>1, <2>2, WorkBegins
<1>2. CASE row[j].status \in Owned /\ ~(row'[j].status \in Owned /\ row'[j].lease = row[j].lease)
  <2>1. ASSUME NEW w \in Workers, Publish(w), worker[w].job = j, worker[w].lease = row[j].lease
        PROVE  Loose(j)' \subseteq Loose(j)
    <3> SUFFICES ASSUME NEW l \in Loose(j)', l = row[j].lease PROVE FALSE
      BY <1>1 DEF Loose
    <3>1. Busy(w) /\ l = worker[w].lease /\ ~Alive(l) /\ child' = child
      BY <2>1 DEF Publish, Settled, Busy, At
    <3>2. ASSUME NEW u \in Workers, Busy(u)', worker'[u].lease = l PROVE FALSE
      <4>1. u # w
        BY <1>a, <2>1, <3>2 DEF Publish, IdleWorker, Busy
      <4>2. worker'[u] = worker[u]
        BY <1>a, <2>1, <4>1 DEF Publish
      <4> QED
        BY <3>1, <3>2, <4>1, <4>2 DEF LeasesFence, Busy
    <3> QED
      BY <1>1, <3>1, <3>2 DEF Working, Alive
  <2>2. CASE hist'[j].reaps = hist[j].reaps + 1
    BY <1>1, <2>2 DEF Loose
  <2> QED
    BY <1>2, <2>1, <2>2, OwnershipEnds
<1>3. CASE ~(row[j].status \in Owned /\ ~(row'[j].status \in Owned /\ row'[j].lease = row[j].lease))
  BY <1>1, <1>3 DEF Loose
<1> QED
  BY <1>2, <1>3

\* There are finitely many leases.
LEMMA LooseIsFinite ==
  ASSUME NEW j \in Jobs
  PROVE  IsFiniteSet(Loose(j)) /\ Cardinality(Loose(j)) \in Nat
<1>1. IsFiniteSet(Leases)
  BY FS_Interval, JobQueueAssumption DEF Leases
<1> QED
  BY <1>1, FS_Subset, FS_CardinalityType DEF Loose

\* One more element at most.
LEMMA OneMore ==
  ASSUME NEW S, NEW e, IsFiniteSet(S)
  PROVE  /\ IsFiniteSet(S \cup {e})
         /\ Cardinality(S \cup {e}) \in Nat
         /\ Cardinality(S \cup {e}) <= Cardinality(S) + 1
<1>1. IsFiniteSet(S \cup {e})
  BY FS_AddElement
<1>2. Cardinality(S \cup {e}) \in Nat /\ Cardinality(S) \in Nat
  BY <1>1, FS_CardinalityType
<1>3. Cardinality(S \cup {e}) \in {Cardinality(S), Cardinality(S) + 1}
  <2>1. CASE e \in S
    <3>1. S \cup {e} = S
      BY <2>1
    <3> QED
      BY <3>1
  <2>2. CASE e \notin S
    BY <2>2, FS_AddElement
  <2> QED
    BY <2>1, <2>2
<1> QED
  BY <1>1, <1>2, <1>3

\* Every step keeps the count of reaped heartbeats above the loose leases.
LEMMA Reaping ==
  ASSUME TypeOK, LeasesFence, Decided, Settled, Reaped, [Next]_vars
  PROVE  Reaped'
<1> SUFFICES ASSUME NEW j \in Jobs PROVE Cardinality(Loose(j)') <= hist'[j].reaps
  BY DEF Reaped
<1>a. /\ IsFiniteSet(Loose(j)) /\ Cardinality(Loose(j)) \in Nat
      /\ Cardinality(Loose(j)) <= hist[j].reaps /\ hist[j].reaps \in Nat
  BY LooseIsFinite DEF Reaped, TypeOK, JobHistory
<1>1. CASE Loose(j)' \subseteq Loose(j)
  <2>1. Cardinality(Loose(j)') <= Cardinality(Loose(j)) /\ Cardinality(Loose(j)') \in Nat
    BY <1>a, <1>1, FS_Subset, FS_CardinalityType
  <2> QED
    BY <1>a, <2>1, ReapsGrow
<1>2. CASE hist'[j].reaps = hist[j].reaps + 1 /\ Loose(j)' \subseteq Loose(j) \cup {row[j].lease}
  <2> DEFINE T == Loose(j) \cup {row[j].lease}
  <2>1. IsFiniteSet(T) /\ Cardinality(T) <= Cardinality(Loose(j)) + 1 /\ Cardinality(T) \in Nat
    BY <1>a, OneMore
  <2>2. Cardinality(Loose(j)') <= Cardinality(T) /\ Cardinality(Loose(j)') \in Nat
    BY <1>2, <2>1, FS_Subset, FS_CardinalityType
  <2> QED
    BY <1>a, <1>2, <2>1, <2>2
<1> QED
  BY <1>1, <1>2, LooseGrows

\* The invariant about attempts.
Attempted == Decided /\ Settled /\ Reaped

\* Nobody has attempted anything at the start.
LEMMA InitAttempted == Init => Attempted
<1> SUFFICES ASSUME Init PROVE Attempted
  OBVIOUS
<1>1. Decided /\ Settled
  BY DEF Init, Decided, Settled, IdleWorker, NoChild, Busy, At
<1>2. ASSUME NEW j \in Jobs PROVE Loose(j) = {}
  BY DEF Init, Loose, Working, Alive, Busy, IdleWorker, NoChild
<1>3. ASSUME NEW j \in Jobs PROVE Cardinality(Loose(j)) <= hist[j].reaps
  <2>1. Cardinality(Loose(j)) = 0
    <3>1. Loose(j) = {}
      BY <1>2
    <3> QED
      BY <3>1, FS_EmptySet
  <2>2. hist[j].reaps = 0
    BY DEF Init
  <2> QED
    BY <2>1, <2>2
<1> QED
  BY <1>1, <1>3 DEF Attempted, Reaped

\* Every step keeps the invariant about attempts.
LEMMA AttemptedStep == TypeOK /\ LeasesFence /\ Attempted /\ [Next]_vars => Attempted'
BY Deciding, Settling, Reaping DEF Attempted

\* Two processes work in one run directory only after a heartbeat expired: one
\* more than the heartbeats that were reaped, however the workers die.
THEOREM ChildrenAreReaped == Spec => []ChildrenOverlapOnlyAfterReap
<1>1. ASSUME TypeOK, Attempted, NEW j \in Jobs
      PROVE  Cardinality(LiveChildren(j)) <= 1 + hist[j].reaps
  <2> DEFINE T == Loose(j) \cup {row[j].lease}
  <2>1. LiveChildren(j) \subseteq T
    BY DEF LiveChildren, Loose, Working
  <2>2. /\ IsFiniteSet(Loose(j)) /\ Cardinality(Loose(j)) \in Nat
        /\ Cardinality(Loose(j)) <= hist[j].reaps /\ hist[j].reaps \in Nat
    BY <1>1, LooseIsFinite DEF Attempted, Reaped, TypeOK, JobHistory
  <2>3. IsFiniteSet(T) /\ Cardinality(T) <= Cardinality(Loose(j)) + 1 /\ Cardinality(T) \in Nat
    BY <2>2, OneMore
  <2>4. Cardinality(LiveChildren(j)) <= Cardinality(T) /\ Cardinality(LiveChildren(j)) \in Nat
    BY <2>1, <2>3, FS_Subset, FS_CardinalityType
  <2> QED
    BY <2>2, <2>3, <2>4
<1>2. TypeOK /\ Attempted => ChildrenOverlapOnlyAfterReap
  BY <1>1 DEF ChildrenOverlapOnlyAfterReap
<1> QED
  BY <1>2, InitAttempted, AttemptedStep, QueueTyping, QueueFencing, PTL DEF Spec

-----------------------------------------------------------------------------
\* A checkpoint, and a first run past the creation of its workspace, lie in a
\* workspace that exists.
Rooted ==
  /\ \A j \in Jobs : disk[j].ckpt # "none" => disk[j].tree
  /\ \A l \in Leases : child[l].state \in {"created", "recorded", "running"}
                         => disk[child[l].job].tree

\* While no heartbeat of its job was reaped, a first run has no checkpoint
\* before it writes one, and a running agent has written any that records an
\* outstanding or a finished state.
Authored ==
  \A l \in Leases : (Alive(l) /\ hist[child[l].job].reaps = 0) =>
    /\ child[l].state \in {"created", "recorded"} => disk[child[l].job].ckpt = "none"
    /\ (child[l].state = "running" /\ disk[child[l].job].ckpt \in {"unknown", "completed"})
         => disk[child[l].job].writer = l

\* Without a reaped heartbeat nobody works beside the holder of the row.
LEMMA Alone ==
  ASSUME TypeOK, Reaped, NEW j \in Jobs, hist[j].reaps = 0,
         NEW l \in Leases, NEW m \in Leases, Working(l, j), Working(m, j)
  PROVE  l = m
<1>1. IsFiniteSet(Loose(j)) /\ Cardinality(Loose(j)) \in Nat /\ Cardinality(Loose(j)) <= 0
  BY LooseIsFinite DEF Reaped
<1>2. Cardinality(Loose(j)) = 0
  BY <1>1
<1>3. Loose(j) = {}
  BY <1>1, <1>2, FS_EmptySet
<1> QED
  BY <1>3 DEF Loose

\* The checkpoint is written by the agent at its first checkpoint, at a request
\* or a tool call, and at its end; workspaces are never removed.
Writes(l) ==
  /\ child[l].state \in {"recorded", "running"}
  /\ child'[l].state \in {"running", "ended"}
  /\ disk'[child[l].job].writer = l

LEMMA CheckpointMoves ==
  ASSUME TypeOK, [Next]_vars, NEW j \in Jobs
  PROVE  /\ disk[j].tree => disk'[j].tree
         /\ \/ disk'[j].ckpt = disk[j].ckpt /\ disk'[j].writer = disk[j].writer
            \/ \E l \in Leases : child[l].job = j /\ Writes(l)
<1>a. disk \in [Jobs -> RunDir] /\ child \in [Leases -> ChildState]
  BY DEF TypeOK
<1> DEFINE Kept == disk'[j].tree = disk[j].tree /\ disk'[j].ckpt = disk[j].ckpt /\ disk'[j].writer = disk[j].writer
<1>1. CASE disk' = disk
  BY <1>1
<1>2. ASSUME NEW l \in Leases, ChildStep(l)
      PROVE  /\ disk[j].tree => disk'[j].tree
             /\ \/ disk'[j].ckpt = disk[j].ckpt /\ disk'[j].writer = disk[j].writer
                \/ child[l].job = j /\ Writes(l)
  <2>1. CASE AgentResume(l) \/ ChildDies(l)
    BY <2>1 DEF AgentResume, ChildDies
  <2>2. CASE AgentCreate(l) \/ AgentInit(l)
    BY <1>a, <2>2 DEF AgentCreate, AgentInit, RunDir
  <2>3. CASE AgentCheckpoint(l)
    BY <1>a, <2>3 DEF AgentCheckpoint, Save, In, Enter, Writes, RunDir, ChildState
  <2>4. ASSUME NEW c \in {"resumable", "unknown", "completed"}, AgentWork(l, c)
        PROVE  disk[j].tree = disk'[j].tree /\ (child[l].job = j => Writes(l))
               /\ (child[l].job # j => Kept)
    BY <1>a, <2>4 DEF AgentWork, Save, In, Writes, RunDir, ChildState
  <2>5. ASSUME NEW c \in {"resumable", "unknown", "completed"}, NEW code \in {0, 1}, AgentFinal(l, c, code)
        PROVE  disk[j].tree = disk'[j].tree /\ (child[l].job = j => Writes(l))
               /\ (child[l].job # j => Kept)
    BY <1>a, <2>5 DEF AgentFinal, Save, In, Writes, RunDir, ChildState
  <2>6. CASE AgentSummary(l) \/ EvalLoad(l)
    BY <1>a, <2>6 DEF AgentSummary, EvalLoad, RunDir
  <2>7. ASSUME NEW v \in Verdicts, EvalReport(l, v) PROVE Kept
    BY <1>a, <2>7 DEF EvalReport, RunDir
  <2> QED
    BY <1>2, <2>1, <2>2, <2>3, <2>4, <2>5, <2>6, <2>7 DEF ChildStep
<1>3. ASSUME NEW w \in Workers, Launch(w) PROVE Kept
  BY <1>a, <1>3 DEF Launch, RunDir
<1>4. ASSUME NEW w \in Workers, NEW v \in Verdicts, EvaluateInProcess(w, v) PROVE Kept
  BY <1>a, <1>4 DEF EvaluateInProcess, RunDir
<1>5. ASSUME NEW w \in Workers,
             \/ Reap(w) \/ ClaimNothing(w) \/ PollRead(w) \/ Beat(w) \/ Confirm(w) \/ EvaluateInChild(w)
             \/ Publish(w) \/ WorkerRaises(w) \/ WorkerCrash(w) \/ \E k \in Jobs : Claim(w, k)
      PROVE  disk' = disk
  BY <1>5 DEF Reap, ClaimNothing, PollRead, Beat, PollBeat, Confirm, EvaluateInChild, Publish,
     WorkerRaises, WorkerCrash, Claim
<1>6. ASSUME NEW k \in Jobs, Submit(k) \/ Cancel(k) \/ CheckResume(k) \/ Resume(k) \/ Expire(k)
      PROVE  disk' = disk
  BY <1>6 DEF Submit, Cancel, CheckResume, Resume, Expire
<1> QED
  BY <1>1, <1>2, <1>3, <1>4, <1>5, <1>6 DEF Next, ApiStep, WorkerStep, vars

\* How a child comes to work in the run directory.
LEMMA ChildEnters ==
  ASSUME TypeOK, [Next]_vars, NEW l \in Leases, ChildStep(l), Alive(l)'
  PROVE  \/ child'[l].state \notin {"created", "recorded", "running"}
         \/ child'[l].state = "running" /\ disk'[child[l].job].ckpt = "resumable"
         \/ child[l].state = "running" /\ Writes(l)
         \/ child[l].state = "created" /\ child'[l].state = "recorded" /\ disk[child[l].job].ckpt = disk'[child[l].job].ckpt
         \/ /\ child'[l].state = "created" /\ ~disk[child[l].job].tree /\ disk'[child[l].job].tree
            /\ disk[child[l].job].ckpt = disk'[child[l].job].ckpt
<1>a. /\ disk \in [Jobs -> RunDir] /\ child \in [Leases -> ChildState]
      /\ child[l].state # "none" => child[l].job \in Jobs
  BY DEF TypeOK
<1>b. ASSUME NEW code PROVE Exit(l, code)[l].state = "exited"
  BY <1>a DEF Exit, NoChild
<1>c. ASSUME NEW state PROVE Enter(l, state)[l].state = state
  BY <1>a DEF Enter, ChildState
<1>1. CASE AgentResume(l)
  BY <1>a, <1>b, <1>c, <1>1 DEF AgentResume, Alive, Resumable
<1>2. CASE AgentCreate(l)
  BY <1>a, <1>b, <1>c, <1>2 DEF AgentCreate, Alive, In, RunDir
<1>3. CASE AgentInit(l)
  BY <1>a, <1>b, <1>c, <1>3 DEF AgentInit, Alive, In, RunDir
<1>4. CASE AgentCheckpoint(l)
  BY <1>a, <1>c, <1>4 DEF AgentCheckpoint, In, Save, RunDir
<1>5. ASSUME NEW c \in {"resumable", "unknown", "completed"}, AgentWork(l, c)
      PROVE  child[l].state = "running" /\ Writes(l)
  BY <1>a, <1>5 DEF AgentWork, In, Save, Writes, RunDir
<1>6. ASSUME NEW c \in {"resumable", "unknown", "completed"}, NEW code \in {0, 1}, AgentFinal(l, c, code)
      PROVE  child'[l].state = "ended"
  BY <1>a, <1>6 DEF AgentFinal, ChildState
<1>7. CASE AgentSummary(l) \/ ChildDies(l)
  BY <1>b, <1>7 DEF AgentSummary, ChildDies, Alive
<1>8. CASE EvalLoad(l)
  BY <1>b, <1>c, <1>8 DEF EvalLoad, Alive
<1>9. ASSUME NEW v \in Verdicts, EvalReport(l, v) PROVE FALSE
  BY <1>b, <1>9 DEF EvalReport, Alive
<1> QED
  BY <1>1, <1>2, <1>3, <1>4, <1>5, <1>6, <1>7, <1>8, <1>9 DEF ChildStep

\* Every step keeps checkpoints in workspaces.
LEMMA Rooting ==
  ASSUME TypeOK, Rooted, [Next]_vars
  PROVE  Rooted'
<1>a. /\ disk \in [Jobs -> RunDir] /\ child \in [Leases -> ChildState]
      /\ \A l \in Leases : child[l].state # "none" => child[l].job \in Jobs
  BY DEF TypeOK
<1>1. ASSUME NEW j \in Jobs, disk'[j].ckpt # "none" PROVE disk'[j].tree
  <2>1. CASE disk'[j].ckpt = disk[j].ckpt
    BY <1>1, <2>1, CheckpointMoves DEF Rooted
  <2>2. ASSUME NEW l \in Leases, child[l].job = j, Writes(l) PROVE disk'[j].tree
    BY <2>2, CheckpointMoves DEF Rooted, Writes
  <2> QED
    BY <2>1, <2>2, CheckpointMoves
<1>2. ASSUME NEW l \in Leases, child'[l].state \in {"created", "recorded", "running"}
      PROVE  disk'[child'[l].job].tree
  <2>1. CASE child'[l] = child[l]
    BY <1>a, <1>2, <2>1, CheckpointMoves DEF Rooted
  <2>2. CASE child'[l].job = child[l].job /\ child'[l].state = child[l].state
    BY <1>a, <1>2, <2>2, CheckpointMoves DEF Rooted
  <2>3. CASE ChildStep(l) /\ child'[l].job = child[l].job /\ Alive(l)
    <3>1. child[l].job \in Jobs
      BY <1>a, <2>3 DEF Alive
    <3>2. Alive(l)'
      BY <1>2 DEF Alive
    <3>3. CASE child'[l].state = "running" /\ disk'[child[l].job].ckpt = "resumable"
      BY <1>1, <2>3, <3>1, <3>3
    <3>4. CASE child[l].state = "running" \/ child[l].state = "created"
      BY <2>3, <3>1, <3>4, CheckpointMoves DEF Rooted
    <3> QED
      BY <1>2, <2>3, <3>2, <3>3, <3>4, ChildEnters
  <2> QED
    BY <1>2, <2>1, <2>2, <2>3, ChildMoves
<1> QED
  BY <1>1, <1>2 DEF Rooted

\* Every step keeps a checkpoint with its writer.
LEMMA Authoring ==
  ASSUME TypeOK, Reaped, Rooted, Authored, [Next]_vars
  PROVE  Authored'
<1> SUFFICES ASSUME NEW l \in Leases, Alive(l)', hist'[child'[l].job].reaps = 0
             PROVE  /\ child'[l].state \in {"created", "recorded"} => disk'[child'[l].job].ckpt = "none"
                    /\ (child'[l].state = "running" /\ disk'[child'[l].job].ckpt \in {"unknown", "completed"})
                         => disk'[child'[l].job].writer = l
  BY DEF Authored
<1> DEFINE j == child'[l].job
<1>1. CASE Alive(l) /\ child'[l].job = child[l].job
  <2>1. j \in Jobs /\ Working(l, j)
    BY <1>1 DEF TypeOK, Alive, Working
  <2>2. hist[j].reaps = 0
    <3>1. hist[j].reaps \in Nat
      BY <2>1 DEF TypeOK, JobHistory
    <3> QED
      BY <2>1, <3>1, ReapsGrow
  <2>3. ASSUME NEW m \in Leases, child[m].job = j, Writes(m) PROVE m = l
    <3>1. Working(m, j)
      BY <2>3 DEF Working, Writes, Alive
    <3> QED
      BY <2>1, <2>2, <3>1, Alone
  <2>4. CASE Writes(l)
    BY <1>1, <2>4 DEF Writes
  <2>5. CASE disk'[j].ckpt = disk[j].ckpt /\ disk'[j].writer = disk[j].writer
    <3>1. CASE child'[l].state = child[l].state
      BY <1>1, <2>2, <2>5, <3>1 DEF Authored
    <3>2. CASE ChildStep(l)
      <4>1. CASE child[l].state = "running" /\ Writes(l)
        BY <2>4, <4>1
      <4>2. CASE child'[l].state = "running" /\ disk'[child[l].job].ckpt = "resumable"
        BY <1>1, <4>2
      <4>3. CASE child[l].state = "created" /\ child'[l].state = "recorded"
        BY <1>1, <2>2, <2>5, <4>3 DEF Authored
      <4>4. CASE child'[l].state = "created" /\ ~disk[child[l].job].tree
        BY <1>1, <2>1, <2>5, <4>4 DEF Rooted
      <4> QED
        BY <3>2, <4>1, <4>2, <4>3, <4>4, ChildEnters
    <3>3. CASE child'[l].state = "exited"
      BY <3>3 DEF Alive
    <3> QED
      BY <1>1, <3>1, <3>2, <3>3, ChildMoves
  <2> QED
    BY <2>1, <2>3, <2>4, <2>5, CheckpointMoves
<1>2. CASE child'[l].state \in {"starting", "loading"}
  BY <1>2
<1>3. CASE child'[l] = child[l]
  BY <1>1, <1>3 DEF Alive
<1> QED
  BY <1>1, <1>2, <1>3, ChildMoves

\* While no heartbeat of a job expired, a checkpoint that records an
\* outstanding or a finished state is moved on by its writer alone
\* (AgentRuntime.run, app.resume).
THEOREM CheckpointsHaveOneWriter == Spec => OnlyItsWriterSettlesACheckpoint
<1>1. Init => Rooted /\ Authored
  BY DEF Init, Rooted, Authored, Alive, EmptyDir, NoChild
<1>2. ASSUME TypeOK, Reaped, Rooted, Authored, [Next]_vars, NEW j \in Jobs, hist[j].reaps = 0,
             disk[j].ckpt \in {"unknown", "completed"}, disk'[j].ckpt # disk[j].ckpt
      PROVE  disk'[j].writer = disk[j].writer
  <2>1. PICK l \in Leases : child[l].job = j /\ Writes(l)
    BY <1>2, CheckpointMoves
  <2> QED
    BY <1>2, <2>1 DEF Authored, Writes, Alive
<1>3. TypeOK /\ Attempted /\ Rooted /\ Authored /\ [Next]_vars
        => [\A j \in Jobs :
              (/\ hist[j].reaps = 0
               /\ disk[j].ckpt \in {"unknown", "completed"}
               /\ disk'[j].ckpt # disk[j].ckpt) => disk'[j].writer = disk[j].writer]_vars
  BY <1>2 DEF Attempted
<1>4. TypeOK /\ Attempted /\ Rooted /\ Authored /\ [Next]_vars => (Rooted /\ Authored)'
  BY Rooting, Authoring DEF Attempted
<1> QED
  BY <1>1, <1>3, <1>4, InitAttempted, AttemptedStep, QueueTyping, QueueFencing, PTL
     DEF Spec, OnlyItsWriterSettlesACheckpoint
=============================================================================

--------------------------- MODULE CampaignProofs ---------------------------
(***************************************************************************)
(* For every set of tasks and pool of threads, and however often collectors*)
(* are killed and started again: no rollout is paid twice, and while the   *)
(* fast campaign makes at most two attempts no task has two open rollouts. *)
(* The fast campaign keeps to its target in its first start, and no cohort *)
(* starts a training on an outcome it does not know or on a task without a *)
(* completed agent.                                                        *)
(***************************************************************************)
EXTENDS CampaignSafety, FiniteSetTheorems, TLAPS

Numbers == 0 .. Attempts - 1
AThread == [at : Threads, attempt : Numbers, result : {"none", "accepted", "rejected", "uncertain"}]
CoordFields == {"at", "passed", "ready", "tried", "halted"}

\* A coordinator, as far as its fields go.
CoordLike(k) == k = [f \in CoordFields |-> k[f]]

\* Types; only the fast campaign makes a second attempt.
Typed ==
  /\ log \subseteq Runs /\ paid \in [Runs -> Nat]
  /\ outcome \in [Runs -> {"none", "accepted", "rejected", "uncertain"}]
  /\ thread \in [Cohorts -> [Tasks -> AThread]]
  /\ \A c \in Cohorts, t \in Tasks : c # "fast" => thread[c][t].attempt = 0
  /\ coord = [c \in Cohorts |-> coord[c]] /\ \A c \in Cohorts : CoordLike(coord[c])

\* A thread names one of the rollouts.
LEMMA ThreadNames ==
  ASSUME Typed, NEW c \in Cohorts, NEW t \in Tasks
  PROVE  RunOf(c, t) \in Runs /\ thread[c][t] \in AThread
<1>1. thread[c][t] \in AThread
  BY DEF Typed
<1>2. thread[c][t].attempt \in Numbers /\ (c # "fast" => thread[c][t].attempt = 0)
  BY <1>1 DEF Typed, AThread
<1> QED
  BY <1>1, <1>2 DEF RunOf, Runs, Numbers, Cohorts

\* No thread has passed the check twice, and who passed it has not paid.
PaidInv ==
  /\ \A r \in Runs : paid[r] <= 1 /\ (r \notin log => paid[r] = 0)
  /\ \A c \in Cohorts, t \in Tasks : thread[c][t].at = "launch" => RunOf(c, t) \notin log

\* The one thread that a step changes.
Turned(c, t, x) ==
  /\ thread'[c][t] = x
  /\ \A d \in Cohorts, u \in Tasks : <<d, u>> # <<c, t>> => thread'[d][u] = thread[d][u]

\* What a change of one thread does.
LEMMA OneThread ==
  ASSUME Typed, NEW c \in Cohorts, NEW t \in Tasks, NEW x \in AThread,
         thread' = [thread EXCEPT ![c][t] = x], c # "fast" => x.attempt = 0
  PROVE  /\ Turned(c, t, x) /\ thread' \in [Cohorts -> [Tasks -> AThread]]
         /\ \A d \in Cohorts, u \in Tasks : d # "fast" => thread'[d][u].attempt = 0
<1>1. thread \in [Cohorts -> [Tasks -> AThread]]
  BY DEF Typed
<1>2. thread[c] \in [Tasks -> AThread]
  BY <1>1
<1>3. thread' = [thread EXCEPT ![c] = [thread[c] EXCEPT ![t] = x]]
  OBVIOUS
<1>4. [thread[c] EXCEPT ![t] = x] \in [Tasks -> AThread]
  BY <1>2
<1>5. thread' \in [Cohorts -> [Tasks -> AThread]]
  BY <1>1, <1>3, <1>4
<1>6. thread'[c] = [thread[c] EXCEPT ![t] = x] /\ \A d \in Cohorts : d # c => thread'[d] = thread[d]
  BY <1>1, <1>3
<1>7. thread'[c][t] = x /\ \A u \in Tasks : u # t => thread'[c][u] = thread[c][u]
  BY <1>2, <1>6
<1>8. Turned(c, t, x)
  BY <1>6, <1>7 DEF Turned
<1> QED
  BY <1>5, <1>6, <1>7, <1>8 DEF Typed

\* The three ways a thread goes on.
LEMMA ThreadMoves ==
  ASSUME Typed, NEW c \in Cohorts, NEW t \in Tasks
  PROVE  /\ \A a \in Threads : [thread EXCEPT ![c][t].at = a] = [thread EXCEPT ![c][t] = [thread[c][t] EXCEPT !.at = a]]
         /\ \A x : Finish(c, t, x) = [thread EXCEPT ![c][t] = [thread[c][t] EXCEPT !.at = "done", !.result = x]]
         /\ AfterRejection(c, t) =
              IF c = "fast" /\ thread[c][t].attempt + 1 < Attempts
              THEN [thread EXCEPT ![c][t] = [thread[c][t] EXCEPT !.at = "check", !.attempt = @ + 1]]
              ELSE Finish(c, t, "rejected")
<1>1. thread \in [Cohorts -> [Tasks -> AThread]] /\ thread[c] \in [Tasks -> AThread]
  BY DEF Typed
<1>2. \A a \in Threads : [thread EXCEPT ![c][t].at = a] = [thread EXCEPT ![c][t] = [thread[c][t] EXCEPT !.at = a]]
  BY <1>1
<1>3. \A x : Finish(c, t, x) = [thread EXCEPT ![c][t] = [thread[c][t] EXCEPT !.at = "done", !.result = x]]
  BY <1>1 DEF Finish
<1>4. [thread EXCEPT ![c][t].at = "check", ![c][t].attempt = @ + 1]
        = [thread EXCEPT ![c][t] = [thread[c][t] EXCEPT !.at = "check", !.attempt = @ + 1]]
  BY <1>1
<1> QED
  BY <1>2, <1>3, <1>4 DEF AfterRejection

-----------------------------------------------------------------------------
\* What a thread may do to its rollout, in a step that leaves it at x.
Moves(c, t, x) ==
  LET k == thread[c][t]
      r == RunOf(c, t)
      On == x.at = "check" /\ x.attempt = k.attempt + 1 /\ c = "fast"
      Still == log' = log /\ paid' = paid /\ outcome' = outcome
  IN  \/ Still /\ k.at = "check" /\ x.at = "done"
      \/ Still /\ k.at = "check" /\ On /\ outcome[r] = "rejected"
      \/ Still /\ k.at = "check" /\ outcome[r] = "none" /\ r \notin log /\ x = [k EXCEPT !.at = "launch"]
      \/ /\ k.at = "launch" /\ x = [k EXCEPT !.at = "wait"]
         /\ log' = log \cup {r} /\ paid' = [paid EXCEPT ![r] = @ + 1] /\ outcome' = outcome
      \/ Still /\ k.at = "wait" /\ x = [k EXCEPT !.at = "export"]
      \/ /\ k.at \in {"wait", "export"} /\ log' = log /\ paid' = paid
         /\ \E o \in {"accepted", "rejected", "uncertain"} :
              /\ outcome' = [outcome EXCEPT ![r] = o]
              /\ \/ x.at = "done" /\ x.result = o
                 \/ On /\ o = "rejected"

\* The coordinators stay what they are; their lists of ready tasks do not grow.
SameReady ==
  /\ coord' = [c \in Cohorts |-> coord'[c]] /\ \A c \in Cohorts : CoordLike(coord'[c])
  /\ \A c \in Cohorts : coord'[c].ready \subseteq coord[c].ready

\* Halting changes no list.
LEMMA Halting ==
  ASSUME Typed, NEW c \in Cohorts, NEW b, coord' = coord \/ coord' = Halt(c, b)
  PROVE  SameReady
<1>1. CoordLike(coord[c]) /\ coord = [d \in Cohorts |-> coord[d]]
  BY DEF Typed
<1>2. \A x : LET k == [coord[c] EXCEPT !.halted = x] IN CoordLike(k) /\ k.ready = coord[c].ready
  BY <1>1 DEF CoordLike, CoordFields
<1>3. coord' = coord \/ \E x : coord' = [coord EXCEPT ![c] = [coord[c] EXCEPT !.halted = x]]
  BY <1>1 DEF Halt
<1>4. CASE coord' = coord
  BY <1>1, <1>4 DEF Typed, SameReady
<1>5. ASSUME NEW x, coord' = [coord EXCEPT ![c] = [coord[c] EXCEPT !.halted = x]]
      PROVE  SameReady
  <2> DEFINE k == [coord[c] EXCEPT !.halted = x]
  <2>1. CoordLike(k) /\ k.ready = coord[c].ready
    BY <1>2
  <2>2. coord' = [coord EXCEPT ![c] = k]
    BY <1>5
  <2> HIDE DEF k
  <2>3. coord'[c] = k /\ \A d \in Cohorts : d # c => coord'[d] = coord[d]
    BY <1>1, <2>2
  <2>4. coord' = [d \in Cohorts |-> coord'[d]]
    BY <1>1, <2>2
  <2> QED
    BY <2>1, <2>3, <2>4 DEF Typed, SameReady
<1> QED
  BY <1>3, <1>4, <1>5

\* The states a thread can be left in are threads.
LEMMA NextThreads ==
  ASSUME Typed, NEW c \in Cohorts, NEW t \in Tasks
  PROVE  LET k == thread[c][t]
         IN  /\ \A a \in Threads : [k EXCEPT !.at = a] \in AThread /\ [k EXCEPT !.at = a].attempt = k.attempt
             /\ \A x \in {"none", "accepted", "rejected", "uncertain"} :
                  LET y == [k EXCEPT !.at = "done", !.result = x]
                  IN  y \in AThread /\ y.at = "done" /\ y.result = x /\ y.attempt = k.attempt
             /\ k.attempt + 1 < Attempts =>
                  LET y == [k EXCEPT !.at = "check", !.attempt = @ + 1]
                  IN  y \in AThread /\ y.at = "check" /\ y.attempt = k.attempt + 1
<1> DEFINE k == thread[c][t]
<1>1. k \in AThread
  BY ThreadNames
<1> HIDE DEF k
<1>2. \A a \in Threads : [k EXCEPT !.at = a] \in AThread /\ [k EXCEPT !.at = a].attempt = k.attempt
  BY <1>1 DEF AThread
<1>3. \A x \in {"none", "accepted", "rejected", "uncertain"} :
        LET y == [k EXCEPT !.at = "done", !.result = x]
        IN  y \in AThread /\ y.at = "done" /\ y.result = x /\ y.attempt = k.attempt
  BY <1>1 DEF AThread, Threads
<1>4. ASSUME k.attempt + 1 < Attempts
      PROVE  LET y == [k EXCEPT !.at = "check", !.attempt = @ + 1]
             IN  y \in AThread /\ y.at = "check" /\ y.attempt = k.attempt + 1
  <2>1. k.attempt \in Numbers /\ k.attempt + 1 \in Numbers
    BY <1>1, <1>4, CampaignAssumption DEF AThread, Numbers
  <2> QED
    BY <1>1, <2>1 DEF AThread, Threads
<1> QED
  BY <1>2, <1>3, <1>4 DEF k

\* Every step of a thread is such a move.
LEMMA WorkMoves ==
  ASSUME Typed, NEW c \in Cohorts, NEW t \in Tasks, Work(c, t)
  PROVE  /\ \E x \in AThread : Turned(c, t, x) /\ Moves(c, t, x)
         /\ thread' \in [Cohorts -> [Tasks -> AThread]]
         /\ \A d \in Cohorts, u \in Tasks : d # "fast" => thread'[d][u].attempt = 0
         /\ SameReady
<1> DEFINE k == thread[c][t]
           To(x) == /\ x \in AThread /\ (c # "fast" => x.attempt = 0)
                    /\ thread' = [thread EXCEPT ![c][t] = x] /\ Moves(c, t, x)
           Done(x) == [k EXCEPT !.at = "done", !.result = x]
           Further == [k EXCEPT !.at = "check", !.attempt = @ + 1]
           Results == {"none", "accepted", "rejected", "uncertain"}
<1>0. k \in AThread /\ (c # "fast" => k.attempt = 0)
  BY ThreadNames DEF Typed
<1>1. \A x \in Results : Done(x) \in AThread /\ Done(x).at = "done" /\ Done(x).result = x /\ Done(x).attempt = k.attempt
  BY NextThreads
<1>2. k.attempt + 1 < Attempts => Further \in AThread /\ Further.at = "check" /\ Further.attempt = k.attempt + 1
  BY NextThreads
<1>3. \A a \in Threads : [k EXCEPT !.at = a] \in AThread /\ [k EXCEPT !.at = a].attempt = k.attempt
  BY NextThreads
<1>4. \A x : Finish(c, t, x) = [thread EXCEPT ![c][t] = Done(x)]
  BY ThreadMoves
<1>5. AfterRejection(c, t) = IF c = "fast" /\ k.attempt + 1 < Attempts
                             THEN [thread EXCEPT ![c][t] = Further] ELSE [thread EXCEPT ![c][t] = Done("rejected")]
  BY ThreadMoves, <1>4
<1>6. \A a \in Threads : [thread EXCEPT ![c][t].at = a] = [thread EXCEPT ![c][t] = [k EXCEPT !.at = a]]
  BY ThreadMoves
<1> HIDE DEF Done, Further
<1>7. ASSUME StopHalted(c, t) \/ Reuse(c, t) \/ RefuseUnknown(c, t)
      PROVE  \E x : To(x)
  <2>1. log' = log /\ paid' = paid /\ outcome' = outcome /\ k.at = "check"
    BY <1>7 DEF StopHalted, Reuse, RefuseUnknown, GoesOn, files
  <2>2. CASE \E x \in Results : thread' = Finish(c, t, x)
    BY <1>0, <1>1, <1>4, <2>1, <2>2 DEF Moves
  <2>3. CASE thread' = AfterRejection(c, t) /\ outcome[RunOf(c, t)] = "rejected"
    <3>1. CASE c = "fast" /\ k.attempt + 1 < Attempts
      BY <1>0, <1>2, <1>5, <2>1, <2>3, <3>1 DEF Moves
    <3>2. CASE ~(c = "fast" /\ k.attempt + 1 < Attempts)
      BY <1>0, <1>1, <1>5, <2>1, <2>3, <3>2 DEF Moves
    <3> QED
      BY <3>1, <3>2
  <2>4. outcome[RunOf(c, t)] \in Results
    BY ThreadNames DEF Typed
  <2> QED
    BY <1>7, <2>2, <2>3, <2>4 DEF StopHalted, Reuse, RefuseUnknown
<1>8. ASSUME Pass(c, t) \/ Launch(c, t) \/ EvaluationPasses(c, t)
      PROVE  \E x : To(x)
  <2>1. CASE Pass(c, t)
    <3>1. To([k EXCEPT !.at = "launch"])
      BY <1>0, <1>3, <1>6, <2>1 DEF Pass, GoesOn, Started, files, Threads, Moves
    <3> QED
      BY <3>1
  <2>2. CASE Launch(c, t)
    <3>1. To([k EXCEPT !.at = "wait"])
      BY <1>0, <1>3, <1>6, <2>2 DEF Launch, Threads, Moves
    <3> QED
      BY <3>1
  <2>3. CASE EvaluationPasses(c, t)
    <3>1. To([k EXCEPT !.at = "export"])
      BY <1>0, <1>3, <1>6, <2>3 DEF EvaluationPasses, Waited, files, Threads, Moves
    <3> QED
      BY <3>1
  <2> QED
    BY <1>8, <2>1, <2>2, <2>3
<1>9. ASSUME RecordUnknown(c, t) \/ EvaluationFails(c, t) \/ RecordAccepted(c, t) \/ RecordRejected(c, t)
      PROVE  \E x : To(x)
  <2>1. k.at \in {"wait", "export"} /\ log' = log /\ paid' = paid
    BY <1>9 DEF RecordUnknown, EvaluationFails, RecordAccepted, RecordRejected, Waited, Exported, Reject
  <2>2. CASE \E x \in {"accepted", "uncertain"} :
               thread' = Finish(c, t, x) /\ outcome' = [outcome EXCEPT ![RunOf(c, t)] = x]
    <3>1. PICK x \in {"accepted", "uncertain"} :
               thread' = Finish(c, t, x) /\ outcome' = [outcome EXCEPT ![RunOf(c, t)] = x]
      BY <2>2
    <3>2. To(Done(x))
      BY <1>0, <1>1, <1>4, <2>1, <3>1 DEF Moves
    <3> QED
      BY <3>2
  <2>3. CASE thread' = AfterRejection(c, t) /\ outcome' = [outcome EXCEPT ![RunOf(c, t)] = "rejected"]
    <3>1. CASE c = "fast" /\ k.attempt + 1 < Attempts
      <4>1. To(Further)
        BY <1>0, <1>2, <1>5, <2>1, <2>3, <3>1 DEF Moves
      <4> QED
        BY <4>1
    <3>2. CASE ~(c = "fast" /\ k.attempt + 1 < Attempts)
      <4>1. To(Done("rejected"))
        BY <1>0, <1>1, <1>5, <2>1, <2>3, <3>2 DEF Moves
      <4> QED
        BY <4>1
    <3> QED
      BY <3>1, <3>2
  <2> QED
    BY <1>9, <2>2, <2>3 DEF RecordUnknown, EvaluationFails, RecordAccepted, RecordRejected, Reject
<1>10. PICK x : To(x)
  BY <1>7, <1>8, <1>9 DEF Work
<1>11. SameReady
  BY Halting DEF Work, StopHalted, Reuse, RefuseUnknown, Pass, Launch, RecordUnknown, EvaluationPasses,
                 EvaluationFails, RecordAccepted, RecordRejected, Reject
<1> QED
  BY <1>10, <1>11, OneThread

\* What the other steps do: they pay nothing and record no outcome, and a
\* thread they start has a task that was ready.
Others ==
  /\ log' = log /\ paid' = paid /\ outcome' = outcome
  /\ thread' \in [Cohorts -> [Tasks -> AThread]]
  /\ \A d \in Cohorts, u \in Tasks : d # "fast" => thread'[d][u].attempt = 0
  /\ \A d \in Cohorts, u \in Tasks :
       \/ thread'[d][u] = thread[d][u]
       \/ thread'[d][u].at = "idle"
       \/ thread'[d][u].at = "check" /\ thread'[d][u].attempt = 0 /\ u \in coord[d].ready
  /\ coord' = [c \in Cohorts |-> coord'[c]] /\ \A c \in Cohorts : CoordLike(coord'[c])
  /\ \A u \in coord'["thinking"].ready : u \in coord["thinking"].ready \/ Exhausted(u)
  /\ \A u \in coord'["protocol"].ready : u \in coord["protocol"].ready \/ Retryable(u)

\* The coordinator of one cohort changes, and its list as it should.
LEMMA OneCoordinator ==
  ASSUME Typed, NEW c \in Cohorts, NEW k, CoordLike(k), coord' = [coord EXCEPT ![c] = k],
         \A u \in k.ready : \/ u \in coord[c].ready \/ c = "fast"
                            \/ (c = "thinking" /\ Exhausted(u)) \/ (c = "protocol" /\ Retryable(u))
  PROVE  /\ coord' = [d \in Cohorts |-> coord'[d]] /\ \A d \in Cohorts : CoordLike(coord'[d])
         /\ \A u \in coord'["thinking"].ready : u \in coord["thinking"].ready \/ Exhausted(u)
         /\ \A u \in coord'["protocol"].ready : u \in coord["protocol"].ready \/ Retryable(u)
<1>1. coord = [d \in Cohorts |-> coord[d]]
  BY DEF Typed
<1>2. coord'[c] = k /\ \A d \in Cohorts : d # c => coord'[d] = coord[d]
  BY <1>1
<1>3. coord' = [d \in Cohorts |-> coord'[d]]
  BY <1>1
<1>4. "thinking" \in Cohorts /\ "protocol" \in Cohorts
  BY DEF Cohorts
<1> QED
  BY <1>2, <1>3, <1>4 DEF Typed

\* The thread of one task is started or forgotten.
LEMMA IdleTyped == Idle \in AThread /\ [Idle EXCEPT !.at = "check"] \in AThread /\ Down = [f \in CoordFields |-> Down[f]]
<1>1. 0 \in Numbers
  BY CampaignAssumption DEF Numbers
<1> QED
  BY <1>1 DEF Idle, AThread, Threads, Down, CoordFields

\* The steps of the coordinators' rounds.
LEMMA RoundsAreOthers ==
  ASSUME Typed, NEW c \in Cohorts, Start(c) \/ Look(c) \/ Report(c) \/ Train(c)
  PROVE  Others
<1>0. /\ log' = log /\ paid' = paid /\ outcome' = outcome /\ thread' = thread
  BY DEF Start, Look, Report, Train, files
<1>1. \E k : /\ CoordLike(k) /\ coord' = [coord EXCEPT ![c] = k]
             /\ \A u \in k.ready : \/ u \in coord[c].ready \/ c = "fast"
                                   \/ (c = "thinking" /\ Exhausted(u)) \/ (c = "protocol" /\ Retryable(u))
  <2>0. CoordLike(coord[c]) /\ CoordLike(Down) /\ Down.ready = {} /\ coord = [d \in Cohorts |-> coord[d]]
    BY IdleTyped DEF Typed, CoordLike, Down
  <2>1. CASE Start(c)
    <3>1. CASE c = "fast"
      <4> DEFINE k == [Down EXCEPT !.at = "fill", !.passed = Good(c), !.ready = Tasks \ Good(c)]
      <4>1. CoordLike(k)
        BY <2>0 DEF CoordLike, CoordFields
      <4>2. coord' = [coord EXCEPT ![c] = k]
        BY <2>1, <3>1 DEF Start
      <4> QED
        BY <3>1, <4>1, <4>2
    <3>2. CASE c # "fast"
      <4> DEFINE a == IF c = "thinking" THEN "look" ELSE "wait"
                 k == [Down EXCEPT !.at = a]
      <4>1. CoordLike(k) /\ k.ready = {}
        BY <2>0 DEF CoordLike, CoordFields
      <4>2. coord' = [coord EXCEPT ![c] = k]
        BY <2>1, <3>2 DEF Start, Cohorts
      <4> QED
        BY <4>1, <4>2
    <3> QED
      BY <3>1, <3>2
  <2>2. CASE Look(c)
    <3> DEFINE a == IF c = "thinking" /\ (Cardinality(Qualified(c)) >= target \/ coord[c].halted)
                    THEN "drain" ELSE "fill"
               r == IF c = "thinking"
                    THEN {t \in Tasks \ (Qualified(c) \cup coord[c].tried) : Exhausted(t)} ELSE coord[c].ready
               k == [coord[c] EXCEPT !.passed = Qualified(c), !.at = a, !.ready = r]
    <3>1. coord' = [coord EXCEPT ![c] = k]
      BY <2>0, <2>2 DEF Look
    <3>2. CoordLike(k) /\ k.ready = r
      <4> HIDE DEF a, r
      <4> QED
        BY <2>0 DEF CoordLike, CoordFields
    <3>3. \A u \in r : u \in coord[c].ready \/ (c = "thinking" /\ Exhausted(u))
      OBVIOUS
    <3> HIDE DEF a, r, k
    <3> QED
      BY <3>1, <3>2, <3>3
  <2>3. CASE Report(c)
    <3>1. \A s : CoordLike([Down EXCEPT !.at = "train", !.passed = s]) /\ [Down EXCEPT !.at = "train", !.passed = s].ready = {}
      BY <2>0 DEF CoordLike, CoordFields
    <3>2. coord' = [coord EXCEPT ![c] = Down] \/ \E s : coord' = [coord EXCEPT ![c] = [Down EXCEPT !.at = "train", !.passed = s]]
      BY <2>3 DEF Report
    <3> QED
      BY <2>0, <3>1, <3>2
  <2>4. CASE Train(c)
    BY <2>0, <2>4 DEF Train
  <2> QED
    BY <2>1, <2>2, <2>3, <2>4
<1>2. PICK k : /\ CoordLike(k) /\ coord' = [coord EXCEPT ![c] = k]
               /\ \A u \in k.ready : \/ u \in coord[c].ready \/ c = "fast"
                                     \/ (c = "thinking" /\ Exhausted(u)) \/ (c = "protocol" /\ Retryable(u))
  BY <1>1
<1> QED
  BY <1>0, <1>2, OneCoordinator DEF Others, Typed

\* The steps of a coordinator that has nothing in hand yet.
LEMMA WaitsAreOthers ==
  ASSUME Typed, Admit \/ WaitedTooLong \/ Poll
  PROVE  Others
<1>0. /\ log' = log /\ paid' = paid /\ outcome' = outcome /\ thread' = thread
  BY DEF Admit, WaitedTooLong, Poll, files
<1>1. \A c \in Cohorts : CoordLike(coord[c])
  BY DEF Typed
<1>2. coord = [d \in Cohorts |-> coord[d]] /\ CoordLike(Down) /\ Down.ready = {} /\ "thinking" \in Cohorts /\ "protocol" \in Cohorts
  BY IdleTyped DEF Typed, CoordLike, Down, Cohorts
<1>3. CASE coord' = [coord EXCEPT !["protocol"] = Down]
  BY <1>0, <1>2, <1>3, OneCoordinator DEF Others, Typed
<1>4. CASE \E a : coord' = [coord EXCEPT !["thinking"].at = a]
  <2>1. PICK a : coord' = [coord EXCEPT !["thinking"] = [coord["thinking"] EXCEPT !.at = a]]
    BY <1>2, <1>4
  <2> DEFINE k == [coord["thinking"] EXCEPT !.at = a]
  <2>2. CoordLike(k) /\ k.ready = coord["thinking"].ready
    BY <1>1, <1>2 DEF CoordLike, CoordFields
  <2> HIDE DEF k
  <2> QED
    BY <1>0, <1>2, <2>1, <2>2, OneCoordinator DEF Others, Typed, k
<1>5. CASE coord' = [coord EXCEPT !["protocol"].at = "look",
                         !["protocol"].ready = {t \in Tasks \ Qualified("protocol") : Retryable(t)}]
  <2> DEFINE r == {t \in Tasks \ Qualified("protocol") : Retryable(t)}
             k == [coord["protocol"] EXCEPT !.at = "look", !.ready = r]
  <2>1. coord' = [coord EXCEPT !["protocol"] = k]
    BY <1>2, <1>5
  <2>2. \A u \in r : Retryable(u)
    OBVIOUS
  <2> HIDE DEF r
  <2>3. CoordLike(k) /\ k.ready = r
    BY <1>1, <1>2 DEF CoordLike, CoordFields
  <2> HIDE DEF k
  <2> QED
    BY <1>0, <1>2, <2>1, <2>2, <2>3, OneCoordinator DEF Others, Typed
<1> QED
  BY <1>3, <1>4, <1>5 DEF Admit, WaitedTooLong, Poll

\* The steps by which a coordinator hands out tasks and takes them back, and
\* its end.
LEMMA HandlingIsOthers ==
  ASSUME Typed, NEW c \in Cohorts, NEW t \in Tasks, Submit(c, t) \/ Collect(c, t) \/ Crash(c)
  PROVE  Others
<1>0. log' = log /\ paid' = paid /\ outcome' = outcome
  BY DEF Submit, Collect, Crash, files
<1>1. CoordLike(coord[c]) /\ CoordLike(Down) /\ Down.ready = {} /\ coord = [d \in Cohorts |-> coord[d]]
  BY IdleTyped DEF Typed, CoordLike, Down
<1>2. \E k : CoordLike(k) /\ coord' = [coord EXCEPT ![c] = k] /\ k.ready \subseteq coord[c].ready
  <2>1. CASE Submit(c, t)
    <3> DEFINE k == [coord[c] EXCEPT !.ready = @ \ {t}, !.tried = @ \cup {t}]
    <3>1. coord' = [coord EXCEPT ![c] = k]
      BY <1>1, <2>1 DEF Submit
    <3>2. CoordLike(k) /\ k.ready = coord[c].ready \ {t}
      BY <1>1 DEF CoordLike, CoordFields
    <3> QED
      BY <3>1, <3>2
  <2>2. CASE Collect(c, t)
    <3> DEFINE h == coord[c].halted \/ (c # "fast" /\ thread[c][t].result = "uncertain")
               p == IF c = "fast" /\ thread[c][t].result = "accepted" THEN coord[c].passed \cup {t} ELSE coord[c].passed
               a == IF c # "fast" /\ coord[c].at = "fill" THEN "look" ELSE coord[c].at
               k == [coord[c] EXCEPT !.halted = h, !.passed = p, !.at = a]
    <3>1. coord' = [coord EXCEPT ![c] = k]
      BY <1>1, <2>2 DEF Collect, CoordLike, CoordFields
    <3>2. CoordLike(k) /\ k.ready = coord[c].ready
      <4> HIDE DEF h, p, a
      <4> QED
        BY <1>1 DEF CoordLike, CoordFields
    <3> HIDE DEF k
    <3> QED
      BY <3>1, <3>2
  <2>3. CASE Crash(c)
    BY <1>1, <2>3 DEF Crash
  <2> QED
    BY <2>1, <2>2, <2>3
<1>3. /\ thread' \in [Cohorts -> [Tasks -> AThread]]
      /\ \A d \in Cohorts, u \in Tasks : d # "fast" => thread'[d][u].attempt = 0
      /\ \A d \in Cohorts, u \in Tasks :
           \/ thread'[d][u] = thread[d][u]
           \/ thread'[d][u].at = "idle"
           \/ thread'[d][u].at = "check" /\ thread'[d][u].attempt = 0 /\ u \in coord[d].ready
  <2>1. CASE Submit(c, t)
    <3> DEFINE x == [Idle EXCEPT !.at = "check"]
    <3>1. x \in AThread /\ x.at = "check" /\ x.attempt = 0 /\ t \in coord[c].ready /\ thread' = [thread EXCEPT ![c][t] = x]
      BY <2>1, IdleTyped DEF Submit, Idle
    <3> HIDE DEF x
    <3>2. /\ Turned(c, t, x) /\ thread' \in [Cohorts -> [Tasks -> AThread]]
          /\ \A d \in Cohorts, u \in Tasks : d # "fast" => thread'[d][u].attempt = 0
      BY <3>1, OneThread
    <3> QED
      BY <3>1, <3>2 DEF Turned
  <2>2. CASE Collect(c, t)
    <3>1. Idle \in AThread /\ Idle.at = "idle" /\ Idle.attempt = 0 /\ thread' = [thread EXCEPT ![c][t] = Idle]
      BY <2>2, IdleTyped DEF Collect, Idle
    <3>2. /\ Turned(c, t, Idle) /\ thread' \in [Cohorts -> [Tasks -> AThread]]
          /\ \A d \in Cohorts, u \in Tasks : d # "fast" => thread'[d][u].attempt = 0
      BY <3>1, OneThread
    <3> QED
      BY <3>1, <3>2 DEF Turned
  <2>3. CASE Crash(c)
    <3>1. thread \in [Cohorts -> [Tasks -> AThread]] /\ thread' = [thread EXCEPT ![c] = [u \in Tasks |-> Idle]]
      BY <2>3 DEF Crash, Typed
    <3>2. Idle \in AThread /\ Idle.at = "idle" /\ Idle.attempt = 0
      BY IdleTyped DEF Idle
    <3>3. /\ \A u \in Tasks : thread'[c][u] = Idle
          /\ \A d \in Cohorts : d # c => thread'[d] = thread[d]
      BY <3>1
    <3> QED
      BY <3>1, <3>2, <3>3 DEF Typed
  <2> QED
    BY <2>1, <2>2, <2>3
<1>4. PICK k : CoordLike(k) /\ coord' = [coord EXCEPT ![c] = k] /\ k.ready \subseteq coord[c].ready
  BY <1>2
<1> QED
  BY <1>0, <1>3, <1>4, OneCoordinator DEF Others

\* A step is a move of one thread, or one of the others.
LEMMA StepMoves ==
  ASSUME Typed, [Next]_vars
  PROVE  \/ Others
         \/ \E c \in Cohorts, t \in Tasks : Work(c, t)
<1>1. ASSUME \/ UNCHANGED vars \/ \E r \in Runs : AgentEnds(r)
             \/ \E c \in Cohorts, t \in Tasks : Export(c, t)
      PROVE  Others
  <2>1. log' = log /\ paid' = paid /\ outcome' = outcome /\ thread' = thread /\ coord' = coord
    BY <1>1 DEF vars, files, AgentEnds, Export, ExportOpens, ExportCloses, ExportKilled
  <2> QED
    BY <2>1 DEF Others, Typed
<1>2. ASSUME NEW c \in Cohorts, Start(c) \/ Look(c) \/ Report(c) \/ Train(c)
      PROVE  Others
  BY <1>2, RoundsAreOthers
<1>3. ASSUME NEW c \in Cohorts, NEW t \in Tasks, Submit(c, t) \/ Collect(c, t)
      PROVE  Others
  BY <1>3, HandlingIsOthers
<1>4. ASSUME NEW c \in Cohorts, Crash(c)
      PROVE  Others
  <2>1. CASE Tasks = {}
    <3>1. /\ thread' \in [Cohorts -> [Tasks -> AThread]] /\ log' = log /\ paid' = paid /\ outcome' = outcome
      BY <1>4, <2>1 DEF Crash, Typed, files
    <3>2. CoordLike(Down) /\ Down.ready = {} /\ coord' = [coord EXCEPT ![c] = Down]
      BY <1>4, IdleTyped DEF CoordLike, Down, Crash
    <3> QED
      BY <2>1, <3>1, <3>2, OneCoordinator DEF Others
  <2>2. CASE Tasks # {}
    BY <1>4, <2>2, HandlingIsOthers
  <2> QED
    BY <2>1, <2>2
<1> QED
  BY <1>1, <1>2, <1>3, <1>4, WaitsAreOthers DEF Next, Coordinate

-----------------------------------------------------------------------------
\* The types are kept.
LEMMA TypedStep ==
  ASSUME Typed, [Next]_vars
  PROVE  Typed'
<1>1. CASE Others
  BY <1>1 DEF Others, Typed
<1>2. ASSUME NEW c \in Cohorts, NEW t \in Tasks, Work(c, t)
      PROVE  Typed'
  <2>1. PICK x \in AThread : Moves(c, t, x)
    BY <1>2, WorkMoves
  <2>2. RunOf(c, t) \in Runs
    BY ThreadNames
  <2>3. log' \subseteq Runs
    BY <2>1, <2>2 DEF Moves, Typed
  <2>4. paid' \in [Runs -> Nat]
    <3>1. paid' = paid \/ paid' = [paid EXCEPT ![RunOf(c, t)] = @ + 1]
      BY <2>1 DEF Moves
    <3> QED
      BY <2>2, <3>1 DEF Typed
  <2>5. outcome' \in [Runs -> {"none", "accepted", "rejected", "uncertain"}]
    <3>1. outcome' = outcome \/ \E o \in {"accepted", "rejected", "uncertain"} : outcome' = [outcome EXCEPT ![RunOf(c, t)] = o]
      BY <2>1 DEF Moves
    <3> QED
      BY <2>2, <3>1 DEF Typed
  <2> QED
    BY <1>2, <2>3, <2>4, <2>5, WorkMoves DEF Typed, SameReady
<1> QED
  BY <1>1, <1>2, StepMoves

\* The first state is well typed.
LEMMA TypedInit ==
  ASSUME Init
  PROVE  Typed
<1>1. \A c \in Cohorts : coord[c] = Down
  BY DEF Init
<1>2. \A c \in Cohorts : CoordLike(coord[c])
  BY <1>1, IdleTyped DEF CoordLike
<1> QED
  BY <1>2, IdleTyped DEF Init, Typed, Idle

\* A rollout that is paid has its log, which no later process passes.
LEMMA PaidStep ==
  ASSUME Typed, PaidInv, [Next]_vars
  PROVE  PaidInv'
<1>1. CASE Others
  <2>1. \A c \in Cohorts, t \in Tasks : thread'[c][t].at = "launch" => thread'[c][t] = thread[c][t]
    BY <1>1 DEF Others
  <2> QED
    BY <1>1, <2>1 DEF Others, PaidInv, RunOf
<1>2. ASSUME NEW c \in Cohorts, NEW t \in Tasks, Work(c, t)
      PROVE  PaidInv'
  <2>1. PICK x \in AThread : Turned(c, t, x) /\ Moves(c, t, x)
    BY <1>2, WorkMoves
  <2> DEFINE r == RunOf(c, t)
  <2>2. r \in Runs /\ thread[c][t] \in AThread
    BY ThreadNames
  <2>3. \A d \in Cohorts, u \in Tasks : <<d, u>> # <<c, t>> => RunOf(d, u) # r /\ RunOf(d, u)' = RunOf(d, u)
    BY <2>1 DEF RunOf, Turned
  <2>4. CASE thread[c][t].at = "launch" /\ x = [thread[c][t] EXCEPT !.at = "wait"]
             /\ log' = log \cup {r} /\ paid' = [paid EXCEPT ![r] = @ + 1]
    <3>1. r \notin log /\ paid[r] = 0
      BY <2>2, <2>4 DEF PaidInv
    <3>2. \A s \in Runs : paid'[s] = IF s = r THEN 1 ELSE paid[s]
      BY <2>2, <2>4, <3>1 DEF Typed
    <3>3. x.at = "wait"
      BY <2>2, <2>4 DEF AThread
    <3>4. ASSUME NEW d \in Cohorts, NEW u \in Tasks, thread'[d][u].at = "launch"
          PROVE  RunOf(d, u)' \notin log'
      <4>1. <<d, u>> # <<c, t>>
        BY <2>1, <3>3, <3>4 DEF Turned
      <4>2. thread'[d][u] = thread[d][u] /\ RunOf(d, u)' = RunOf(d, u) /\ RunOf(d, u) # r
        BY <2>1, <2>3, <4>1 DEF Turned
      <4> QED
        BY <2>4, <3>4, <4>2 DEF PaidInv
    <3>5. \A s \in Runs : paid'[s] <= 1 /\ (s \notin log' => paid'[s] = 0)
      BY <2>4, <3>2 DEF PaidInv
    <3> QED
      BY <3>4, <3>5 DEF PaidInv
  <2>5. CASE log' = log /\ paid' = paid
    <3>1. x.at = "launch" => r \notin log /\ RunOf(c, t)' = r
      <4>1. \A a \in {"wait", "export"} : [thread[c][t] EXCEPT !.at = a].at = a
        BY <2>2 DEF AThread
      <4>2. x.at = "launch" => r \notin log /\ x = [thread[c][t] EXCEPT !.at = "launch"]
        BY <2>1, <4>1 DEF Moves
      <4>3. x.at = "launch" => x.attempt = thread[c][t].attempt
        BY <2>2, <4>2 DEF AThread
      <4> QED
        BY <2>1, <4>2, <4>3 DEF RunOf, Turned
    <3> QED
      BY <2>1, <2>3, <2>5, <3>1 DEF PaidInv, Turned
  <2> QED
    BY <2>1, <2>4, <2>5 DEF Moves
<1> QED
  BY <1>1, <1>2, StepMoves

\* A paid rollout is never started a second time, however often collectors are
\* killed and started again.
THEOREM RolloutsArePaidOnce == Spec => []PaidOnce
<1>1. Init => Typed /\ PaidInv
  <2>1. Init => PaidInv
    BY DEF Init, PaidInv, Idle
  <2> QED
    BY <2>1, TypedInit
<1>2. (Typed /\ PaidInv) /\ [Next]_vars => (Typed /\ PaidInv)'
  BY TypedStep, PaidStep
<1>3. PaidInv => PaidOnce
  BY DEF PaidInv, PaidOnce
<1> QED
  BY <1>1, <1>2, <1>3, PTL DEF Spec

-----------------------------------------------------------------------------
\* What entitles a cohort to the a-th rollout of a task: rejections alone.
Entitled(c, t, a) ==
  /\ c = "fast" => \A b \in Numbers : b < a => outcome[<<"fast", t, b>>] = "rejected"
  /\ c = "thinking" => Exhausted(t)
  /\ c = "protocol" => Retryable(t)

\* Every rollout that is ready, in hand or paid had its title.
Titles ==
  /\ \A t \in Tasks : /\ t \in coord["thinking"].ready => Exhausted(t)
                      /\ t \in coord["protocol"].ready => Retryable(t)
  /\ \A c \in Cohorts, t \in Tasks :
       thread[c][t].at \in {"check", "launch", "wait", "export"} => Entitled(c, t, thread[c][t].attempt)
  /\ \A c \in Cohorts, t \in Tasks, a \in Numbers : <<c, t, a>> \in log => Entitled(c, t, a)

\* A rollout in hand has no outcome, and one with an outcome was paid.
Outcomes ==
  /\ \A c \in Cohorts, t \in Tasks :
       /\ thread[c][t].at \in {"launch", "wait", "export"} => outcome[RunOf(c, t)] = "none"
       /\ thread[c][t].at \in {"wait", "export"} => RunOf(c, t) \in log
  /\ \A r \in Runs : outcome[r] # "none" => r \in log

\* A rejection is final.
LEMMA RejectionsAreFinal ==
  ASSUME Typed, Outcomes, [Next]_vars
  PROVE  /\ \A r \in Runs : outcome[r] = "rejected" => outcome'[r] = "rejected"
         /\ \A c \in Cohorts, t \in Tasks, a \in Numbers : Entitled(c, t, a) => Entitled(c, t, a)'
         /\ \A t \in Tasks : (Exhausted(t) => Exhausted(t)') /\ (Retryable(t) => Retryable(t)')
<1>1. \A r \in Runs : outcome[r] = "rejected" => outcome'[r] = "rejected"
  <2>1. CASE Others
    BY <2>1 DEF Others
  <2>2. ASSUME NEW c \in Cohorts, NEW t \in Tasks, Work(c, t)
        PROVE  \A r \in Runs : outcome[r] = "rejected" => outcome'[r] = "rejected"
    <3>1. PICK x \in AThread : Moves(c, t, x)
      BY <2>2, WorkMoves
    <3>2. RunOf(c, t) \in Runs
      BY ThreadNames
    <3>3. \/ outcome' = outcome
          \/ /\ thread[c][t].at \in {"wait", "export"}
             /\ \E o \in {"accepted", "rejected", "uncertain"} : outcome' = [outcome EXCEPT ![RunOf(c, t)] = o]
      BY <3>1 DEF Moves
    <3> QED
      BY <3>2, <3>3 DEF Typed, Outcomes
  <2> QED
    BY <2>1, <2>2, StepMoves
<1>2. \A t \in Tasks : <<"thinking", t, 0>> \in Runs /\ \A b \in Numbers : <<"fast", t, b>> \in Runs
  BY DEF Runs, Numbers
<1>3. \A t \in Tasks : (Exhausted(t) => Exhausted(t)') /\ (Retryable(t) => Retryable(t)')
  BY <1>1, <1>2 DEF Exhausted, Retryable
<1>4. \A c \in Cohorts, t \in Tasks, a \in Numbers : Entitled(c, t, a) => Entitled(c, t, a)'
  BY <1>1, <1>2, <1>3 DEF Entitled
<1> QED
  BY <1>1, <1>3, <1>4

\* Outcomes are recorded once.
LEMMA OutcomesStep ==
  ASSUME Typed, Outcomes, [Next]_vars
  PROVE  Outcomes'
<1>1. CASE Others
  <2>1. \A c \in Cohorts, t \in Tasks : thread'[c][t].at \in {"launch", "wait", "export"} => thread'[c][t] = thread[c][t]
    BY <1>1 DEF Others
  <2> QED
    BY <1>1, <2>1 DEF Others, Outcomes, RunOf
<1>2. ASSUME NEW c \in Cohorts, NEW t \in Tasks, Work(c, t)
      PROVE  Outcomes'
  <2>1. PICK x \in AThread : Turned(c, t, x) /\ Moves(c, t, x)
    BY <1>2, WorkMoves
  <2> DEFINE r == RunOf(c, t)
  <2>2. r \in Runs /\ thread[c][t] \in AThread
    BY ThreadNames
  <2>3. \A a \in Threads : [thread[c][t] EXCEPT !.at = a].at = a /\ [thread[c][t] EXCEPT !.at = a].attempt = thread[c][t].attempt
    BY <2>2 DEF AThread
  <2>4. \A s \in Runs : s # r => outcome'[s] = outcome[s]
    BY <2>1, <2>2 DEF Moves, Typed
  <2>5. log \subseteq log'
    BY <2>1 DEF Moves
  <2>6. ASSUME NEW d \in Cohorts, NEW u \in Tasks
        PROVE  /\ thread'[d][u].at \in {"launch", "wait", "export"} => outcome'[RunOf(d, u)'] = "none"
               /\ thread'[d][u].at \in {"wait", "export"} => RunOf(d, u)' \in log'
    <3>1. CASE <<d, u>> # <<c, t>>
      <4>1. RunOf(d, u)' = RunOf(d, u) /\ RunOf(d, u) # r /\ thread'[d][u] = thread[d][u] /\ RunOf(d, u) \in Runs
        BY <2>1, <3>1, ThreadNames DEF Turned, RunOf
      <4> QED
        BY <2>4, <2>5, <4>1 DEF Outcomes
    <3>2. CASE <<d, u>> = <<c, t>>
      <4>1. thread'[d][u] = x /\ d = c /\ u = t
        BY <2>1, <3>2 DEF Turned
      <4>2. x.at \in {"launch", "wait", "export"} =>
              /\ x.attempt = thread[c][t].attempt
              /\ outcome' = outcome /\ outcome[r] = "none"
              /\ x.at \in {"wait", "export"} => r \in log'
        BY <2>1, <2>3, ZenonT(60) DEF Moves, Outcomes, Threads
      <4>3. x.at \in {"launch", "wait", "export"} => RunOf(d, u)' = r
        BY <4>1, <4>2 DEF RunOf
      <4> QED
        BY <4>1, <4>2, <4>3
    <3> QED
      BY <3>1, <3>2
  <2>7. \A s \in Runs : outcome'[s] # "none" => s \in log'
    <3>1. outcome'[r] # "none" => r \in log'
      BY <2>1, <2>2, <2>5 DEF Moves, Outcomes
    <3> QED
      BY <2>4, <2>5, <3>1 DEF Outcomes
  <2> QED
    BY <2>6, <2>7 DEF Outcomes
<1> QED
  BY <1>1, <1>2, StepMoves

\* A cohort takes no rollout that it is not entitled to.
LEMMA TitlesStep ==
  ASSUME Typed, Outcomes, Titles, [Next]_vars
  PROVE  Titles'
<1>0. /\ \A c \in Cohorts, t \in Tasks, a \in Numbers : Entitled(c, t, a) => Entitled(c, t, a)'
      /\ \A t \in Tasks : (Exhausted(t) => Exhausted(t)') /\ (Retryable(t) => Retryable(t)')
  BY RejectionsAreFinal
<1>1. \A d \in Cohorts, u \in Tasks : thread[d][u].attempt \in Numbers
  BY ThreadNames DEF AThread
<1>2. CASE Others
  <2>1. \A t \in Tasks : /\ t \in coord'["thinking"].ready => Exhausted(t)'
                         /\ t \in coord'["protocol"].ready => Retryable(t)'
    BY <1>0, <1>2 DEF Others, Titles
  <2>2. ASSUME NEW d \in Cohorts, NEW u \in Tasks, thread'[d][u].at \in {"check", "launch", "wait", "export"}
        PROVE  Entitled(d, u, thread[d][u].attempt)'
    <3>1. CASE thread'[d][u] = thread[d][u]
      <4>1. Entitled(d, u, thread[d][u].attempt)
        BY <2>2, <3>1 DEF Titles
      <4>2. PICK a \in Numbers : a = thread[d][u].attempt
        BY <1>1
      <4>3. Entitled(d, u, a)'
        BY <1>0, <4>1, <4>2
      <4>4. thread'[d][u].attempt = a
        BY <3>1, <4>2
      <4> QED
        BY <4>3, <4>4 DEF Entitled
    <3>2. CASE thread'[d][u].attempt = 0 /\ u \in coord[d].ready
      <4>1. 0 \in Numbers /\ Entitled(d, u, 0)
        BY <3>2, CampaignAssumption DEF Entitled, Numbers, Titles
      <4>2. Entitled(d, u, 0)'
        BY <1>0, <4>1
      <4> QED
        BY <3>2, <4>2 DEF Entitled
    <3> QED
      BY <1>2, <2>2, <3>1, <3>2 DEF Others
  <2>3. \A c \in Cohorts, t \in Tasks, a \in Numbers : <<c, t, a>> \in log' => Entitled(c, t, a)'
    BY <1>0, <1>2 DEF Others, Titles
  <2> QED
    BY <2>1, <2>2, <2>3 DEF Titles
<1>3. ASSUME NEW c \in Cohorts, NEW t \in Tasks, Work(c, t)
      PROVE  Titles'
  <2>1. PICK x \in AThread : Turned(c, t, x) /\ Moves(c, t, x)
    BY <1>3, WorkMoves
  <2>2. RunOf(c, t) \in Runs /\ thread[c][t] \in AThread /\ x.attempt \in Numbers
    BY ThreadNames DEF AThread
  <2>3. \A a \in Threads : [thread[c][t] EXCEPT !.at = a].at = a /\ [thread[c][t] EXCEPT !.at = a].attempt = thread[c][t].attempt
    BY <2>2 DEF AThread
  <2>4. \A u \in Tasks : /\ u \in coord'["thinking"].ready => Exhausted(u)'
                         /\ u \in coord'["protocol"].ready => Retryable(u)'
    <3>1. coord'["thinking"].ready \subseteq coord["thinking"].ready /\ coord'["protocol"].ready \subseteq coord["protocol"].ready
      BY <1>3, WorkMoves DEF SameReady, Cohorts
    <3> QED
      BY <1>0, <3>1 DEF Titles
  <2>5. PICK k \in Numbers : k = thread[c][t].attempt
    BY <1>1
  <2>6. RunOf(c, t) = <<c, t, k>> /\ (thread[c][t].at # "idle" /\ thread[c][t].at # "done" => Entitled(c, t, k)')
    BY <1>0, <2>2, <2>5 DEF RunOf, Titles, AThread, Threads
  <2>7. ASSUME x.at \in {"check", "launch", "wait", "export"}
        PROVE  Entitled(c, t, x.attempt)'
    <3>1. ASSUME x.attempt = k + 1, c = "fast", outcome'[<<"fast", t, k>>] = "rejected", Entitled(c, t, k)'
          PROVE  Entitled(c, t, x.attempt)'
      <4>1. \A b \in Numbers : b < x.attempt => b < k \/ b = k
        BY <3>1 DEF Numbers
      <4> QED
        BY <3>1, <4>1 DEF Entitled
    <3>2. CASE x.at = "check"
      <4>1. x.attempt = k + 1 /\ c = "fast" /\ outcome'[<<"fast", t, k>>] = "rejected" /\ Entitled(c, t, k)'
        <5>1. /\ thread[c][t].at \in {"check", "wait", "export"} /\ x.attempt = k + 1 /\ c = "fast"
              /\ \/ outcome' = outcome /\ outcome[RunOf(c, t)] = "rejected"
                 \/ outcome' = [outcome EXCEPT ![RunOf(c, t)] = "rejected"]
          BY <2>1, <2>3, <2>5, <3>2 DEF Moves, Threads
        <5>2. outcome'[RunOf(c, t)] = "rejected"
          BY <2>2, <5>1 DEF Typed
        <5> QED
          BY <2>6, <5>1, <5>2
      <4> QED
        BY <3>1, <4>1
    <3>3. CASE x.at # "check"
      <4>1. x.attempt = k /\ thread[c][t].at \in {"check", "launch", "wait"}
        BY <2>1, <2>3, <2>5, <2>7, <3>3 DEF Moves, Threads
      <4> QED
        BY <2>6, <4>1
    <3> QED
      BY <3>2, <3>3
  <2>8. ASSUME NEW d \in Cohorts, NEW u \in Tasks, NEW a \in Numbers, <<d, u, a>> \in log'
        PROVE  Entitled(d, u, a)'
    <3>1. CASE <<d, u, a>> \in log
      BY <1>0, <3>1 DEF Titles
    <3>2. CASE <<d, u, a>> \notin log
      <4>1. thread[c][t].at = "launch" /\ <<d, u, a>> = <<c, t, k>>
        BY <2>1, <2>6, <2>8, <3>2 DEF Moves
      <4> QED
        BY <2>6, <4>1
    <3> QED
      BY <3>1, <3>2
  <2>9. ASSUME NEW d \in Cohorts, NEW u \in Tasks, thread'[d][u].at \in {"check", "launch", "wait", "export"}
        PROVE  Entitled(d, u, thread[d][u].attempt)'
    <3>1. CASE <<d, u>> = <<c, t>>
      <4>1. thread'[d][u] = x /\ d = c /\ u = t
        BY <2>1, <3>1 DEF Turned
      <4>2. Entitled(d, u, x.attempt)'
        BY <2>7, <2>9, <4>1
      <4> QED
        BY <4>1, <4>2 DEF Entitled
    <3>2. CASE <<d, u>> # <<c, t>>
      <4>1. thread'[d][u] = thread[d][u]
        BY <2>1, <3>2 DEF Turned
      <4>2. PICK a \in Numbers : a = thread[d][u].attempt
        BY <1>1
      <4>3. Entitled(d, u, a)'
        BY <1>0, <2>9, <4>1, <4>2 DEF Titles
      <4> QED
        BY <4>1, <4>2, <4>3 DEF Entitled
    <3> QED
      BY <3>1, <3>2
  <2> QED
    BY <2>4, <2>8, <2>9 DEF Titles
<1> QED
  BY <1>2, <1>3, StepMoves

\* Two open rollouts of a task are one: the later of two has the rejection of
\* the earlier for its title.
LEMMA TitlesExclude ==
  ASSUME Typed, Outcomes, Titles, Attempts <= 2, NEW t \in Tasks,
         NEW r \in Runs, NEW s \in Runs, TaskOf(r) = t, TaskOf(s) = t, Open(r), Open(s)
  PROVE  r = s
<1>0. Numbers \subseteq ExhaustingAttempts /\ 0 \in Numbers /\ Numbers \subseteq Int
  BY CampaignAssumption DEF Numbers, ExhaustingAttempts
<1>1. PICK c \in Cohorts, a \in Numbers : r = <<c, t, a>> /\ (c # "fast" => a = 0)
  BY <1>0 DEF Runs, TaskOf, Cohorts, Numbers
<1>2. PICK d \in Cohorts, b \in Numbers : s = <<d, t, b>> /\ (d # "fast" => b = 0)
  BY <1>0 DEF Runs, TaskOf, Cohorts, Numbers
<1>3. Entitled(c, t, a) /\ Entitled(d, t, b) /\ outcome[r] # "rejected" /\ outcome[s] # "rejected"
  BY <1>1, <1>2 DEF Open, Titles
<1>4. Exhausted(t) => c # "fast" /\ d # "fast"
  BY <1>0, <1>1, <1>2, <1>3 DEF Exhausted
<1>5. Retryable(t) => c # "thinking" /\ d # "thinking" /\ Exhausted(t)
  <2>1. Retryable(t) => <<"thinking", t, 0>> \in log
    BY DEF Retryable, Outcomes, Runs
  <2>2. Retryable(t) => Exhausted(t)
    BY <1>0, <2>1 DEF Titles, Entitled, Cohorts
  <2> QED
    BY <1>1, <1>2, <1>3, <2>2 DEF Retryable
<1>6. CASE c = "fast" /\ d = "fast"
  <2>1. ~(a < b) /\ ~(b < a)
    BY <1>1, <1>2, <1>3, <1>6 DEF Entitled
  <2> QED
    BY <1>0, <1>1, <1>2, <1>6, <2>1
<1>7. CASE ~(c = "fast" /\ d = "fast")
  BY <1>1, <1>2, <1>3, <1>4, <1>5, <1>7 DEF Entitled, Cohorts
<1> QED
  BY <1>6, <1>7

\* While the fast campaign makes at most the two attempts that the other
\* collectors look for, no task has two open rollouts.
THEOREM TasksHaveOneOpenRollout ==
  ASSUME Attempts <= 2
  PROVE  Spec => []OneOpenRolloutPerTask
<1>1. Init => Typed /\ Outcomes /\ Titles
  <2>1. Init => Outcomes
    BY DEF Init, Outcomes, Idle
  <2>2. Init => Titles
    BY DEF Init, Titles, Idle, Down, Cohorts
  <2> QED
    BY <2>1, <2>2, TypedInit
<1>2. (Typed /\ Outcomes /\ Titles) /\ [Next]_vars => (Typed /\ Outcomes /\ Titles)'
  BY TypedStep, OutcomesStep, TitlesStep
<1>3. Typed /\ Outcomes /\ Titles => OneOpenRolloutPerTask
  <2> SUFFICES ASSUME Typed, Outcomes, Titles, NEW t \in Tasks
               PROVE  Cardinality({r \in Runs : TaskOf(r) = t /\ Open(r)}) <= 1
    BY DEF OneOpenRolloutPerTask
  <2> DEFINE S == {r \in Runs : TaskOf(r) = t /\ Open(r)}
  <2>1. CASE S = {}
    BY <2>1, FS_EmptySet
  <2>2. ASSUME NEW r \in S
        PROVE  Cardinality(S) <= 1
    <3>1. \A s \in S : s = r
      BY <2>2, TitlesExclude
    <3>2. S = {r}
      BY <3>1
    <3> HIDE DEF S
    <3> QED
      BY <3>2, FS_Singleton
  <2> QED
    BY <2>1, <2>2
<1> QED
  BY <1>1, <1>2, <1>3, PTL DEF Spec

-----------------------------------------------------------------------------
Ats == {"down", "wait", "look", "fill", "drain", "train"}
ACoord == [at : Ats, passed : SUBSET Tasks, ready : SUBSET Tasks, tried : SUBSET Tasks, halted : BOOLEAN]

\* All the types, those of the coordinators and the files included.
Shaped ==
  /\ Typed
  /\ coord \in [Cohorts -> ACoord]
  /\ starts \in [Cohorts -> Nat] /\ target \in Nat
  /\ summary \in [Runs -> {"none", "unknown", "failed", "completed"}]
  /\ export \in [Cohorts -> [Tasks -> {"none", "torn", "good"}]]
  /\ exporting \in [Cohorts -> [Tasks -> {"no", "open", "write"}]]

\* The fields of a coordinator.
Is(k, a, p, r, tr, h) ==
  /\ k \in ACoord /\ k.at = a /\ k.passed = p /\ k.ready = r /\ k.tried = tr /\ k.halted = h

\* The one coordinator that a step changes.
Becomes(c, a, p, r, tr, h) ==
  /\ Is(coord'[c], a, p, r, tr, h)
  /\ \A d \in Cohorts : d # c => coord'[d] = coord[d]
  /\ coord' \in [Cohorts -> ACoord]

\* A coordinator that ends, or is killed.
LEMMA DownBecomes ==
  ASSUME Shaped, NEW c \in Cohorts, coord' = [coord EXCEPT ![c] = Down]
  PROVE Becomes(c, "down", {}, {}, {}, FALSE)
BY DEF Shaped, Becomes, Is, Ats, Down, ACoord

\* One that is started.
LEMMA StartBecomes ==
  ASSUME Shaped, NEW c \in Cohorts, Start(c)
  PROVE /\ c = "fast" => Becomes(c, "fill", Good(c), Tasks \ Good(c), {}, FALSE)
        /\ c = "thinking" => Becomes(c, "look", {}, {}, {}, FALSE)
        /\ c = "protocol" => Becomes(c, "wait", {}, {}, {}, FALSE)
<1>0. Tasks \ Good(c) \in SUBSET Tasks /\ Good(c) \in SUBSET Tasks /\ Down \in ACoord
  BY DEF Good, Down, ACoord, Ats
<1>1. CASE c = "fast"
  <2> DEFINE g == Good(c)
             n == Tasks \ Good(c)
  <2>1. coord' = [coord EXCEPT ![c] = [Down EXCEPT !.at = "fill", !.passed = g, !.ready = n]]
    BY <1>1 DEF Start
  <2>2. g \in SUBSET Tasks /\ n \in SUBSET Tasks
    BY <1>0
  <2> HIDE DEF g, n
  <2>3. Is([Down EXCEPT !.at = "fill", !.passed = g, !.ready = n], "fill", g, n, {}, FALSE)
    BY <2>2 DEF Is, Down, ACoord, Ats
  <2>4. Becomes(c, "fill", g, n, {}, FALSE)
    BY <2>1, <2>3 DEF Shaped, Becomes, Is
  <2> QED
    BY <1>1, <2>4 DEF g, n
<1>2. CASE c # "fast"
  <2>1. \A a \in Ats : Is([Down EXCEPT !.at = a], a, {}, {}, {}, FALSE)
    BY DEF Is, Down, ACoord
  <2>2. \A a \in Ats : coord' = [coord EXCEPT ![c] = [Down EXCEPT !.at = a]] => Becomes(c, a, {}, {}, {}, FALSE)
    BY <2>1 DEF Shaped, Becomes, Is
  <2> QED
    BY <1>2, <2>2 DEF Start, Cohorts, Ats
<1> QED
  BY <1>1, <1>2

\* The protocol cohort when the thinking cohort has reported.
LEMMA AdmitBecomes ==
  ASSUME Shaped, Admit
  PROVE LET k == coord["protocol"]
        IN  \/ Becomes("protocol", "down", {}, {}, {}, FALSE)
            \/ Becomes("protocol", "look", k.passed, {t \in Tasks \ Qualified("protocol") : Retryable(t)}, k.tried, k.halted)
<1> DEFINE k == coord["protocol"]
           r == {t \in Tasks \ Qualified("protocol") : Retryable(t)}
<1>1. k \in ACoord /\ "protocol" \in Cohorts
  BY DEF Shaped, Cohorts
<1>2. CASE coord' = [coord EXCEPT !["protocol"] = Down]
  BY <1>1, <1>2, DownBecomes
<1>3. CASE coord' = [coord EXCEPT !["protocol"].at = "look", !["protocol"].ready = r]
  <2>0. r \in SUBSET Tasks
    OBVIOUS
  <2> HIDE DEF r
  <2>1. coord' = [coord EXCEPT !["protocol"] = [k EXCEPT !.at = "look", !.ready = r]]
    BY <1>1, <1>3 DEF Shaped
  <2>2. Is([k EXCEPT !.at = "look", !.ready = r], "look", k.passed, r, k.tried, k.halted)
    BY <1>1, <2>0 DEF ACoord, Is, Ats
  <2>3. Becomes("protocol", "look", k.passed, r, k.tried, k.halted)
    BY <1>1, <2>1, <2>2 DEF Shaped, Becomes, Is, Ats
  <2> QED
    BY <2>3 DEF r
<1> QED
  BY <1>2, <1>3 DEF Admit

\* One that begins a round.
LEMMA LookBecomes ==
  ASSUME Shaped, NEW c \in Cohorts, Look(c)
  PROVE LET k == coord[c]
        IN \E a \in {"fill", "drain"}, r \in SUBSET Tasks :
           /\ Becomes(c, a, Qualified(c), r, k.tried, k.halted)
           /\ a = "drain" => c = "thinking"
           /\ r = k.ready \/ (c = "thinking" /\ r \cap k.tried = {})
<1> DEFINE k == coord[c]
           a == IF c = "thinking" /\ (Cardinality(Qualified(c)) >= target \/ coord[c].halted)
                THEN "drain" ELSE "fill"
           r == IF c = "thinking"
                THEN {t \in Tasks \ (Qualified(c) \cup coord[c].tried) : Exhausted(t)} ELSE k.ready
<1>1. k \in ACoord
  BY DEF Shaped
<1>2. a \in {"fill", "drain"} /\ (a = "drain" => c = "thinking") /\ r \in SUBSET Tasks /\ Qualified(c) \in SUBSET Tasks
      /\ (r = k.ready \/ (c = "thinking" /\ r \cap k.tried = {}))
  BY <1>1 DEF ACoord, Qualified, Good
<1>3. coord' = [coord EXCEPT ![c] = [k EXCEPT !.passed = Qualified(c), !.at = a, !.ready = r]]
  BY DEF Look, Shaped
<1> HIDE DEF a, r
<1>4. Is([k EXCEPT !.passed = Qualified(c), !.at = a, !.ready = r], a, Qualified(c), r, k.tried, k.halted)
  BY <1>1, <1>2 DEF ACoord, Is, Ats
<1>5. Becomes(c, a, Qualified(c), r, k.tried, k.halted)
  BY <1>3, <1>4 DEF Shaped, Becomes, Is, Ats
<1> QED
  BY <1>2, <1>5

\* One that submits a task.
LEMMA SubmitBecomes ==
  ASSUME Shaped, NEW c \in Cohorts, NEW t \in Tasks, Submit(c, t)
  PROVE LET k == coord[c]
        IN Becomes(c, k.at, k.passed, k.ready \ {t}, k.tried \cup {t}, k.halted)
<1> DEFINE k == coord[c]
<1>1. k \in ACoord
  BY DEF Shaped
<1>2. coord' = [coord EXCEPT ![c] = [k EXCEPT !.ready = k.ready \ {t}, !.tried = k.tried \cup {t}]]
  BY DEF Submit, Shaped
<1>3. Is([k EXCEPT !.ready = k.ready \ {t}, !.tried = k.tried \cup {t}],
         k.at, k.passed, k.ready \ {t}, k.tried \cup {t}, k.halted)
  BY <1>1 DEF ACoord, Is, Ats
<1> QED
  BY <1>2, <1>3 DEF Shaped, Becomes, Is, Ats

\* One that takes a future.
LEMMA CollectBecomes ==
  ASSUME Shaped, NEW c \in Cohorts, NEW t \in Tasks, Collect(c, t)
  PROVE LET k == coord[c]
        IN Becomes(c, IF c # "fast" /\ k.at = "fill" THEN "look" ELSE k.at,
                      IF c = "fast" /\ thread[c][t].result = "accepted" THEN k.passed \cup {t} ELSE k.passed,
                      k.ready, k.tried, k.halted \/ (c # "fast" /\ thread[c][t].result = "uncertain"))
<1> DEFINE k == coord[c]
           a == IF c # "fast" /\ k.at = "fill" THEN "look" ELSE k.at
           p == IF c = "fast" /\ thread[c][t].result = "accepted" THEN k.passed \cup {t} ELSE k.passed
           h == k.halted \/ (c # "fast" /\ thread[c][t].result = "uncertain")
<1>1. k \in ACoord
  BY DEF Shaped
<1>2. coord' = [coord EXCEPT ![c] = [k EXCEPT !.halted = h, !.passed = p, !.at = a]]
  BY <1>1 DEF Collect, Shaped, ACoord
<1>0. a \in Ats /\ p \in SUBSET Tasks /\ h \in BOOLEAN
  BY <1>1 DEF ACoord, Ats
<1> HIDE DEF a, p, h
<1>3. Is([k EXCEPT !.halted = h, !.passed = p, !.at = a], a, p, k.ready, k.tried, h)
  BY <1>0, <1>1 DEF ACoord, Is
<1>4. Becomes(c, a, p, k.ready, k.tried, h)
  BY <1>2, <1>3 DEF Shaped, Becomes, Is, Ats
<1> QED
  BY <1>4 DEF a, p, h

\* The thinking cohort that asks after the fast campaign.
LEMMA PollBecomes ==
  ASSUME Shaped, Poll
  PROVE LET k == coord["thinking"]
        IN \E a \in {"look", "drain"} : Becomes("thinking", a, k.passed, k.ready, k.tried, k.halted)
BY DEF Shaped, Becomes, Is, Ats, Down, ACoord, Poll, Cohorts

\* One whose thread halts it.
LEMMA HaltBecomes ==
  ASSUME Shaped, NEW c \in Cohorts, NEW b \in BOOLEAN, coord' = coord \/ coord' = Halt(c, b)
  PROVE LET k == coord[c]
        IN \E h \in BOOLEAN : (k.halted => h) /\ Becomes(c, k.at, k.passed, k.ready, k.tried, h)
<1> DEFINE k == coord[c]
<1>1. k \in ACoord
  BY DEF Shaped
<1>2. CASE coord' = coord
  <2>1. Is(k, k.at, k.passed, k.ready, k.tried, k.halted) /\ k.halted \in BOOLEAN
    BY <1>1 DEF Is, ACoord
  <2> QED
    BY <1>2, <2>1 DEF Shaped, Becomes
<1>3. CASE coord' = Halt(c, b)
  <2> DEFINE h == k.halted \/ (c = "fast" /\ b)
  <2>1. coord' = [coord EXCEPT ![c] = [k EXCEPT !.halted = h]] /\ h \in BOOLEAN /\ (k.halted => h)
    BY <1>1, <1>3 DEF Halt, Shaped, ACoord
  <2> HIDE DEF h
  <2>2. Is([k EXCEPT !.halted = h], k.at, k.passed, k.ready, k.tried, h)
    BY <1>1, <2>1 DEF Is, ACoord
  <2> QED
    BY <2>1, <2>2 DEF Shaped, Becomes, Is
<1> QED
  BY <1>2, <1>3


\* What the reports and the start of the training do to a coordinator.
LEMMA ReportBecomes ==
  ASSUME Shaped, NEW c \in Cohorts, Report(c)
  PROVE  \/ Becomes(c, "down", {}, {}, {}, FALSE)
         \/ /\ Becomes(c, "train", Qualified(c), {}, {}, FALSE)
            /\ c # "fast" /\ ~coord[c].halted /\ Cardinality(Qualified(c)) >= target
<1>1. CASE coord' = [coord EXCEPT ![c] = Down]
  BY <1>1, DownBecomes
<1>2. CASE /\ c # "fast" /\ Verdict(c, Qualified(c)) = "completed"
           /\ coord' = [coord EXCEPT ![c] = [Down EXCEPT !.at = "train", !.passed = Qualified(c)]]
  <2> DEFINE q == Qualified(c)
  <2>1. q \in SUBSET Tasks
    BY DEF Qualified, Good
  <2>2. ~coord[c].halted /\ Cardinality(q) >= target
    BY <1>2 DEF Verdict
  <2>3. coord' = [coord EXCEPT ![c] = [Down EXCEPT !.at = "train", !.passed = q]]
    BY <1>2
  <2> HIDE DEF q
  <2>4. Is([Down EXCEPT !.at = "train", !.passed = q], "train", q, {}, {}, FALSE)
    BY <2>1 DEF Is, Down, ACoord, Ats
  <2>5. Becomes(c, "train", q, {}, {}, FALSE)
    BY <2>3, <2>4 DEF Shaped, Becomes, Is
  <2> QED
    BY <1>2, <2>2, <2>5 DEF q
<1> QED
  BY <1>1, <1>2 DEF Report

\* A thread changes its coordinator in nothing but the flag, which is not
\* taken back, and leaves the other files alone.
LEMMA WorkBecomes ==
  ASSUME Shaped, NEW c \in Cohorts, NEW t \in Tasks, Work(c, t)
  PROVE  /\ LET k == coord[c]
            IN  \E h \in BOOLEAN : (k.halted => h) /\ Becomes(c, k.at, k.passed, k.ready, k.tried, h)
         /\ starts' = starts /\ target' = target /\ pipeline' = pipeline
         /\ export' = export /\ summary' = summary
<1>1. \E b \in BOOLEAN : coord' = coord \/ coord' = Halt(c, b)
  BY DEF Work, StopHalted, Reuse, RefuseUnknown, Pass, Launch, RecordUnknown, EvaluationPasses,
         EvaluationFails, RecordAccepted, RecordRejected, Reject
<1>2. /\ starts' = starts /\ target' = target /\ pipeline' = pipeline
      /\ export' = export /\ summary' = summary
  BY DEF Work, StopHalted, Reuse, RefuseUnknown, Pass, Launch, RecordUnknown, EvaluationPasses,
         EvaluationFails, RecordAccepted, RecordRejected, Reject, files
<1> QED
  BY <1>1, <1>2, HaltBecomes

\* Every step leaves the coordinators what they are.
LEMMA CoordinatorsStayShaped ==
  ASSUME Shaped, [Next]_vars
  PROVE  coord' \in [Cohorts -> ACoord]
<1>1. ASSUME NEW c \in Cohorts, Start(c) \/ Crash(c) \/ Look(c) \/ Report(c) \/ Train(c)
      PROVE  coord' \in [Cohorts -> ACoord]
  <2>1. CASE Start(c)
    BY <2>1, StartBecomes DEF Becomes, Cohorts
  <2>2. CASE Crash(c) \/ Train(c)
    BY <2>2, DownBecomes DEF Becomes, Crash, Train
  <2>3. CASE Look(c)
    BY <2>3, LookBecomes DEF Becomes
  <2>4. CASE Report(c)
    BY <2>4, ReportBecomes DEF Becomes
  <2> QED
    BY <1>1, <2>1, <2>2, <2>3, <2>4
<1>2. ASSUME NEW c \in Cohorts, NEW t \in Tasks, Submit(c, t) \/ Collect(c, t) \/ Work(c, t)
      PROVE  coord' \in [Cohorts -> ACoord]
  <2>1. CASE Submit(c, t)
    BY <2>1, SubmitBecomes DEF Becomes
  <2>2. CASE Collect(c, t)
    BY <2>2, CollectBecomes DEF Becomes
  <2>3. CASE Work(c, t)
    BY <2>3, WorkBecomes DEF Becomes
  <2> QED
    BY <1>2, <2>1, <2>2, <2>3
<1>3. CASE Admit
  BY <1>3, AdmitBecomes DEF Becomes
<1>4. CASE WaitedTooLong
  BY <1>4, DownBecomes DEF WaitedTooLong, Becomes, Cohorts
<1>5. CASE Poll
  BY <1>5, PollBecomes DEF Becomes
<1>6. ASSUME \/ UNCHANGED vars \/ \E r \in Runs : AgentEnds(r)
             \/ \E c \in Cohorts, t \in Tasks : Export(c, t)
      PROVE  coord' \in [Cohorts -> ACoord]
  BY <1>6 DEF Shaped, vars, AgentEnds, Export, ExportOpens, ExportCloses, ExportKilled
<1> QED
  BY <1>1, <1>2, <1>3, <1>4, <1>5, <1>6 DEF Next, Coordinate

\* What the coordinators leave alone.
LEMMA FilesOfOthers ==
  ASSUME Shaped, NEW c \in Cohorts,
         \/ Start(c) \/ Crash(c) \/ Look(c) \/ Report(c) \/ Train(c) \/ Admit \/ WaitedTooLong \/ Poll
         \/ \E t \in Tasks : Submit(c, t) \/ Collect(c, t)
  PROVE  /\ target' = target /\ summary' = summary /\ export' = export /\ exporting' = exporting
         /\ live' = live /\ log' = log /\ outcome' = outcome
         /\ starts' = (IF Start(c) THEN [starts EXCEPT ![c] = @ + 1] ELSE starts)
         /\ pipeline' = pipeline \/ Train(c)
BY DEF Start, Crash, Look, Report, Train, Admit, WaitedTooLong, Poll, Submit, Collect, files, childs

\* One entry of a table of the cohorts' tasks.
LEMMA OneEntry ==
  ASSUME NEW S, NEW f \in [Cohorts -> [Tasks -> S]], NEW c \in Cohorts, NEW t \in Tasks, NEW x \in S, NEW g,
         g = [f EXCEPT ![c][t] = x]
  PROVE  /\ g \in [Cohorts -> [Tasks -> S]] /\ g[c][t] = x
         /\ \A d \in Cohorts, u \in Tasks : <<d, u>> # <<c, t>> => g[d][u] = f[d][u]
<1>1. [f[c] EXCEPT ![t] = x] \in [Tasks -> S] /\ g = [f EXCEPT ![c] = [f[c] EXCEPT ![t] = x]]
  OBVIOUS
<1>2. g \in [Cohorts -> [Tasks -> S]] /\ g[c] = [f[c] EXCEPT ![t] = x] /\ \A d \in Cohorts : d # c => g[d] = f[d]
  BY <1>1
<1> QED
  BY <1>2

\* What the export processes do to the files.
LEMMA ExportWrites ==
  ASSUME Shaped, NEW c \in Cohorts, NEW t \in Tasks, Export(c, t)
  PROVE  /\ exporting[c][t] # "no"
         /\ export' \in [Cohorts -> [Tasks -> {"none", "torn", "good"}]]
         /\ exporting' \in [Cohorts -> [Tasks -> {"no", "open", "write"}]]
         /\ \A d \in Cohorts, u \in Tasks : <<d, u>> # <<c, t>> =>
              export'[d][u] = export[d][u] /\ exporting'[d][u] = exporting[d][u]
         /\ starts' = starts /\ target' = target /\ summary' = summary /\ pipeline' = pipeline
         /\ coord' = coord /\ thread' = thread /\ outcome' = outcome /\ log' = log /\ live' = live
<1>1. /\ exporting[c][t] # "no"
      /\ \E x \in {"no", "open", "write"} : exporting' = [exporting EXCEPT ![c][t] = x]
      /\ export' = export \/ \E x \in {"none", "torn", "good"} : export' = [export EXCEPT ![c][t] = x]
  BY DEF Export, ExportOpens, ExportCloses, ExportKilled, files
<1>2. exporting \in [Cohorts -> [Tasks -> {"no", "open", "write"}]] /\ export \in [Cohorts -> [Tasks -> {"none", "torn", "good"}]]
  BY DEF Shaped
<1>3. /\ exporting' \in [Cohorts -> [Tasks -> {"no", "open", "write"}]]
      /\ \A d \in Cohorts, u \in Tasks : <<d, u>> # <<c, t>> => exporting'[d][u] = exporting[d][u]
  <2>1. PICK x \in {"no", "open", "write"} : exporting' = [exporting EXCEPT ![c][t] = x]
    BY <1>1
  <2> QED
    BY <1>2, <2>1, OneEntry
<1>4. /\ export' \in [Cohorts -> [Tasks -> {"none", "torn", "good"}]]
      /\ \A d \in Cohorts, u \in Tasks : <<d, u>> # <<c, t>> => export'[d][u] = export[d][u]
  <2>1. CASE export' = export
    BY <1>2, <2>1
  <2>2. ASSUME NEW x \in {"none", "torn", "good"}, export' = [export EXCEPT ![c][t] = x]
        PROVE  /\ export' \in [Cohorts -> [Tasks -> {"none", "torn", "good"}]]
               /\ \A d \in Cohorts, u \in Tasks : <<d, u>> # <<c, t>> => export'[d][u] = export[d][u]
    BY <1>2, <2>2, OneEntry
  <2> QED
    BY <1>1, <2>1, <2>2
<1>5. /\ starts' = starts /\ target' = target /\ summary' = summary /\ pipeline' = pipeline
      /\ coord' = coord /\ thread' = thread /\ outcome' = outcome /\ log' = log /\ live' = live
  BY DEF Export, ExportOpens, ExportCloses, ExportKilled, files
<1> QED
  BY <1>1, <1>3, <1>4, <1>5

\* All the types are kept.
LEMMA ShapedStep ==
  ASSUME Shaped, [Next]_vars
  PROVE  Shaped'
<1>0. Typed' /\ coord' \in [Cohorts -> ACoord]
  BY TypedStep, CoordinatorsStayShaped DEF Shaped
<1> DEFINE Rest == /\ starts' \in [Cohorts -> Nat] /\ target' \in Nat
                   /\ summary' \in [Runs -> {"none", "unknown", "failed", "completed"}]
                   /\ export' \in [Cohorts -> [Tasks -> {"none", "torn", "good"}]]
                   /\ exporting' \in [Cohorts -> [Tasks -> {"no", "open", "write"}]]
<1>1. ASSUME NEW c \in Cohorts,
         \/ Start(c) \/ Crash(c) \/ Look(c) \/ Report(c) \/ Train(c) \/ Admit \/ WaitedTooLong \/ Poll
         \/ \E t \in Tasks : Submit(c, t) \/ Collect(c, t)
      PROVE  Rest
  BY <1>1, FilesOfOthers DEF Shaped
<1>2. ASSUME NEW c \in Cohorts, NEW t \in Tasks, Work(c, t)
      PROVE  Rest
  <2>1. exporting' = exporting \/ exporting' = [exporting EXCEPT ![c][t] = "open"]
    BY <1>2 DEF Work, StopHalted, Reuse, RefuseUnknown, Pass, Launch, RecordUnknown, EvaluationPasses,
         EvaluationFails, RecordAccepted, RecordRejected, Reject, childs
  <2>2. exporting \in [Cohorts -> [Tasks -> {"no", "open", "write"}]]
    BY DEF Shaped
  <2>3. exporting' \in [Cohorts -> [Tasks -> {"no", "open", "write"}]]
    BY <2>1, <2>2, OneEntry
  <2>4. starts' = starts /\ target' = target /\ export' = export /\ summary' = summary
    BY <1>2, WorkBecomes
  <2> QED
    BY <2>3, <2>4 DEF Shaped
<1>3. ASSUME NEW c \in Cohorts, NEW t \in Tasks, Export(c, t)
      PROVE  Rest
  BY <1>3, ExportWrites DEF Shaped
<1>4. ASSUME NEW r \in Runs, AgentEnds(r)
      PROVE  Rest
  BY <1>4 DEF AgentEnds, Shaped
<1>5. ASSUME UNCHANGED vars
      PROVE  Rest
  <2>1. starts' = starts /\ target' = target /\ summary' = summary /\ export' = export /\ exporting' = exporting
    BY <1>5 DEF vars, files, childs
  <2> QED
    BY <2>1 DEF Shaped
<1>6. "fast" \in Cohorts
  BY DEF Cohorts
<1> HIDE DEF Rest
<1>7. Rest
  BY <1>1, <1>2, <1>3, <1>4, <1>5, <1>6 DEF Next, Coordinate
<1> QED
  BY <1>0, <1>7 DEF Shaped, Rest

\* The first state has these types.
LEMMA ShapedInit ==
  ASSUME Init
  PROVE  Shaped
<1>1. Down \in ACoord
  BY DEF Down, ACoord, Ats
<1>2. coord \in [Cohorts -> ACoord]
  BY <1>1 DEF Init
<1>3. export \in [Cohorts -> [Tasks -> {"none", "torn", "good"}]]
  BY DEF Init
<1>4. target \in Nat
  BY CampaignAssumption DEF Init
<1>5. starts \in [Cohorts -> Nat] /\ exporting \in [Cohorts -> [Tasks -> {"no", "open", "write"}]]
      /\ summary \in [Runs -> {"none", "unknown", "failed", "completed"}]
  BY DEF Init
<1> QED
  BY <1>2, <1>3, <1>4, <1>5, TypedInit DEF Shaped

-----------------------------------------------------------------------------
\* The pools of threads: who waits, trains or is gone has nothing in hand, a
\* ready task is in nobody's hand, and only a certain cohort trains.
Pool(c) ==
  /\ coord[c].at \in {"down", "wait", "train"} => \A t \in Tasks : thread[c][t].at = "idle"
  /\ \A t \in coord[c].ready : thread[c][t].at = "idle"
  /\ starts[c] = 0 => coord[c].at = "down"
  /\ coord[c].at = "train" => c # "fast" /\ ~coord[c].halted /\ Cardinality(coord[c].passed) >= target
  /\ c = "thinking" => \A t \in Tasks : thread[c][t].at # "idle" => t \in coord[c].tried
  /\ c = "fast" => coord[c].at \in {"down", "fill"}
Pools == \A c \in Cohorts : Pool(c)

\* A rollout of the cohort has an unknown outcome.
Uncertain(c) == \E r \in Runs : r[1] = c /\ outcome[r] = "uncertain"

\* A cohort in its first start that has met an unknown outcome has halted, or
\* will when it takes the future; who has started the training is gone.
Known(c) ==
  /\ starts[c] = 0 => ~Uncertain(c)
  /\ starts[c] = 1 /\ coord[c].at # "down" /\ Uncertain(c) =>
       coord[c].halted \/ \E t \in Tasks : thread[c][t].at = "done" /\ thread[c][t].result = "uncertain"
Gone(c) == starts[c] # 0 /\ (starts[c] = 1 => coord[c].at = "down" /\ ~Uncertain(c))
Knowledge ==
  /\ \A c \in Cohorts \ {"fast"} : Known(c)
  /\ pipeline # NoPipeline => pipeline.by \in Cohorts \ {"fast"} /\ Gone(pipeline.by)

\* A completed agent of a task that has ended.
Backed(t) ==
  \E r \in Runs : TaskOf(r) = t /\ summary[r] = "completed" /\ r \in log /\ r \notin live

\* Every export, and every process that writes one, has such an agent.
Evidence ==
  /\ \A c \in Cohorts, t \in Tasks :
       /\ exporting[c][t] # "no" => Backed(t)
       /\ export[c][t] = "good" => Backed(t) \/ t \in Seeds
  /\ pipeline # NoPipeline =>
       /\ Cardinality(pipeline.tasks) >= target
       /\ \A t \in pipeline.tasks \ Seeds : Backed(t)

\* The tasks that count as accepted by the fast campaign.
AcceptedOf(t) == \E r \in Runs : r[1] = "fast" /\ TaskOf(r) = t /\ outcome[r] = "accepted"
Accepted == Seeds \cup {t \in Tasks : AcceptedOf(t)}

\* Before its first start the fast campaign has nothing but the seeds.
Untouched ==
  /\ Good("fast") = Seeds /\ \A t \in Tasks : ~AcceptedOf(t) /\ exporting["fast"][t] = "no"

\* A task that the first collector of the fast campaign has not given up, or
\* has without success, is not accepted.
Unaccepted ==
  \A t \in Tasks :
    /\ \/ t \in coord["fast"].ready
       \/ thread["fast"][t].at \in {"check", "launch", "wait", "export"}
       \/ thread["fast"][t].at = "done" /\ thread["fast"][t].result # "accepted"
    => ~AcceptedOf(t)

\* What the first fast collector has and may still get stays within the target.
WithinTarget ==
  /\ Unaccepted
  /\ Accepted \subseteq coord["fast"].passed \cup Running("fast")
  /\ Seeds \subseteq coord["fast"].passed
  /\ Cardinality(coord["fast"].passed) + Cardinality(Running("fast")) <= target

Capacity ==
  /\ starts["fast"] = 0 => Untouched
  /\ starts["fast"] = 1 /\ Cardinality(Seeds) <= target =>
       Cardinality(Accepted) <= target /\ (coord["fast"].at = "fill" => WithinTarget)

\* A step of one cohort leaves the pools of the others alone.
Within(c) ==
  /\ target' = target
  /\ \A d \in Cohorts \ {c} :
       /\ coord'[d] = coord[d] /\ starts'[d] = starts[d]
       /\ \A t \in Tasks : thread'[d][t] = thread[d][t]

\* Such a step keeps the order of the pools, if it keeps its own.
LEMMA OnePool ==
  ASSUME Shaped, Pools, NEW c \in Cohorts, Within(c), Pool(c)'
  PROVE  Pools'
<1>1. ASSUME NEW d \in Cohorts, d # c
      PROVE  Pool(d)'
  <2>1. /\ coord'[d] = coord[d] /\ starts'[d] = starts[d] /\ target' = target
        /\ \A t \in Tasks : thread'[d][t] = thread[d][t]
    BY <1>1 DEF Within
  <2>2. coord[d].ready \subseteq Tasks
    BY DEF Shaped, ACoord
  <2> QED
    BY <2>1, <2>2 DEF Pools, Pool
<1> QED
  BY <1>1 DEF Pools

\* The steps of one cohort, and those of the children it left to themselves.
StepOf(c) ==
  \/ Start(c) \/ Crash(c) \/ Coordinate(c)
  \/ \E t \in Tasks : Work(c, t)
  \/ c = "protocol" /\ (Admit \/ WaitedTooLong)
  \/ c = "thinking" /\ Poll

Beside ==
  UNCHANGED <<coord, thread, starts, target, outcome, pipeline>>

\* Every step is one of these.
LEMMA StepsOf ==
  ASSUME Shaped, [Next]_vars
  PROVE  Beside \/ \E c \in Cohorts : StepOf(c)
<1>1. ASSUME \/ UNCHANGED vars \/ \E r \in Runs : AgentEnds(r)
             \/ \E c \in Cohorts, t \in Tasks : Export(c, t)
      PROVE  Beside
  BY <1>1, ExportWrites DEF vars, files, AgentEnds, Beside
<1>2. "protocol" \in Cohorts /\ "thinking" \in Cohorts
  BY DEF Cohorts
<1> QED
  BY <1>1, <1>2 DEF Next, StepOf

\* A step of a cohort keeps its pool in order and touches no other's.
LEMMA PoolStep ==
  ASSUME Shaped, Pools, NEW e \in Cohorts, StepOf(e)
  PROVE  Within(e) /\ Pool(e)'
<1>0. /\ Idle.at = "idle" /\ Cohorts = {"fast", "thinking", "protocol"}
      /\ thread \in [Cohorts -> [Tasks -> AThread]] /\ starts \in [Cohorts -> Nat]
      /\ \A c \in Cohorts : Pool(c) /\ coord[c].ready \subseteq Tasks
  BY DEF Idle, Cohorts, Shaped, Typed, Pools, ACoord
<1>1. ASSUME NEW c \in Cohorts, Start(c)
      PROVE  Within(c) /\ Pool(c)'
  <2>1. starts' = [starts EXCEPT ![c] = @ + 1] /\ thread' = thread /\ target' = target /\ coord[c].at = "down"
    BY <1>1 DEF Start
  <2>2. starts'[c] # 0 /\ \A d \in Cohorts : d # c => starts'[d] = starts[d]
    BY <1>0, <2>1
  <2>3. \A t \in Tasks : thread'[c][t].at = "idle"
    BY <1>0, <2>1 DEF Pool
  <2>4. PICK a \in {"fill", "look", "wait"}, p, r \in SUBSET Tasks :
          Becomes(c, a, p, r, {}, FALSE) /\ (c = "fast" => a = "fill")
    <3>1. Good(c) \in SUBSET Tasks /\ Tasks \ Good(c) \in SUBSET Tasks /\ {} \in SUBSET Tasks
      BY DEF Good
    <3> QED
      BY <1>0, <1>1, <3>1, StartBecomes
  <2> QED
    BY <2>1, <2>2, <2>3, <2>4 DEF Within, Pool, Becomes, Is
<1>2. ASSUME NEW c \in Cohorts, Crash(c)
      PROVE  Within(c) /\ Pool(c)'
  <2>1. /\ starts' = starts /\ target' = target /\ Becomes(c, "down", {}, {}, {}, FALSE)
        /\ thread' = [thread EXCEPT ![c] = [t \in Tasks |-> Idle]]
    BY <1>2, DownBecomes DEF Crash
  <2>2. \A t \in Tasks : thread'[c][t].at = "idle"
    BY <1>0, <2>1
  <2>3. \A d \in Cohorts : d # c => thread'[d] = thread[d]
    BY <1>0, <2>1
  <2> QED
    BY <2>1, <2>2, <2>3 DEF Within, Pool, Becomes, Is
<1>3. ASSUME NEW c \in Cohorts, Look(c) \/ Report(c) \/ Train(c)
      PROVE  Within(c) /\ Pool(c)'
  <2>1. starts' = starts /\ target' = target /\ thread' = thread /\ Pool(c)
    BY <1>0, <1>3 DEF Look, Report, Train
  <2>2. CASE Look(c)
    <3>1. PICK a \in {"fill", "drain"}, r \in SUBSET Tasks :
            /\ Becomes(c, a, Qualified(c), r, coord[c].tried, coord[c].halted)
            /\ a = "drain" => c = "thinking"
            /\ r = coord[c].ready \/ (c = "thinking" /\ r \cap coord[c].tried = {})
      BY <2>2, LookBecomes
    <3>2. coord[c].at = "look"
      BY <2>2 DEF Look
    <3>3. \A t \in r : t \in Tasks /\ thread[c][t].at = "idle"
      BY <2>1, <3>1 DEF Pool
    <3> QED
      BY <2>1, <3>1, <3>2, <3>3 DEF Within, Pool, Becomes, Is
  <2>3. CASE Report(c)
    <3>1. \A t \in Tasks : thread[c][t].at = "idle"
      BY <2>3 DEF Report, Running
    <3>2. starts[c] # 0
      BY <2>1, <2>3 DEF Report, Pool
    <3>3. \/ Becomes(c, "down", {}, {}, {}, FALSE)
          \/ /\ Becomes(c, "train", Qualified(c), {}, {}, FALSE)
             /\ c # "fast" /\ Cardinality(Qualified(c)) >= target
      BY <2>3, ReportBecomes
    <3> QED
      BY <2>1, <3>1, <3>2, <3>3 DEF Within, Pool, Becomes, Is
  <2>4. CASE Train(c)
    <3>1. \A t \in Tasks : thread[c][t].at = "idle"
      BY <2>1, <2>4 DEF Train, Pool
    <3>2. Becomes(c, "down", {}, {}, {}, FALSE)
      BY <2>4, DownBecomes DEF Train
    <3> QED
      BY <2>1, <3>1, <3>2 DEF Within, Pool, Becomes, Is
  <2> QED
    BY <1>3, <2>2, <2>3, <2>4
<1>4. ASSUME NEW c \in Cohorts, NEW t \in Tasks, Submit(c, t)
      PROVE  Within(c) /\ Pool(c)'
  <2> DEFINE k == coord[c]
  <2>1. /\ starts' = starts /\ target' = target /\ k.at = "fill" /\ t \in k.ready /\ Pool(c)
        /\ Becomes(c, k.at, k.passed, k.ready \ {t}, k.tried \cup {t}, k.halted)
    BY <1>0, <1>4, SubmitBecomes DEF Submit, CanSubmit
  <2>2. \A d \in Cohorts, u \in Tasks : <<d, u>> # <<c, t>> => thread'[d][u] = thread[d][u]
    <3>0. thread \in [Cohorts -> [Tasks -> AThread]]
      BY <1>0
    <3> DEFINE x == [Idle EXCEPT !.at = "check"]
    <3>1. x \in AThread /\ thread' = [thread EXCEPT ![c][t] = x]
      BY <1>4, IdleTyped DEF Submit
    <3> HIDE DEF x
    <3> QED
      BY <3>0, <3>1, OneEntry
  <2>3. /\ \A d \in Cohorts \ {c}, u \in Tasks : thread'[d][u] = thread[d][u]
        /\ \A u \in Tasks : u # t => thread'[c][u] = thread[c][u]
    BY <2>2
  <2>4. k.ready \subseteq Tasks
    BY <1>0
  <2> QED
    BY <2>1, <2>3, <2>4 DEF Within, Pool, Becomes, Is
<1>5. ASSUME NEW c \in Cohorts, NEW t \in Tasks, Collect(c, t)
      PROVE  Within(c) /\ Pool(c)'
  <2>1. starts' = starts /\ target' = target /\ coord[c].at \in {"fill", "drain"} /\ Pool(c)
    BY <1>0, <1>5 DEF Collect
  <2>2. /\ \A d \in Cohorts, u \in Tasks : <<d, u>> # <<c, t>> => thread'[d][u] = thread[d][u]
        /\ thread'[c][t].at = "idle"
    <3>1. Idle \in AThread /\ thread' = [thread EXCEPT ![c][t] = Idle]
      BY <1>5, IdleTyped DEF Collect
    <3>2. /\ \A d \in Cohorts, u \in Tasks : <<d, u>> # <<c, t>> => thread'[d][u] = thread[d][u]
          /\ thread'[c][t] = Idle
      BY <1>0, <3>1, OneEntry
    <3> QED
      BY <1>0, <3>2
  <2>3. /\ \A d \in Cohorts \ {c}, u \in Tasks : thread'[d][u] = thread[d][u]
        /\ \A u \in Tasks : thread'[c][u].at = "idle" \/ thread'[c][u] = thread[c][u]
    BY <2>2
  <2>4. \E a \in {"look", "fill", "drain"} : \E p, h :
           Becomes(c, a, p, coord[c].ready, coord[c].tried, h) /\ (c = "fast" => a = coord[c].at)
    <3> DEFINE a == IF c # "fast" /\ coord[c].at = "fill" THEN "look" ELSE coord[c].at
               p == IF c = "fast" /\ thread[c][t].result = "accepted" THEN coord[c].passed \cup {t} ELSE coord[c].passed
               h == coord[c].halted \/ (c # "fast" /\ thread[c][t].result = "uncertain")
    <3>1. Becomes(c, a, p, coord[c].ready, coord[c].tried, h)
      BY <1>5, CollectBecomes
    <3>2. a \in {"look", "fill", "drain"} /\ (c = "fast" => a = coord[c].at)
      BY <2>1
    <3> HIDE DEF a, p, h
    <3> QED
      BY <3>1, <3>2
  <2>5. coord[c].ready \subseteq Tasks
    BY <1>0
  <2> QED
    BY <2>1, <2>3, <2>4, <2>5 DEF Within, Pool, Becomes, Is
<1>6. ASSUME Admit \/ WaitedTooLong
      PROVE  Within("protocol") /\ Pool("protocol")'
  <2>1. starts' = starts /\ target' = target /\ thread' = thread /\ coord["protocol"].at = "wait" /\ Pool("protocol")
    BY <1>0, <1>6 DEF Admit, WaitedTooLong
  <2>2. \A t \in Tasks : thread'["protocol"][t].at = "idle"
    BY <2>1 DEF Pool
  <2>3. \E a \in {"down", "look"}, p, r \in SUBSET Tasks : \E tr, h : Becomes("protocol", a, p, r, tr, h)
    <3>1. {} \in SUBSET Tasks /\ {t \in Tasks \ Qualified("protocol") : Retryable(t)} \in SUBSET Tasks
      OBVIOUS
    <3> QED
      <4>1. CASE Admit
        <5> DEFINE ready == {t \in Tasks \ Qualified("protocol") : Retryable(t)}
        <5>1. \/ Becomes("protocol", "down", {}, {}, {}, FALSE)
              \/ Becomes("protocol", "look", coord["protocol"].passed, ready, coord["protocol"].tried, coord["protocol"].halted)
          BY <4>1, AdmitBecomes
        <5>2. ready \in SUBSET Tasks /\ coord["protocol"].passed \in SUBSET Tasks
          BY <1>0 DEF Shaped, ACoord
        <5> HIDE DEF ready
        <5> QED
          BY <3>1, <5>1, <5>2
      <4>2. CASE WaitedTooLong
        <5>1. Becomes("protocol", "down", {}, {}, {}, FALSE)
          BY <1>0, <4>2, DownBecomes DEF WaitedTooLong
        <5> QED
          BY <3>1, <5>1
      <4> QED
        BY <1>6, <4>1, <4>2
  <2> QED
    BY <2>1, <2>2, <2>3 DEF Within, Pool, Becomes, Is
<1>7. ASSUME Poll
      PROVE  Within("thinking") /\ Pool("thinking")'
  <2>1. /\ starts' = starts /\ target' = target /\ thread' = thread /\ coord["thinking"].at = "fill"
        /\ Pool("thinking") /\ coord["thinking"].ready \subseteq Tasks
    BY <1>0, <1>7 DEF Poll
  <2> QED
    BY <1>7, <2>1, PollBecomes DEF Within, Pool, Becomes, Is
<1>8. ASSUME NEW c \in Cohorts, NEW t \in Tasks, Work(c, t)
      PROVE  Within(c) /\ Pool(c)'
  <2>1. PICK x \in AThread : Turned(c, t, x) /\ Moves(c, t, x)
    BY <1>8, WorkMoves DEF Shaped
  <2>2. thread[c][t].at # "idle"
    BY <2>1 DEF Moves
  <2>3. /\ \A d \in Cohorts \ {c}, u \in Tasks : thread'[d][u] = thread[d][u]
        /\ \A u \in Tasks : u # t => thread'[c][u] = thread[c][u]
    BY <2>1 DEF Turned
  <2>4. coord[c].at \notin {"down", "wait", "train"} /\ Pool(c) /\ coord[c].ready \subseteq Tasks
    BY <1>0, <2>2 DEF Pool
  <2>5. /\ starts' = starts /\ target' = target
        /\ \E h : Becomes(c, coord[c].at, coord[c].passed, coord[c].ready, coord[c].tried, h)
    BY <1>8, WorkBecomes
  <2> QED
    BY <2>2, <2>3, <2>4, <2>5 DEF Within, Pool, Becomes, Is
<1> QED
  BY <1>1, <1>2, <1>3, <1>4, <1>5, <1>6, <1>7, <1>8 DEF StepOf, Coordinate

\* The pools keep their order.
LEMMA PoolsStep ==
  ASSUME Shaped, Pools, [Next]_vars
  PROVE  Pools'
<1>1. CASE Beside
  BY <1>1 DEF Beside, Pools, Pool
<1>2. ASSUME NEW c \in Cohorts, StepOf(c)
      PROVE  Pools'
  BY <1>2, PoolStep, OnePool
<1> QED
  BY <1>1, <1>2, StepsOf

\* What a thread does to the agents and the export processes.
LEMMA WorkChildren ==
  ASSUME Shaped, NEW c \in Cohorts, NEW t \in Tasks, Work(c, t)
  PROVE  \/ /\ thread[c][t].at = "launch" /\ live' = live \cup {RunOf(c, t)} /\ exporting' = exporting
            /\ log' = log \cup {RunOf(c, t)}
         \/ /\ EvaluationPasses(c, t) /\ live' = live /\ log' = log
            /\ exporting' = [exporting EXCEPT ![c][t] = "open"]
         \/ live' = live /\ exporting' = exporting /\ log' = log
<1>1. CASE Launch(c, t)
  BY <1>1 DEF Launch
<1>2. CASE EvaluationPasses(c, t)
  BY <1>2 DEF EvaluationPasses, files
<1>3. CASE \/ StopHalted(c, t) \/ Reuse(c, t) \/ RefuseUnknown(c, t) \/ Pass(c, t) \/ RecordUnknown(c, t)
           \/ EvaluationFails(c, t) \/ RecordAccepted(c, t) \/ RecordRejected(c, t)
  BY <1>3 DEF StopHalted, Reuse, RefuseUnknown, Pass, RecordUnknown,
         EvaluationFails, RecordAccepted, RecordRejected, Reject, files, childs
<1> QED
  BY <1>1, <1>2, <1>3 DEF Work

\* A completed agent stays completed.
LEMMA BackingStays ==
  ASSUME Shaped, PaidInv, [Next]_vars, NEW u \in Tasks, Backed(u)
  PROVE  Backed(u)'
<1>1. PICK r \in Runs : TaskOf(r) = u /\ summary[r] = "completed" /\ r \in log /\ r \notin live
  BY DEF Backed
<1> SUFFICES summary'[r] = "completed" /\ r \in log' /\ r \notin live'
  BY <1>1 DEF Backed, TaskOf
<1>2. ASSUME NEW c \in Cohorts,
         \/ Start(c) \/ Crash(c) \/ Look(c) \/ Report(c) \/ Train(c) \/ Admit \/ WaitedTooLong \/ Poll
         \/ \E t \in Tasks : Submit(c, t) \/ Collect(c, t)
      PROVE  summary'[r] = "completed" /\ r \in log' /\ r \notin live'
  BY <1>1, <1>2, FilesOfOthers
<1>3. ASSUME NEW c \in Cohorts, NEW t \in Tasks, Work(c, t)
      PROVE  summary'[r] = "completed" /\ r \in log' /\ r \notin live'
  <2>1. thread[c][t].at = "launch" => RunOf(c, t) # r
    BY <1>1 DEF PaidInv
  <2> QED
    BY <1>1, <1>3, <2>1, WorkChildren, WorkBecomes
<1>4. ASSUME NEW s \in Runs, AgentEnds(s)
      PROVE  summary'[r] = "completed" /\ r \in log' /\ r \notin live'
  BY <1>1, <1>4 DEF AgentEnds, Shaped
<1>5. ASSUME NEW c \in Cohorts, NEW t \in Tasks, Export(c, t)
      PROVE  summary'[r] = "completed" /\ r \in log' /\ r \notin live'
  BY <1>1, <1>5, ExportWrites
<1>6. CASE UNCHANGED vars
  BY <1>1, <1>6 DEF vars, files, childs
<1>7. "protocol" \in Cohorts
  BY DEF Cohorts
<1> QED
  BY <1>2, <1>3, <1>4, <1>5, <1>6, <1>7 DEF Next, Coordinate

\* No export and no training set without completed agents.
LEMMA EvidenceStep ==
  ASSUME Shaped, PaidInv, Outcomes, Pools, Evidence, [Next]_vars
  PROVE  Evidence'
<1> DEFINE Exports == \A c \in Cohorts, t \in Tasks :
                        /\ exporting'[c][t] # "no" => Backed(t)'
                        /\ export'[c][t] = "good" => Backed(t)' \/ t \in Seeds
           Training == pipeline' # NoPipeline =>
                         /\ Cardinality(pipeline'.tasks) >= target'
                         /\ \A t \in pipeline'.tasks \ Seeds : Backed(t)'
<1>0. /\ \A t \in Tasks : Backed(t) => Backed(t)'
      /\ \A t : Backed(t) => t \in Tasks
  <2>1. \A t : Backed(t) => t \in Tasks
    BY DEF Backed, TaskOf, Runs
  <2> QED
    BY <2>1, BackingStays
<1>1. Exports
  <2>1. ASSUME exporting' = exporting, export' = export
        PROVE  Exports
    BY <1>0, <2>1 DEF Evidence
  <2>2. ASSUME NEW c \in Cohorts, NEW t \in Tasks, Export(c, t)
        PROVE  Exports
    <3>1. Backed(t)
      BY <2>2, ExportWrites DEF Evidence
    <3> QED
      BY <1>0, <2>2, <3>1, ExportWrites DEF Evidence
  <2>3. ASSUME NEW c \in Cohorts, NEW t \in Tasks, Work(c, t)
        PROVE  Exports
    <3>1. CASE exporting' = exporting
      BY <2>1, <2>3, <3>1, WorkBecomes
    <3>2. CASE EvaluationPasses(c, t) /\ exporting' = [exporting EXCEPT ![c][t] = "open"]
      <4>1. Backed(t)
        <5>1. RunOf(c, t) \in Runs /\ RunOf(c, t) \in log /\ TaskOf(RunOf(c, t)) = t
          BY <3>2, ThreadNames DEF EvaluationPasses, Waited, Outcomes, Shaped, RunOf, TaskOf
        <5> QED
          BY <3>2, <5>1 DEF EvaluationPasses, Waited, MayExport, Backed
      <4>2. \A d \in Cohorts, u \in Tasks : <<d, u>> # <<c, t>> => exporting'[d][u] = exporting[d][u]
        <5>1. exporting \in [Cohorts -> [Tasks -> {"no", "open", "write"}]]
          BY DEF Shaped
        <5> QED
          BY <3>2, <5>1, OneEntry
      <4>3. export' = export
        BY <2>3, WorkBecomes
      <4>4. Backed(t)'
        BY <1>0, <4>1
      <4> QED
        BY <1>0, <4>2, <4>3, <4>4 DEF Evidence
    <3> QED
      BY <2>3, <3>1, <3>2, WorkChildren
  <2>4. ASSUME NEW c \in Cohorts,
           \/ Start(c) \/ Crash(c) \/ Look(c) \/ Report(c) \/ Train(c) \/ Admit \/ WaitedTooLong \/ Poll
           \/ \E t \in Tasks : Submit(c, t) \/ Collect(c, t)
        PROVE  Exports
    BY <2>1, <2>4, FilesOfOthers
  <2>5. ASSUME UNCHANGED vars \/ \E r \in Runs : AgentEnds(r)
        PROVE  Exports
    BY <2>1, <2>5 DEF vars, files, childs, AgentEnds
  <2>6. "protocol" \in Cohorts
    BY DEF Cohorts
  <2> HIDE DEF Exports
  <2> QED
    BY <2>2, <2>3, <2>4, <2>5, <2>6 DEF Next, Coordinate
<1>2. Training
  <2>1. ASSUME pipeline' = pipeline, target' = target
        PROVE  Training
    <3>1. pipeline # NoPipeline => \A t \in pipeline.tasks \ Seeds : Backed(t) /\ t \in Tasks
      BY <1>0 DEF Evidence
    <3> QED
      BY <1>0, <2>1, <3>1 DEF Evidence
  <2>2. ASSUME NEW c \in Cohorts, Train(c)
        PROVE  Training
    <3>1. CASE pipeline' = pipeline
      BY <2>1, <2>2, <3>1 DEF Train
    <3>2. CASE /\ coord[c].passed \subseteq Qualified(c)
               /\ pipeline' = [by |-> c, tasks |-> coord[c].passed]
      <4>1. pipeline'.tasks = coord[c].passed /\ target' = target
        BY <2>2, <3>2 DEF Train
      <4>2. Cardinality(coord[c].passed) >= target
        BY <2>2 DEF Train, Pools, Pool
      <4>3. ASSUME NEW t \in coord[c].passed, t \notin Seeds
            PROVE  Backed(t)'
        <5>1. PICK s \in Cohorts : t \in Good(s)
          BY <3>2, <4>3 DEF Qualified, Sources, Cohorts
        <5> QED
          BY <1>0, <4>3, <5>1 DEF Good, Evidence
      <4> QED
        BY <4>1, <4>2, <4>3
    <3> QED
      BY <2>2, <3>1, <3>2 DEF Train
  <2>3. ASSUME NEW c \in Cohorts,
           \/ Start(c) \/ Crash(c) \/ Look(c) \/ Report(c) \/ Admit \/ WaitedTooLong \/ Poll
           \/ \E t \in Tasks : Submit(c, t) \/ Collect(c, t)
        PROVE  Training
    <3>1. pipeline' = pipeline /\ target' = target
      BY <2>3 DEF Start, Crash, Look, Report, Admit, WaitedTooLong, Poll, Submit, Collect, files
    <3> QED
      BY <2>1, <3>1
  <2>4. ASSUME NEW c \in Cohorts, NEW t \in Tasks, Work(c, t) \/ Export(c, t)
        PROVE  Training
    BY <2>1, <2>4, WorkBecomes, ExportWrites
  <2>5. ASSUME UNCHANGED vars \/ \E r \in Runs : AgentEnds(r)
        PROVE  Training
    BY <2>1, <2>5 DEF vars, files, AgentEnds
  <2>6. "protocol" \in Cohorts
    BY DEF Cohorts
  <2> HIDE DEF Training
  <2> QED
    BY <2>2, <2>3, <2>4, <2>5, <2>6 DEF Next, Coordinate
<1> QED
  BY <1>1, <1>2 DEF Evidence

\* A step of a cohort leaves the outcomes of the others alone.
LEMMA OutcomesWithin ==
  ASSUME Shaped, NEW c \in Cohorts, StepOf(c)
  PROVE  \A r \in Runs : r[1] # c => outcome'[r] = outcome[r]
<1>1. ASSUME NEW t \in Tasks, Work(c, t)
      PROVE  \A r \in Runs : r[1] # c => outcome'[r] = outcome[r]
  <2>1. PICK x \in AThread : Moves(c, t, x)
    BY <1>1, WorkMoves DEF Shaped
  <2>2. \A r \in Runs : r # RunOf(c, t) => outcome'[r] = outcome[r]
    BY <2>1 DEF Moves, Shaped, Typed
  <2>3. RunOf(c, t)[1] = c
    BY DEF RunOf
  <2> QED
    BY <2>2, <2>3
<1>2. ASSUME ~\E t \in Tasks : Work(c, t)
      PROVE  outcome' = outcome
  BY <1>2, FilesOfOthers DEF StepOf, Coordinate
<1> QED
  BY <1>1, <1>2

\* Who has started a collector a second time, or is down and knows, stays so.
LEMMA GoneStays ==
  ASSUME Shaped, Pools, NEW c \in Cohorts, StepOf(c), Gone(c)
  PROVE  Gone(c)'
<1>1. starts \in [Cohorts -> Nat] /\ Pool(c)
  BY DEF Shaped, Pools
<1>2. CASE Start(c)
  <2>1. starts'[c] = starts[c] + 1
    BY <1>1, <1>2 DEF Start
  <2> QED
    BY <1>1, <2>1 DEF Gone
<1>3. CASE ~Start(c)
  <2>1. starts' = starts
    <3>1. CASE \E t \in Tasks : Work(c, t)
      BY <3>1, WorkBecomes
    <3>2. CASE ~\E t \in Tasks : Work(c, t)
      BY <1>3, <3>2, FilesOfOthers DEF StepOf, Coordinate
    <3> QED
      BY <3>1, <3>2
  <2>2. coord[c].at # "down"
    <3>1. ASSUME NEW t \in Tasks, Work(c, t)
          PROVE  coord[c].at # "down"
      <4>1. PICK x \in AThread : Moves(c, t, x)
        BY <3>1, WorkMoves DEF Shaped
      <4> QED
        BY <1>1, <4>1 DEF Moves, Pool
    <3>2. CASE Crash(c) \/ Coordinate(c) \/ (c = "protocol" /\ (Admit \/ WaitedTooLong)) \/ (c = "thinking" /\ Poll)
      BY <3>2 DEF Crash, Coordinate, Look, Report, Train, Submit, Collect, Admit, WaitedTooLong, Poll, CanSubmit
    <3> QED
      BY <1>3, <3>1, <3>2 DEF StepOf
  <2> QED
    BY <1>1, <2>1, <2>2 DEF Gone
<1> QED
  BY <1>2, <1>3

\* A cohort does not forget an unknown outcome within one start.
LEMMA KnownStays ==
  ASSUME Shaped, Pools, NEW c \in Cohorts, c # "fast", Known(c), StepOf(c)
  PROVE  Known(c)'
<1> DEFINE Told == \E u \in Tasks : thread[c][u].at = "done" /\ thread[c][u].result = "uncertain"
<1>0. starts \in [Cohorts -> Nat] /\ Pool(c) /\ thread \in [Cohorts -> [Tasks -> AThread]]
  BY DEF Shaped, Pools, Typed
<1>1. CASE Start(c)
  <2>1. starts'[c] = starts[c] + 1 /\ coord[c].at = "down" /\ outcome' = outcome
    BY <1>0, <1>1 DEF Start, files
  <2>2. Uncertain(c)' = Uncertain(c)
    BY <2>1 DEF Uncertain
  <2>3. starts[c] # 0 => starts'[c] # 0 /\ starts'[c] # 1
    BY <1>0, <2>1
  <2>4. starts'[c] # 0
    BY <1>0, <2>1
  <2> QED
    BY <2>2, <2>3, <2>4 DEF Known
<1>2. ASSUME Crash(c) \/ Coordinate(c) \/ (c = "protocol" /\ (Admit \/ WaitedTooLong)) \/ (c = "thinking" /\ Poll)
      PROVE  Known(c)'
  <2>1. starts' = starts /\ outcome' = outcome
    BY <1>2 DEF Crash, Coordinate, Look, Report, Train, Submit, Collect, Admit, WaitedTooLong, Poll, files
  <2>2. Uncertain(c)' = Uncertain(c)
    BY <2>1 DEF Uncertain
  <2>3. CASE Becomes(c, "down", {}, {}, {}, FALSE)
    BY <2>1, <2>2, <2>3 DEF Known, Becomes, Is
  <2>4. ASSUME thread' = thread, coord[c].at # "down",
               \E a, p, r, tr : Becomes(c, a, p, r, tr, coord[c].halted)
        PROVE  Known(c)'
    BY <2>1, <2>2, <2>4 DEF Known, Becomes, Is
  <2>5. CASE Crash(c) \/ Train(c)
    BY <2>3, <2>5, DownBecomes DEF Crash, Train
  <2>6. CASE Look(c)
    <3>1. thread' = thread /\ coord[c].at # "down"
      BY <2>6 DEF Look
    <3>2. \E a, p, r, tr : Becomes(c, a, p, r, tr, coord[c].halted)
      BY <2>6, LookBecomes
    <3> QED
      BY <2>4, <3>1, <3>2
  <2>7. CASE Report(c)
    <3>1. thread' = thread /\ coord[c].at # "down"
      BY <2>7 DEF Report
    <3> QED
      <4>1. CASE Becomes(c, "train", Qualified(c), {}, {}, FALSE) /\ ~coord[c].halted
        <5>1. coord[c].halted = FALSE
          BY <4>1 DEF Shaped, ACoord
        <5> QED
          BY <2>4, <3>1, <4>1, <5>1
      <4> QED
        BY <2>3, <2>7, <4>1, ReportBecomes
  <2>8. ASSUME NEW t \in Tasks, Submit(c, t)
        PROVE  Known(c)'
    <3>1. /\ coord[c].at = "fill" /\ t \in coord[c].ready /\ coord'[c].halted = coord[c].halted
      BY <2>8, SubmitBecomes DEF Submit, CanSubmit, Becomes, Is
    <3>2. thread[c][t].at = "idle"
      BY <1>0, <3>1 DEF Pool
    <3> DEFINE x == [Idle EXCEPT !.at = "check"]
    <3>3. x \in AThread /\ thread' = [thread EXCEPT ![c][t] = x]
      BY <2>8, IdleTyped DEF Submit
    <3> HIDE DEF x
    <3>4. \A u \in Tasks : u # t => thread'[c][u] = thread[c][u]
      BY <1>0, <3>3
    <3> QED
      BY <2>1, <2>2, <3>1, <3>2, <3>4 DEF Known
  <2>9. ASSUME NEW t \in Tasks, Collect(c, t)
        PROVE  Known(c)'
    <3>1. /\ coord[c].at # "down" /\ coord[c].halted \in BOOLEAN /\ coord'[c].halted \in BOOLEAN
          /\ coord[c].halted \/ thread[c][t].result = "uncertain" => coord'[c].halted
      BY <2>9, CollectBecomes DEF Collect, Becomes, Is, Shaped, ACoord
    <3>2. thread' = [thread EXCEPT ![c][t] = Idle]
      BY <2>9 DEF Collect
    <3>3. \A u \in Tasks : u # t => thread'[c][u] = thread[c][u]
      BY <1>0, <3>2
    <3> QED
      BY <2>1, <2>2, <3>1, <3>3 DEF Known
  <2>10. CASE c = "protocol" /\ (Admit \/ WaitedTooLong)
    <3>1. thread' = thread /\ coord[c].at # "down"
      BY <2>10 DEF Admit, WaitedTooLong
    <3>2. Becomes(c, "down", {}, {}, {}, FALSE) \/ \E a, p, r, tr : Becomes(c, a, p, r, tr, coord[c].halted)
      BY <2>10, AdmitBecomes, DownBecomes DEF WaitedTooLong
    <3> QED
      BY <2>3, <2>4, <3>1, <3>2
  <2>11. CASE c = "thinking" /\ Poll
    BY <2>4, <2>11, PollBecomes DEF Poll
  <2> QED
    BY <1>2, <2>5, <2>6, <2>7, <2>8, <2>9, <2>10, <2>11 DEF Coordinate
<1>3. ASSUME NEW t \in Tasks, Work(c, t)
      PROVE  Known(c)'
  <2>1. PICK x \in AThread : Turned(c, t, x) /\ Moves(c, t, x)
    BY <1>3, WorkMoves DEF Shaped
  <2>2. /\ starts' = starts /\ coord'[c].at = coord[c].at /\ (coord[c].halted => coord'[c].halted)
    BY <1>3, WorkBecomes DEF Becomes, Is
  <2>3. thread[c][t].at # "done" /\ thread[c][t].at # "idle" /\ thread'[c][t] = x
        /\ \A u \in Tasks : u # t => thread'[c][u] = thread[c][u]
    BY <2>1 DEF Moves, Turned
  <2>4. Told => Told'
    BY <2>3
  <2>5. Uncertain(c)' => Uncertain(c) \/ Told'
    <3>1. \/ outcome' = outcome
          \/ \E o \in {"accepted", "rejected", "uncertain"} :
               outcome' = [outcome EXCEPT ![RunOf(c, t)] = o] /\ (o = "uncertain" => x.at = "done" /\ x.result = o)
      BY <2>1 DEF Moves
    <3>2. CASE outcome' = outcome
      BY <3>2 DEF Uncertain
    <3>3. ASSUME NEW o \in {"accepted", "rejected", "uncertain"},
                 outcome' = [outcome EXCEPT ![RunOf(c, t)] = o], o = "uncertain" => x.at = "done" /\ x.result = o
          PROVE  Uncertain(c)' => Uncertain(c) \/ Told'
      <4>1. \A r \in Runs : outcome'[r] = "uncertain" => outcome[r] = "uncertain" \/ o = "uncertain"
        BY <3>3 DEF Shaped, Typed
      <4>2. o = "uncertain" => Told'
        BY <2>3, <3>3
      <4> QED
        BY <4>1, <4>2 DEF Uncertain
    <3> QED
      BY <3>1, <3>2, <3>3
  <2>6. coord[c].at # "down" /\ starts[c] # 0
    BY <1>0, <2>3 DEF Pool
  <2> HIDE DEF Told
  <2>7. starts[c] = 1 /\ Uncertain(c) => coord[c].halted \/ Told
    BY <2>6 DEF Known, Told
  <2> QED
    BY <2>2, <2>4, <2>5, <2>6, <2>7 DEF Known, Told
<1> QED
  BY <1>1, <1>2, <1>3 DEF StepOf

\* No cohort forgets what it does not know, nor trains before.
LEMMA KnowledgeStep ==
  ASSUME Shaped, Pools, Knowledge, [Next]_vars
  PROVE  Knowledge'
<1>1. CASE Beside
  BY <1>1 DEF Beside, Knowledge, Known, Gone, Uncertain
<1>2. ASSUME NEW c \in Cohorts, StepOf(c)
      PROVE  Knowledge'
  <2>1. \A d \in Cohorts : d # c => Uncertain(d)' = Uncertain(d)
    BY <1>2, OutcomesWithin DEF Uncertain
  <2>2. Within(c)
    BY <1>2, PoolStep
  <2>3. \A d \in Cohorts \ {"fast"} : Known(d)'
    <3>1. ASSUME NEW d \in Cohorts, d # "fast", d # c
          PROVE  Known(d)'
      BY <2>1, <2>2, <3>1 DEF Within, Knowledge, Known
    <3> QED
      BY <1>2, <3>1, KnownStays DEF Knowledge
  <2>4. \A d \in Cohorts : Gone(d) => Gone(d)'
    <3>1. ASSUME NEW d \in Cohorts, d # c, Gone(d)
          PROVE  Gone(d)'
      BY <2>1, <2>2, <3>1 DEF Within, Gone
    <3> QED
      BY <1>2, <3>1, GoneStays
  <2>5. pipeline' # NoPipeline => pipeline'.by \in Cohorts \ {"fast"} /\ \E d \in Cohorts : d = pipeline'.by /\ Gone(d)'
    <3>1. CASE pipeline' = pipeline
      BY <2>4, <3>1 DEF Knowledge
    <3>2. CASE Train(c) /\ pipeline' = [by |-> c, tasks |-> coord[c].passed]
      <4>1. c # "fast" /\ ~coord[c].halted /\ starts[c] # 0 /\ \A t \in Tasks : thread[c][t].at = "idle"
        BY <3>2 DEF Train, Pools, Pool
      <4>2. starts[c] = 1 => ~Uncertain(c)
        BY <3>2, <4>1 DEF Train, Knowledge, Known
      <4>3. starts' = starts /\ coord'[c].at = "down" /\ Uncertain(c)' = Uncertain(c)
        BY <3>2, DownBecomes DEF Train, Becomes, Is, Uncertain
      <4>4. Gone(c)'
        BY <4>1, <4>2, <4>3 DEF Gone
      <4> QED
        BY <3>2, <4>1, <4>4
    <3>3. CASE ~Train(c)
      <4>1. pipeline' = pipeline
        BY <1>2, <3>3, FilesOfOthers, WorkBecomes DEF StepOf, Coordinate
      <4> QED
        BY <3>1, <4>1
    <3> QED
      BY <3>1, <3>2, <3>3 DEF Train
  <2>6. pipeline' # NoPipeline => Gone(pipeline.by)'
    BY <2>5 DEF Gone, Uncertain
  <2> QED
    BY <2>3, <2>5, <2>6 DEF Knowledge
<1> QED
  BY <1>1, <1>2, StepsOf

\* What the coordinator of the fast campaign counts.
LEMMA Counts ==
  ASSUME Shaped
  PROVE  /\ IsFiniteSet(coord["fast"].passed) /\ IsFiniteSet(Running("fast")) /\ IsFiniteSet(Accepted)
         /\ Cardinality(coord["fast"].passed) \in Nat /\ Cardinality(Running("fast")) \in Nat
         /\ Cardinality(Accepted) \in Nat
         /\ Cardinality(coord["fast"].passed \cup Running("fast"))
              <= Cardinality(coord["fast"].passed) + Cardinality(Running("fast"))
         /\ Accepted \subseteq coord["fast"].passed \cup Running("fast") =>
              Cardinality(Accepted) <= Cardinality(coord["fast"].passed) + Cardinality(Running("fast"))
<1>1. coord["fast"].passed \subseteq Tasks /\ Running("fast") \subseteq Tasks /\ Accepted \subseteq Tasks
  BY CampaignAssumption DEF Shaped, ACoord, Running, Accepted, Cohorts
<1>2. IsFiniteSet(coord["fast"].passed) /\ IsFiniteSet(Running("fast")) /\ IsFiniteSet(Accepted)
  BY <1>1, FS_Subset, CampaignAssumption
<1>3. /\ Cardinality(coord["fast"].passed) \in Nat /\ Cardinality(Running("fast")) \in Nat
      /\ Cardinality(Accepted) \in Nat /\ Cardinality(coord["fast"].passed \cap Running("fast")) \in Nat
  <2>1. IsFiniteSet(coord["fast"].passed \cap Running("fast"))
    BY <1>2, FS_Subset
  <2> QED
    BY <1>2, <2>1, FS_CardinalityType
<1>4. /\ IsFiniteSet(coord["fast"].passed \cup Running("fast"))
      /\ Cardinality(coord["fast"].passed \cup Running("fast"))
           = Cardinality(coord["fast"].passed) + Cardinality(Running("fast"))
               - Cardinality(coord["fast"].passed \cap Running("fast"))
  BY <1>2, FS_Union
<1>5. Cardinality(coord["fast"].passed \cup Running("fast"))
        <= Cardinality(coord["fast"].passed) + Cardinality(Running("fast"))
  BY <1>3, <1>4
<1>6. /\ Accepted \subseteq coord["fast"].passed \cup Running("fast") =>
         Cardinality(Accepted) <= Cardinality(coord["fast"].passed \cup Running("fast"))
      /\ Cardinality(coord["fast"].passed \cup Running("fast")) \in Nat
  BY <1>4, FS_Subset, FS_CardinalityType
<1> QED
  BY <1>2, <1>3, <1>5, <1>6

\* The smaller of two numbers is no larger than either.
LEMMA MinOfTwo ==
  ASSUME NEW a \in Int, NEW b \in Int
  PROVE  Min({a, b}) <= a /\ Min({a, b}) <= b /\ Min({a, b}) \in Int
<1>1. \E x \in {a, b} : \A y \in {a, b} : x <= y
  OBVIOUS
<1>2. Min({a, b}) \in {a, b} /\ \A y \in {a, b} : Min({a, b}) <= y
  BY <1>1 DEF Min
<1> QED
  BY <1>2

\* A submission leaves room for what passed and what runs.
LEMMA SubmissionFits ==
  ASSUME Shaped, NEW t \in Tasks, Submit("fast", t)
  PROVE  Cardinality(Running("fast")) + 1 <= target - Cardinality(coord["fast"].passed)
<1>1. Cardinality(Running("fast")) < Min({Workers["fast"], target - Cardinality(coord["fast"].passed)})
  BY DEF Submit, CanSubmit, Slots
<1>2. Workers["fast"] \in Int /\ target \in Int
  BY CampaignAssumption DEF Cohorts, Shaped
<1>3. Cardinality(coord["fast"].passed) \in Nat /\ Cardinality(Running("fast")) \in Nat
  BY Counts
<1> DEFINE room == target - Cardinality(coord["fast"].passed)
<1>4. room \in Int
  BY <1>2, <1>3
<1>5. Min({Workers["fast"], room}) <= room /\ Min({Workers["fast"], room}) \in Int
  <2> HIDE DEF room
  <2> QED
    BY <1>2, <1>4, MinOfTwo
<1>6. Cardinality(Running("fast")) < Min({Workers["fast"], room})
  BY <1>1
<1> HIDE DEF room
<1>7. Cardinality(Running("fast")) + 1 <= room
  BY <1>3, <1>4, <1>5, <1>6
<1> QED
  BY <1>7 DEF room

\* What a step of the fast campaign does to the accepted tasks.
LEMMA AcceptedWithin ==
  ASSUME Shaped, outcome' = outcome
  PROVE  Accepted' = Accepted /\ \A t \in Tasks : AcceptedOf(t)' = AcceptedOf(t)
BY DEF Accepted, AcceptedOf, TaskOf

\* A thread of the fast campaign may accept its own task.
LEMMA WorkAccepts ==
  ASSUME Shaped, NEW t \in Tasks, NEW x \in AThread, Turned("fast", t, x), Moves("fast", t, x)
  PROVE  /\ \A u \in Tasks : u # t => AcceptedOf(u)' = AcceptedOf(u)
         /\ AcceptedOf(t)' => AcceptedOf(t) \/ (x.at = "done" /\ x.result = "accepted")
         /\ thread["fast"][t].at \in {"check", "launch", "wait", "export"} /\ x.at # "idle"
<1>1. RunOf("fast", t) \in Runs /\ TaskOf(RunOf("fast", t)) = t /\ thread["fast"][t] \in AThread
  BY ThreadNames DEF RunOf, TaskOf, Shaped, Cohorts
<1>2. thread["fast"][t].at \in {"check", "launch", "wait", "export"} /\ x.at # "idle"
  <2>1. \A a \in Threads : [thread["fast"][t] EXCEPT !.at = a].at = a
    BY <1>1 DEF AThread
  <2> QED
    BY <2>1 DEF Moves, Threads
<1>3. \/ outcome' = outcome
      \/ \E o \in {"accepted", "rejected", "uncertain"} :
           outcome' = [outcome EXCEPT ![RunOf("fast", t)] = o]
           /\ (o = "accepted" => x.at = "done" /\ x.result = "accepted")
  BY DEF Moves
<1>4. ASSUME NEW o \in {"accepted", "rejected", "uncertain"},
             outcome' = [outcome EXCEPT ![RunOf("fast", t)] = o]
      PROVE  /\ \A r \in Runs : TaskOf(r) # t => outcome'[r] = outcome[r]
             /\ \A r \in Runs : outcome'[r] = "accepted" => outcome[r] = "accepted" \/ o = "accepted"
             /\ \A r \in Runs : r # RunOf("fast", t) => outcome'[r] = outcome[r]
  BY <1>1, <1>4 DEF Shaped, Typed
<1>5. \A u \in Tasks : u # t => AcceptedOf(u)' = AcceptedOf(u)
  BY <1>3, <1>4 DEF AcceptedOf, TaskOf
<1>6. AcceptedOf(t)' => AcceptedOf(t) \/ (x.at = "done" /\ x.result = "accepted")
  BY <1>3, <1>4 DEF AcceptedOf, TaskOf
<1> QED
  BY <1>2, <1>5, <1>6

\* The fast campaign is touched by its own steps alone.
LEMMA CapacityElsewhere ==
  ASSUME Shaped, Capacity, starts'["fast"] = starts["fast"], target' = target,
         coord'["fast"] = coord["fast"],
         \A t \in Tasks : /\ thread'["fast"][t] = thread["fast"][t]
                          /\ exporting'["fast"][t] = exporting["fast"][t] \/ starts["fast"] # 0
                          /\ export'["fast"][t] = export["fast"][t] \/ starts["fast"] # 0,
         \A r \in Runs : r[1] = "fast" => outcome'[r] = outcome[r]
  PROVE  Capacity'
<1>1. /\ Accepted' = Accepted /\ \A t \in Tasks : AcceptedOf(t)' = AcceptedOf(t)
  BY DEF Accepted, AcceptedOf, TaskOf
<1>2. Running("fast")' = Running("fast")
  BY DEF Running
<1>3. starts["fast"] = 0 => Good("fast")' = Good("fast")
  BY DEF Good
<1>4. starts'["fast"] = 0 => Untouched'
  BY <1>1, <1>3 DEF Capacity, Untouched
<1>5. WithinTarget => WithinTarget'
  <2>1. Unaccepted => Unaccepted'
    BY <1>1 DEF Unaccepted
  <2> QED
    BY <1>1, <1>2, <2>1 DEF WithinTarget
<1> QED
  BY <1>1, <1>4, <1>5 DEF Capacity

\* The fast campaign does not exceed its target in its first start.
LEMMA CapacityOfFast ==
  ASSUME Shaped, Pools, Capacity, StepOf("fast")
  PROVE  Capacity'
<1> DEFINE k == coord["fast"]
           Fits == starts["fast"] = 1 /\ Cardinality(Seeds) <= target
<1>0. /\ "fast" \in Cohorts /\ Pool("fast") /\ starts \in [Cohorts -> Nat]
      /\ thread \in [Cohorts -> [Tasks -> AThread]] /\ k.ready \subseteq Tasks /\ k.passed \subseteq Tasks
  BY DEF Cohorts, Pools, Shaped, Typed, ACoord
<1>1. CASE Start("fast")
  <2>1. /\ starts'["fast"] = starts["fast"] + 1 /\ k.at = "down" /\ target' = target /\ outcome' = outcome
        /\ thread' = thread /\ Becomes("fast", "fill", Good("fast"), Tasks \ Good("fast"), {}, FALSE)
    BY <1>0, <1>1, StartBecomes DEF Start, files
  <2>2. Accepted' = Accepted /\ \A t \in Tasks : AcceptedOf(t)' = AcceptedOf(t)
    BY <2>1, AcceptedWithin
  <2>3. \A t \in Tasks : thread["fast"][t].at = "idle"
    BY <1>0, <2>1 DEF Pool
  <2>4. ASSUME starts["fast"] = 0, Cardinality(Seeds) <= target
        PROVE  Cardinality(Accepted)' <= target /\ WithinTarget'
    <3>1. Untouched /\ Good("fast") = Seeds /\ Accepted = Seeds /\ \A t \in Tasks : ~AcceptedOf(t)
      BY <2>4 DEF Capacity, Untouched, Accepted
    <3>2. Running("fast")' = {} /\ coord'["fast"].passed = Seeds
      BY <2>1, <2>3, <3>1 DEF Running, Becomes, Is
    <3>3. Cardinality(Running("fast")') = 0 /\ Cardinality(Seeds) \in Nat
      BY <3>2, FS_EmptySet, FS_Subset, FS_CardinalityType, CampaignAssumption
    <3>4. Unaccepted'
      BY <2>2, <3>1 DEF Unaccepted
    <3>5. Cardinality(coord'["fast"].passed) + Cardinality(Running("fast")') <= target'
      <4>1. target \in Nat
        BY DEF Shaped
      <4> QED
        BY <2>1, <2>4, <3>2, <3>3, <4>1
    <3> QED
      BY <2>1, <2>2, <2>4, <3>1, <3>2, <3>4, <3>5 DEF WithinTarget
  <2>5. starts["fast"] \in Nat
    BY <1>0
  <2> QED
    BY <2>1, <2>4, <2>5 DEF Capacity
<1>2. ASSUME NEW t \in Tasks, Submit("fast", t)
      PROVE  Capacity'
  <2>1. /\ starts' = starts /\ target' = target /\ outcome' = outcome /\ k.at = "fill" /\ t \in k.ready
        /\ Becomes("fast", k.at, k.passed, k.ready \ {t}, k.tried \cup {t}, k.halted)
    BY <1>0, <1>2, SubmitBecomes DEF Submit, CanSubmit, files
  <2>2. Accepted' = Accepted /\ \A u \in Tasks : AcceptedOf(u)' = AcceptedOf(u)
    BY <2>1, AcceptedWithin
  <2>3. thread'["fast"][t].at = "check" /\ \A u \in Tasks : u # t => thread'["fast"][u] = thread["fast"][u]
    <3> DEFINE x == [Idle EXCEPT !.at = "check"]
    <3>1. x.at = "check" /\ thread' = [thread EXCEPT !["fast"][t] = x]
      BY <1>2 DEF Submit, Idle
    <3> HIDE DEF x
    <3> QED
      BY <1>0, <3>1
  <2>4. starts["fast"] # 0
    BY <1>0, <2>1 DEF Pool
  <2>5. ASSUME Fits
        PROVE  WithinTarget'
    <3>1. WithinTarget
      BY <2>1, <2>5 DEF Capacity
    <3>2. thread["fast"][t].at = "idle"
      BY <1>0, <2>1 DEF Pool
    <3>3. Running("fast")' = Running("fast") \cup {t} /\ t \notin Running("fast")
      BY <2>3, <3>2 DEF Running
    <3>4. Cardinality(Running("fast")') = Cardinality(Running("fast")) + 1
      BY <3>3, Counts, FS_AddElement
    <3>5. coord'["fast"].passed = k.passed
      BY <2>1 DEF Becomes, Is
    <3>6. Cardinality(coord'["fast"].passed) + Cardinality(Running("fast")') <= target'
      <4>1. Cardinality(Running("fast")) + 1 <= target - Cardinality(k.passed)
        BY <1>2, SubmissionFits
      <4>2. Cardinality(Running("fast")) \in Nat /\ Cardinality(k.passed) \in Nat /\ target \in Nat
        BY Counts DEF Shaped
      <4> QED
        BY <2>1, <3>4, <3>5, <4>1, <4>2
    <3>7. Unaccepted'
      BY <2>1, <2>2, <2>3, <3>1 DEF Unaccepted, WithinTarget, Becomes, Is
    <3> QED
      BY <2>2, <3>1, <3>3, <3>5, <3>6, <3>7 DEF WithinTarget
  <2> QED
    BY <2>1, <2>2, <2>4, <2>5 DEF Capacity
<1>3. ASSUME NEW t \in Tasks, Collect("fast", t)
      PROVE  Capacity'
  <2> DEFINE p == IF thread["fast"][t].result = "accepted" THEN k.passed \cup {t} ELSE k.passed
  <2>1. /\ starts' = starts /\ target' = target /\ outcome' = outcome /\ k.at = "fill"
        /\ thread["fast"][t].at = "done"
        /\ coord'["fast"].at = k.at /\ coord'["fast"].passed = p /\ coord'["fast"].ready = k.ready
    <3>1. /\ starts' = starts /\ target' = target /\ outcome' = outcome /\ k.at = "fill"
          /\ thread["fast"][t].at = "done"
      BY <1>0, <1>3 DEF Collect, Pool, files
    <3>2. coord'["fast"].at = k.at /\ coord'["fast"].passed = p /\ coord'["fast"].ready = k.ready
      BY <1>0, <1>3, CollectBecomes, ZenonT(60) DEF Becomes, Is
    <3> QED
      BY <3>1, <3>2
  <2>2. Accepted' = Accepted /\ \A u \in Tasks : AcceptedOf(u)' = AcceptedOf(u)
    BY <2>1, AcceptedWithin
  <2>3. thread'["fast"][t].at = "idle" /\ \A u \in Tasks : u # t => thread'["fast"][u] = thread["fast"][u]
    <3>1. thread' = [thread EXCEPT !["fast"][t] = Idle] /\ Idle.at = "idle"
      BY <1>3 DEF Collect, Idle
    <3> QED
      BY <1>0, <3>1
  <2>4. starts["fast"] # 0
    BY <1>0, <2>1 DEF Pool
  <2>5. ASSUME Fits
        PROVE  WithinTarget'
    <3>1. WithinTarget
      BY <2>1, <2>5 DEF Capacity
    <3>2. Running("fast")' = Running("fast") \ {t} /\ t \in Running("fast")
      BY <2>1, <2>3 DEF Running
    <3>3. Cardinality(Running("fast")') = Cardinality(Running("fast")) - 1
      BY <3>2, Counts, FS_RemoveElement
    <3>4. Cardinality(p) <= Cardinality(k.passed) + 1 /\ Cardinality(p) \in Nat
      <4>1. IsFiniteSet(k.passed) /\ Cardinality(k.passed) \in Nat
        BY Counts
      <4>2. /\ Cardinality(k.passed \cup {t}) = IF t \in k.passed THEN Cardinality(k.passed) ELSE Cardinality(k.passed) + 1
        BY <4>1, FS_AddElement
      <4>3. Cardinality(k.passed \cup {t}) <= Cardinality(k.passed) + 1 /\ Cardinality(k.passed \cup {t}) \in Nat
        BY <4>1, <4>2
      <4> QED
        BY <4>1, <4>3
    <3>5. Cardinality(coord'["fast"].passed) + Cardinality(Running("fast")') <= target'
      <4>1. Cardinality(Running("fast")) \in Nat /\ Cardinality(k.passed) \in Nat /\ target \in Nat
        BY Counts DEF Shaped
      <4>2. Cardinality(k.passed) + Cardinality(Running("fast")) <= target
        BY <3>1 DEF WithinTarget
      <4>3. coord'["fast"].passed = p
        BY <2>1
      <4> HIDE DEF p
      <4> QED
        BY <2>1, <3>3, <3>4, <4>1, <4>2, <4>3
    <3>6. Accepted \subseteq p \cup (Running("fast") \ {t})
      <4>1. t \in Accepted => t \in p
        <5>1. thread["fast"][t].result # "accepted" => ~AcceptedOf(t)
          BY <2>1, <3>1 DEF WithinTarget, Unaccepted
        <5> QED
          BY <3>1, <5>1 DEF Accepted, WithinTarget
      <4> QED
        BY <3>1, <4>1 DEF WithinTarget
    <3>7. Unaccepted'
      BY <2>1, <2>2, <2>3, <3>1 DEF Unaccepted, WithinTarget
    <3> QED
      BY <2>1, <2>2, <3>1, <3>2, <3>5, <3>6, <3>7 DEF WithinTarget
  <2> QED
    BY <2>1, <2>2, <2>4, <2>5 DEF Capacity
<1>4. ASSUME Crash("fast") \/ Report("fast") \/ Look("fast") \/ Train("fast")
      PROVE  Capacity'
  <2>1. k.at # "down" /\ k.at # "look" /\ k.at # "train"
    BY <1>0, <1>4 DEF Crash, Report, Look, Train, Pool
  <2>2. /\ starts' = starts /\ target' = target /\ outcome' = outcome /\ coord'["fast"].at = "down"
    BY <1>0, <1>4, <2>1, DownBecomes DEF Crash, Report, Look, Train, files, Becomes, Is
  <2>3. Accepted' = Accepted
    BY <2>2, AcceptedWithin
  <2>4. starts["fast"] # 0
    BY <1>0, <2>1 DEF Pool
  <2> QED
    BY <2>2, <2>3, <2>4 DEF Capacity
<1>5. ASSUME NEW t \in Tasks, Work("fast", t)
      PROVE  Capacity'
  <2>1. PICK x \in AThread : Turned("fast", t, x) /\ Moves("fast", t, x)
    BY <1>0, <1>5, WorkMoves DEF Shaped
  <2>2. /\ \A u \in Tasks : u # t => AcceptedOf(u)' = AcceptedOf(u)
        /\ AcceptedOf(t)' => AcceptedOf(t) \/ (x.at = "done" /\ x.result = "accepted")
        /\ thread["fast"][t].at \in {"check", "launch", "wait", "export"} /\ x.at # "idle"
    BY <2>1, WorkAccepts
  <2>3. thread'["fast"][t] = x /\ \A u \in Tasks : u # t => thread'["fast"][u] = thread["fast"][u]
    BY <1>0, <2>1 DEF Turned
  <2>4. /\ starts' = starts /\ target' = target
        /\ coord'["fast"].at = k.at /\ coord'["fast"].passed = k.passed /\ coord'["fast"].ready = k.ready
    BY <1>0, <1>5, WorkBecomes DEF Becomes, Is
  <2>5. starts["fast"] # 0 /\ k.at = "fill"
    BY <1>0, <2>2 DEF Pool
  <2>6. ASSUME Fits
        PROVE  WithinTarget' /\ Cardinality(Accepted') <= target'
    <3>1. WithinTarget
      BY <2>5, <2>6 DEF Capacity
    <3>2. Running("fast")' = Running("fast") /\ t \in Running("fast")
      BY <2>2, <2>3 DEF Running
    <3>3. Accepted' \subseteq coord'["fast"].passed \cup Running("fast")'
      BY <2>2, <2>4, <3>1, <3>2 DEF WithinTarget, Accepted
    <3>4. Unaccepted'
      <4>1. ~AcceptedOf(t) /\ t \notin k.ready
        <5>1. t \notin k.ready
          BY <1>0, <2>2 DEF Pool
        <5> QED
          BY <2>2, <3>1, <5>1 DEF WithinTarget, Unaccepted
      <4>2. AcceptedOf(t)' => x.at = "done" /\ x.result = "accepted"
        BY <2>2, <4>1
      <4>3. ASSUME NEW u \in Tasks
            PROVE  \/ u \in coord'["fast"].ready
                   \/ thread'["fast"][u].at \in {"check", "launch", "wait", "export"}
                   \/ thread'["fast"][u].at = "done" /\ thread'["fast"][u].result # "accepted"
                   => ~AcceptedOf(u)'
        <5>1. CASE u = t
          BY <2>3, <2>4, <4>1, <4>2, <5>1
        <5>2. CASE u # t
          BY <2>2, <2>3, <2>4, <3>1, <5>2 DEF WithinTarget, Unaccepted
        <5> QED
          BY <5>1, <5>2
      <4> QED
        BY <4>3 DEF Unaccepted
    <3>5. WithinTarget'
      BY <2>4, <3>1, <3>2, <3>3, <3>4 DEF WithinTarget
    <3>6. Cardinality(Accepted') <= target'
      <4>1. Accepted' \subseteq k.passed \cup Running("fast")
        BY <2>4, <3>2, <3>3
      <4>2. IsFiniteSet(k.passed \cup Running("fast")) /\ Cardinality(k.passed \cup Running("fast")) \in Nat
        <5>1. k.passed \cup Running("fast") \subseteq Tasks
          BY <1>0 DEF Running
        <5> QED
          BY <5>1, FS_Subset, FS_CardinalityType, CampaignAssumption
      <4>3. Cardinality(Accepted') <= Cardinality(k.passed \cup Running("fast")) /\ Cardinality(Accepted') \in Nat
        BY <4>1, <4>2, FS_Subset, FS_CardinalityType
      <4>4. Cardinality(k.passed \cup Running("fast")) <= Cardinality(k.passed) + Cardinality(Running("fast"))
        BY Counts
      <4>5. Cardinality(k.passed) + Cardinality(Running("fast")) <= target /\ target \in Nat
            /\ Cardinality(k.passed) \in Nat /\ Cardinality(Running("fast")) \in Nat
        BY <3>1, Counts DEF WithinTarget, Shaped
      <4> QED
        BY <2>4, <4>2, <4>3, <4>4, <4>5
    <3> QED
      BY <3>5, <3>6
  <2> QED
    BY <2>4, <2>5, <2>6 DEF Capacity
<1> QED
  BY <1>1, <1>2, <1>3, <1>4, <1>5 DEF StepOf, Coordinate

\* Nor does any other step make it exceed the target.
LEMMA CapacityStep ==
  ASSUME Shaped, Pools, Capacity, [Next]_vars
  PROVE  Capacity'
<1>0. "fast" \in Cohorts /\ "protocol" \in Cohorts /\ "thinking" \in Cohorts
  BY DEF Cohorts
<1>1. ASSUME UNCHANGED vars \/ \E r \in Runs : AgentEnds(r)
      PROVE  Capacity'
  <2>1. /\ starts' = starts /\ target' = target /\ coord' = coord /\ thread' = thread /\ outcome' = outcome
        /\ export' = export /\ exporting' = exporting
    BY <1>1 DEF vars, files, childs, AgentEnds
  <2> QED
    BY <2>1, CapacityElsewhere
<1>2. ASSUME NEW c \in Cohorts, NEW t \in Tasks, Export(c, t)
      PROVE  Capacity'
  <2>1. /\ starts' = starts /\ target' = target /\ coord' = coord /\ thread' = thread /\ outcome' = outcome
    BY <1>2, ExportWrites
  <2>2. starts["fast"] = 0 => c # "fast"
    BY <1>2, ExportWrites DEF Capacity, Untouched
  <2>3. ASSUME NEW u \in Tasks
        PROVE  /\ exporting'["fast"][u] = exporting["fast"][u] \/ starts["fast"] # 0
               /\ export'["fast"][u] = export["fast"][u] \/ starts["fast"] # 0
    BY <1>0, <1>2, <2>2, ExportWrites
  <2> QED
    BY <2>1, <2>3, CapacityElsewhere
<1>3. ASSUME NEW c \in Cohorts, StepOf(c), c # "fast"
      PROVE  Capacity'
  <2>1. /\ starts'["fast"] = starts["fast"] /\ target' = target /\ coord'["fast"] = coord["fast"]
        /\ \A t \in Tasks : thread'["fast"][t] = thread["fast"][t]
    BY <1>0, <1>3, PoolStep DEF Within
  <2>2. \A r \in Runs : r[1] = "fast" => outcome'[r] = outcome[r]
    BY <1>3, OutcomesWithin
  <2>3. export' = export /\ \A u \in Tasks : exporting'["fast"][u] = exporting["fast"][u]
    <3>1. ASSUME NEW t \in Tasks, Work(c, t)
          PROVE  export' = export /\ \A u \in Tasks : exporting'["fast"][u] = exporting["fast"][u]
      <4>1. exporting' = exporting \/ exporting' = [exporting EXCEPT ![c][t] = "open"]
        BY <3>1, WorkChildren
      <4>2. exporting \in [Cohorts -> [Tasks -> {"no", "open", "write"}]]
        BY DEF Shaped
      <4> QED
        BY <1>0, <1>3, <3>1, <4>1, <4>2, WorkBecomes
    <3>2. CASE ~\E t \in Tasks : Work(c, t)
      BY <1>3, <3>2, FilesOfOthers DEF StepOf, Coordinate
    <3> QED
      BY <3>1, <3>2
  <2> QED
    BY <2>1, <2>2, <2>3, CapacityElsewhere
<1> QED
  BY <1>0, <1>1, <1>2, <1>3, CapacityOfFast DEF Next, StepOf

-----------------------------------------------------------------------------
\* The whole invariant.
CampaignInv == Shaped /\ PaidInv /\ Outcomes /\ Pools /\ Knowledge /\ Evidence /\ Capacity

\* It holds at the start,
LEMMA CampaignInit ==
  ASSUME Init
  PROVE  CampaignInv
<1>1. Shaped /\ PaidInv /\ Outcomes
  BY ShapedInit DEF Init, PaidInv, Outcomes, Idle
<1>2. /\ \A c \in Cohorts : coord[c] = Down /\ starts[c] = 0 /\ \A t \in Tasks : thread[c][t] = Idle
      /\ \A r \in Runs : outcome[r] = "none" /\ pipeline = NoPipeline
      /\ \A c \in Cohorts, t \in Tasks :
           exporting[c][t] = "no" /\ (export[c][t] = "good" <=> c = "fast" /\ t \in Seeds)
      /\ Idle.at = "idle" /\ Down.at = "down" /\ Down.ready = {} /\ "fast" \in Cohorts
  BY DEF Init, Idle, Down, Cohorts
<1>3. Pools
  BY <1>2 DEF Pools, Pool
<1>4. Knowledge
  <2>1. \A c \in Cohorts : ~Uncertain(c)
    BY <1>2 DEF Uncertain
  <2> QED
    BY <1>1, <1>2, <2>1 DEF Knowledge, Known, Init
<1>5. Evidence
  BY <1>2 DEF Evidence, Init
<1>6. Capacity
  <2>1. \A t \in Tasks : ~AcceptedOf(t)
    BY <1>2 DEF AcceptedOf
  <2>2. Good("fast") = Seeds
    BY <1>2, CampaignAssumption DEF Good
  <2> QED
    BY <1>2, <2>1, <2>2 DEF Capacity, Untouched
<1> QED
  BY <1>1, <1>3, <1>4, <1>5, <1>6 DEF CampaignInv

\* every step keeps it,
LEMMA CampaignStep ==
  ASSUME CampaignInv, [Next]_vars
  PROVE  CampaignInv'
<1>1. Shaped' /\ Pools' /\ Knowledge' /\ Evidence' /\ Capacity'
  BY ShapedStep, PoolsStep, KnowledgeStep, EvidenceStep, CapacityStep DEF CampaignInv
<1>2. PaidInv' /\ Outcomes'
  BY PaidStep, OutcomesStep DEF CampaignInv, Shaped
<1> QED
  BY <1>1, <1>2 DEF CampaignInv

\* and so it always holds.
LEMMA CampaignInvariant == Spec => []CampaignInv
<1>1. Init => CampaignInv
  BY CampaignInit
<1>2. CampaignInv /\ [Next]_vars => CampaignInv'
  BY CampaignStep
<1> QED
  BY <1>1, <1>2, PTL DEF Spec

\* No training on what is not known: the cohort that starts the pipeline has
\* no outcome it does not know, as long as it is in its first start.
THEOREM NoTrainingWithoutKnowledge == Spec => []NoTrainingOnUnknownOutcomes
<1>1. CampaignInv => NoTrainingOnUnknownOutcomes
  <2> SUFFICES ASSUME CampaignInv, pipeline # NoPipeline, ~(starts[pipeline.by] > 1)
               PROVE  \A r \in Runs : r[1] = pipeline.by => outcome[r] # "uncertain"
    BY DEF NoTrainingOnUnknownOutcomes
  <2>1. pipeline.by \in Cohorts /\ Gone(pipeline.by) /\ starts[pipeline.by] \in Nat
    BY DEF CampaignInv, Knowledge, Shaped
  <2>2. ~Uncertain(pipeline.by)
    BY <2>1 DEF Gone
  <2> QED
    BY <2>2 DEF Uncertain
<1> QED
  BY <1>1, CampaignInvariant, PTL

\* The training set is large enough, and each task in it was a seed or has an
\* agent that completed, however often the collectors were killed.
THEOREM TrainingHasItsEvidence == Spec => []TrainsOnCompletedTasks
<1>1. CampaignInv => TrainsOnCompletedTasks
  BY DEF CampaignInv, Evidence, Backed, TrainsOnCompletedTasks
<1> QED
  BY <1>1, CampaignInvariant, PTL

\* The fast campaign accepts no more tasks than it was asked for in its first
\* start, for every number of threads.
THEOREM TargetIsNotExceeded == Spec => []NoTaskBeyondTarget
<1>1. CampaignInv => NoTaskBeyondTarget
  <2> SUFFICES ASSUME CampaignInv, starts["fast"] <= 1, Cardinality(Seeds) <= target
               PROVE  Cardinality(Seeds \cup {t \in Tasks : \E r \in Runs :
                        r[1] = "fast" /\ TaskOf(r) = t /\ outcome[r] = "accepted"}) <= target
    BY DEF NoTaskBeyondTarget
  <2>1. Accepted = Seeds \cup {t \in Tasks : \E r \in Runs :
                        r[1] = "fast" /\ TaskOf(r) = t /\ outcome[r] = "accepted"}
    BY DEF Accepted, AcceptedOf
  <2>2. starts["fast"] \in Nat
    BY DEF CampaignInv, Shaped, Cohorts
  <2>3. CASE starts["fast"] = 0
    <3>1. Accepted = Seeds
      BY <2>3 DEF CampaignInv, Capacity, Untouched, Accepted
    <3> QED
      BY <2>1, <3>1
  <2>4. CASE starts["fast"] = 1
    BY <2>1, <2>4 DEF CampaignInv, Capacity
  <2> QED
    BY <2>2, <2>3, <2>4
<1> QED
  BY <1>1, CampaignInvariant, PTL
=============================================================================

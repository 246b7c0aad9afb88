--------------------------- MODULE PipelineProofs ---------------------------
(***************************************************************************)
(* For every set of tasks, drivers and exports, whatever pipelines and     *)
(* helpers are started and killed:                                         *)
(*  - the formal experiment implements PairedRuns: a label is launched     *)
(*    only without a log, and what a thread has left to execute says what  *)
(*    is over on its task (Paired);                                        *)
(*  - the checkpoint is trained on what the audit keeps of the exports the *)
(*    experiment names: one pipeline works at a time, and from the         *)
(*    combined file on each stage reads what the one before it has left    *)
(*    (DataInv);                                                           *)
(*  - a report counts what the disk holds: a thread has followed each      *)
(*    label it has not left to its end (ReportInv).                        *)
(***************************************************************************)
EXTENDS PipelineSafety, FiniteSetTheorems, TLAPS

First(t)  == Order(t)[1]
Second(t) == Order(t)[2]
Eval(m)   == Evaluation[m]

\* What a thread may have left to execute.
Left(t) ==
  {<<>>, <<"quality">>,
   <<First(t), Eval(First(t))>>, <<Eval(First(t))>>, <<Eval(Second(t))>>,
   <<"quality", First(t), Eval(First(t)), Second(t), Eval(Second(t))>>,
   <<First(t), Eval(First(t)), Second(t), Eval(Second(t))>>,
   <<Eval(First(t)), Second(t), Eval(Second(t))>>,
   <<Second(t), Eval(Second(t))>>}

MainLeft == {<<>>, <<"audit", "training">>, <<"training">>}

\* Every label has at most one log, child and receipt, in this order, and it
\* has left what it is for only with a log.
Marked ==
  /\ again = {}
  /\ log \subseteq Labels /\ receipt \subseteq log /\ child \subseteq log \ receipt
  /\ made \in [Labels -> BOOLEAN]

\* A thread that is past the first run of its task has seen its receipt; one
\* that is before the second run, that the first one is over.
InOrder(d, t) ==
  /\ todo[d][t] \in Left(t)
  /\ todo[d][t] = <<Eval(First(t)), Second(t), Eval(Second(t))>> => <<t, First(t)>> \in receipt
  /\ todo[d][t] = <<Second(t), Eval(Second(t))>> => Over(t, First(t))

Ordered ==
  /\ todo = [d \in Drivers |-> [t \in Threads |-> todo[d][t]]]
  /\ \A d \in Drivers : todo[d][Main] \in MainLeft
  /\ \A d \in Drivers, t \in Tasks : InOrder(d, t)

\* A thread that waits has launched the first stage it has left.
WaitsFor(d) ==
  /\ waits[d] \subseteq Threads
  /\ stage[d] \in {"off", "identity", "combine", "writing", "hashing"} => waits[d] = {}
  /\ stage[d] = "data" => waits[d] \subseteq {Main}
  /\ \A t \in waits[d] : todo[d][t] # <<>> /\ Label(d, t) \in log

Waiting ==
  /\ stage = [d \in Drivers |-> stage[d]]
  /\ waits = [d \in Drivers |-> waits[d]]
  /\ \A d \in Drivers : WaitsFor(d)

Paired == Marked /\ Ordered /\ Waiting /\ split \subseteq Tasks

-----------------------------------------------------------------------------
\* The models of a pair and the stages of a task are different.
LEMMA Stages ==
  ASSUME NEW t \in Tasks
  PROVE  /\ \/ First(t) = "base" /\ Second(t) = "sft"
            \/ First(t) = "sft" /\ Second(t) = "base"
         /\ Eval("base") = "base-evaluate" /\ Eval("sft") = "sft-evaluate"
<1>1. CASE Order(t) = <<"base", "sft">>
  BY <1>1 DEF First, Second, Eval, Evaluation
<1>2. CASE Order(t) = <<"sft", "base">>
  BY <1>2 DEF First, Second, Eval, Evaluation
<1> QED
  BY <1>1, <1>2 DEF Order

\* The labels of a task are labels.
LEMMA LabelTyping ==
  ASSUME NEW d \in Drivers, NEW t \in Threads, todo[d][t] # <<>>,
         t = Main => todo[d][t] \in MainLeft, t # Main => todo[d][t] \in Left(t)
  PROVE  Label(d, t) \in Labels /\ Label(d, t)[1] = t /\ Label(d, t)[2] = Head(todo[d][t])
<1>0. Label(d, t) = <<t, Head(todo[d][t])>>
  BY DEF Label
<1>1. CASE t = Main
  BY <1>1, <1>0 DEF MainLeft, Labels
<1>2. CASE t # Main
  <2>1. t \in Tasks
    BY <1>2 DEF Threads
  <2>2. Head(todo[d][t]) \in {"quality", "base", "sft", "base-evaluate", "sft-evaluate"}
    BY <2>1, <1>2, Stages DEF Left
  <2> QED
    BY <1>0, <2>1, <2>2 DEF Labels
<1> QED
  BY <1>1, <1>2

\* A thread goes on, or raises, in order.
LEMMA AdvanceKeepsOrder ==
  ASSUME Marked, Ordered, NEW d \in Drivers, NEW t \in Threads, todo[d][t] # <<>>,
         Raise(d, t) \/ (Advance(d, t) /\ Label(d, t) \in receipt'),
         receipt \subseteq receipt', made' = made
  PROVE  Ordered'
<1> DEFINE s == Head(todo[d][t])
           new == todo'[d][t]
<1>1. /\ todo' = [todo EXCEPT ![d][t] = new]
      /\ new = <<>> \/ (new = Rest(d, t) /\ Label(d, t) \in receipt')
  BY DEF Advance, Raise, Ordered
<1>2. todo' = [e \in Drivers |-> [u \in Threads |-> todo'[e][u]]]
  BY <1>1 DEF Ordered
<1>3. \A e \in Drivers, u \in Threads : <<e, u>> # <<d, t>> => todo'[e][u] = todo[e][u]
  BY <1>1 DEF Ordered
<1>4. ASSUME NEW e \in Drivers, NEW u \in Tasks, InOrder(e, u), todo'[e][u] = todo[e][u]
      PROVE  InOrder(e, u)'
  BY <1>4 DEF InOrder, Over
<1>5. CASE t = Main
  <2>1. new \in MainLeft
    <3>1. todo[d][Main] \in MainLeft
      BY DEF Ordered
    <3>2. s # "quality" /\ ~IsRun(s) /\ Tail(todo[d][t]) \in MainLeft
      <4>1. CASE todo[d][t] = <<"audit", "training">>
        <5>1. s = "audit" /\ Tail(todo[d][t]) = <<"training">>
          BY <4>1
        <5> QED
          BY <5>1 DEF MainLeft, IsRun, Models
      <4>2. CASE todo[d][t] = <<"training">>
        <5>1. s = "training" /\ Tail(todo[d][t]) = <<>>
          BY <4>2
        <5> QED
          BY <5>1 DEF MainLeft, IsRun, Models
      <4> QED
        BY <3>1, <1>5, <4>1, <4>2 DEF MainLeft
    <3>3. Rest(d, t) = Tail(todo[d][t])
      BY <3>2 DEF Rest
    <3> QED
      BY <3>2, <3>3, <1>1 DEF MainLeft
  <2>2. Main \notin Tasks
    BY PipelineAssumption DEF Main
  <2> QED
    BY <1>2, <1>3, <1>4, <1>5, <2>1, <2>2, ZenonT(60) DEF Ordered, Threads
<1>6. CASE t # Main
  <2>1. t \in Tasks
    BY <1>6 DEF Threads
  <2>2. InOrder(d, t)'
    <3>1. CASE new = <<>>
      BY <3>1 DEF InOrder, Left
    <3>2. CASE new = Rest(d, t) /\ Label(d, t) \in receipt'
      <4> DEFINE f == First(t)
                 g == Second(t)
      <4>1. /\ f \in Models /\ g \in Models /\ f # "quality" /\ g # "quality"
            /\ \A m \in Models : Eval(m) \notin Models /\ Eval(m) # "quality"
        BY <2>1, Stages DEF Models
      <4>2. <<t, s>> \in receipt'
        BY <3>2 DEF Label
      <4>3. InOrder(d, t)
        BY <2>1 DEF Ordered
      <4> HIDE DEF new
      <4>10. ASSUME new \in {<<>>, <<Eval(f)>>, <<Eval(g)>>, <<f, Eval(f), g, Eval(g)>>}
             PROVE  InOrder(d, t)'
        <5>1. new \in Left(t)
          BY <4>10 DEF Left
        <5>2. new # <<Eval(f), g, Eval(g)>> /\ new # <<g, Eval(g)>>
          <6>1. Len(new) \in {0, 1, 4}
            BY <4>10
          <6>2. Len(<<Eval(f), g, Eval(g)>>) = 3 /\ Len(<<g, Eval(g)>>) = 2
            OBVIOUS
          <6> QED
            BY <6>1, <6>2
        <5> QED
          BY <5>1, <5>2 DEF new, InOrder
      <4>4. CASE todo[d][t] = <<"quality">> \/ todo[d][t] = <<Eval(f)>> \/ todo[d][t] = <<Eval(g)>>
        <5>1. new = <<>>
          <6>1. CASE todo[d][t] = <<"quality">>
            <7>1. s = "quality" /\ Tail(todo[d][t]) = <<>>
              BY <6>1
            <7> QED
              BY <7>1, <3>2, <4>1 DEF Rest, IsRun
          <6>2. CASE todo[d][t] = <<Eval(f)>>
            <7>1. s = Eval(f) /\ Tail(todo[d][t]) = <<>>
              BY <6>2
            <7> QED
              BY <7>1, <3>2, <4>1 DEF Rest, IsRun
          <6>3. CASE todo[d][t] = <<Eval(g)>>
            <7>1. s = Eval(g) /\ Tail(todo[d][t]) = <<>>
              BY <6>3
            <7> QED
              BY <7>1, <3>2, <4>1 DEF Rest, IsRun
          <6> QED
            BY <4>4, <6>1, <6>2, <6>3
        <5> QED
          BY <5>1, <3>1
      <4>5. CASE todo[d][t] = <<f, Eval(f)>>
        <5>0. s = f /\ Tail(todo[d][t]) = <<Eval(f)>> /\ Tail(<<Eval(f)>>) = <<>>
          BY <4>5
        <5>1. new = <<Eval(f)>> \/ new = <<>>
          BY <5>0, <3>2, <4>1 DEF Rest, IsRun
        <5> QED
          BY <5>1, <4>10
      <4>6. CASE todo[d][t] = <<"quality", f, Eval(f), g, Eval(g)>>
        <5>0. s = "quality" /\ Tail(todo[d][t]) = <<f, Eval(f), g, Eval(g)>>
          BY <4>6
        <5>3. ~IsRun("quality")
          BY DEF IsRun, Models
        <5>1. new = <<f, Eval(f), g, Eval(g)>> \/ new = <<>>
          BY <5>0, <5>3, <3>2 DEF Rest
        <5> QED
          BY <5>1, <4>10
      <4>7. CASE todo[d][t] = <<f, Eval(f), g, Eval(g)>>
        <5>0. /\ s = f /\ <<t, f>> \in receipt'
              /\ Tail(todo[d][t]) = <<Eval(f), g, Eval(g)>>
              /\ Tail(<<Eval(f), g, Eval(g)>>) = <<g, Eval(g)>>
          BY <4>7, <4>2
        <5>1. IF made[<<t, f>>] THEN new = <<Eval(f), g, Eval(g)>> ELSE new = <<g, Eval(g)>>
          BY <5>0, <3>2, <4>1 DEF Rest, IsRun
        <5>2. CASE new = <<Eval(f), g, Eval(g)>>
          BY <5>0, <5>2, <4>1 DEF new, InOrder, Left
        <5>3. CASE new = <<g, Eval(g)>> /\ ~made[<<t, f>>]
          BY <5>0, <5>3, <4>1 DEF new, InOrder, Left, Over
        <5> QED
          BY <5>1, <5>2, <5>3
      <4>8. CASE todo[d][t] = <<Eval(f), g, Eval(g)>>
        <5>0. /\ s = Eval(f) /\ <<t, Eval(f)>> \in receipt' /\ <<t, f>> \in receipt'
              /\ Tail(todo[d][t]) = <<g, Eval(g)>>
          BY <4>8, <4>2, <4>3 DEF InOrder
        <5>1. new = <<g, Eval(g)>>
          BY <5>0, <3>2, <4>1 DEF Rest, IsRun
        <5> QED
          BY <5>0, <5>1 DEF new, InOrder, Left, Over, Eval
      <4>9. CASE todo[d][t] = <<g, Eval(g)>>
        <5>0. s = g /\ Tail(todo[d][t]) = <<Eval(g)>> /\ Tail(<<Eval(g)>>) = <<>>
          BY <4>9
        <5>1. new = <<Eval(g)>> \/ new = <<>>
          BY <5>0, <3>2, <4>1 DEF Rest, IsRun
        <5> QED
          BY <5>1, <4>10
      <4> QED
        BY <4>3, <4>4, <4>5, <4>6, <4>7, <4>8, <4>9 DEF InOrder, Left
    <3> QED
      BY <3>1, <3>2, <1>1
  <2> QED
    BY <1>2, <1>3, <1>4, <1>6, <2>1, <2>2, ZenonT(60) DEF Ordered, Threads
<1> QED
  BY <1>5, <1>6

-----------------------------------------------------------------------------
\* A label is launched once, and its receipt follows its child.
LEMMA StepMarked == Paired /\ [Next]_vars => Marked'
<1> SUFFICES ASSUME Paired, [Next]_vars
             PROVE  Marked'
  OBVIOUS
<1> USE DEF Paired, Marked
<1>1. CASE UNCHANGED <<marks, made>>
  BY <1>1 DEF marks
<1>2. ASSUME NEW d \in Drivers, NEW t \in Threads, Execute(d, t)
      PROVE  Marked'
  <2>1. Label(d, t) \in Labels
    <3>1. todo[d][t] # <<>> /\ (t = Main => todo[d][t] \in MainLeft) /\ (t # Main => todo[d][t] \in Left(t))
      BY <1>2 DEF Execute, Busy, Ordered, InOrder, Threads
    <3> QED
      BY <3>1, LabelTyping
  <2>2. made' = made
    BY <1>2 DEF Execute, outcome
  <2>3. CASE UNCHANGED marks
    BY <2>2, <2>3 DEF marks
  <2>4. CASE /\ Fresh(Label(d, t))
             /\ log' = log \union {Label(d, t)}
             /\ again' = again \union ({Label(d, t)} \intersect log)
             /\ child' = child \union {Label(d, t)}
             /\ receipt' = receipt
    BY <2>1, <2>2, <2>4 DEF Fresh
  <2> QED
    BY <1>2, <2>3, <2>4 DEF Execute
<1>3. ASSUME NEW d \in Drivers, NEW t \in Threads, Reap(d, t)
      PROVE  Marked'
  <2>1. Label(d, t) \in log \ child
    BY <1>3 DEF Reap, Waiting, WaitsFor
  <2>2. receipt' = receipt \union {Label(d, t)} /\ UNCHANGED <<made, log, child, again>>
    BY <1>3 DEF Reap, outcome
  <2> QED
    BY <2>1, <2>2
<1>4. ASSUME NEW l \in child, ChildEnds(l)
      PROVE  Marked'
  BY <1>4 DEF ChildEnds, outcome
<1> QED
  <2>1. CASE \E d \in Pipelines : PipelineStarts(d) \/ PipelineStep(d)
    BY <2>1, <1>1 DEF PipelineStarts, PipelineStep, Identify, CombineOpens, CombineWrites, DataFails, Join, Report, outcome
  <2>2. CASE PrewarmStarts \/ PrewarmIdentifies \/ PrewarmEnds \/ PreflightStarts \/ PreflightEnds
    BY <2>2, <1>1 DEF PrewarmStarts, PrewarmIdentifies, PrewarmEnds, PreflightStarts, PreflightEnds, outcome
  <2>3. CASE \E d \in Drivers : Kill(d)
    BY <2>3, <1>1 DEF Kill, outcome
  <2>4. CASE UNCHANGED vars
    BY <2>4, <1>1 DEF vars, outcome
  <2> QED
    BY <1>2, <1>3, <1>4, <2>1, <2>2, <2>3, <2>4 DEF Next, Thread

\* What is over stays over.
LEMMA StepKeepsReceipts ==
  ASSUME Paired, [Next]_vars
  PROVE  /\ receipt \subseteq receipt'
         /\ \A l \in receipt : made'[l] = made[l]
<1> USE DEF outcome, marks
<1>1. ASSUME NEW l \in child, ChildEnds(l)
      PROVE  receipt' = receipt /\ \A k \in receipt : made'[k] = made[k]
  BY <1>1 DEF ChildEnds, Paired, Marked
<1>2. ASSUME NEW d \in Drivers, NEW t \in Threads, Thread(d, t)
      PROVE  receipt \subseteq receipt' /\ made' = made
  BY <1>2 DEF Thread, Execute, Reap
<1>3. CASE \E d \in Pipelines : PipelineStarts(d) \/ PipelineStep(d)
  BY <1>3 DEF PipelineStarts, PipelineStep, Identify, CombineOpens, CombineWrites, DataFails, Join, Report
<1>4. CASE PrewarmStarts \/ PrewarmIdentifies \/ PrewarmEnds \/ PreflightStarts \/ PreflightEnds
  BY <1>4 DEF PrewarmStarts, PrewarmIdentifies, PrewarmEnds, PreflightStarts, PreflightEnds
<1>5. CASE \E d \in Drivers : Kill(d)
  BY <1>5 DEF Kill
<1>6. CASE UNCHANGED vars
  BY <1>6 DEF vars
<1> QED
  BY <1>1, <1>2, <1>3, <1>4, <1>5, <1>6 DEF Next

\* A thread that starts, or is stopped, is in order.
LEMMA StartsInOrder ==
  ASSUME NEW t \in Tasks, NEW d \in Drivers, d = Prewarm => Order(t)[1] = "base"
  PROVE  /\ Program(d, t) \in Left(t)
         /\ Program(d, t) # <<Eval(First(t)), Second(t), Eval(Second(t))>>
         /\ Program(d, t) # <<Second(t), Eval(Second(t))>>
<1> USE DEF Program, Left, First, Second, Eval, Run
<1>1. CASE d = Prewarm
  <2>1. Program(d, t) = <<First(t), Eval(First(t))>>
    BY <1>1, PipelineAssumption
  <2>2. First(t) # Second(t)
    BY Stages
  <2> HIDE DEF Program, First, Second
  <2> QED
    BY <2>1, <2>2
<1>2. CASE d = Preflight /\ d # Prewarm
  <2>1. Program(d, t) = <<"quality">>
    BY <1>2
  <2> HIDE DEF Program, First, Second
  <2> QED
    BY <2>1
<1>3. CASE d # Preflight /\ d # Prewarm
  <2>1. Program(d, t) = <<"quality", First(t), Eval(First(t)), Second(t), Eval(Second(t))>>
    BY <1>3 DEF Pair
  <2> HIDE DEF Program, First, Second, Eval
  <2> QED
    BY <2>1
<1> QED
  BY <1>1, <1>2, <1>3

\* The threads of a driver start in order, or are stopped.
LEMMA ThreadsStartInOrder ==
  ASSUME Ordered, NEW d \in Drivers, NEW S \in SUBSET Tasks,
         d = Prewarm => \A t \in S : Order(t)[1] = "base",
         todo' = [todo EXCEPT ![d] = [t \in Threads |-> IF t \in S THEN Program(d, t) ELSE <<>>]],
         receipt' = receipt, made' = made
  PROVE  Ordered'
<1>1. todo' = [e \in Drivers |-> [u \in Threads |-> todo'[e][u]]]
  BY DEF Ordered
<1>2. \A e \in Drivers, u \in Threads : e # d => todo'[e][u] = todo[e][u]
  BY DEF Ordered
<1>3. \A u \in Threads : todo'[d][u] = IF u \in S THEN Program(d, u) ELSE <<>>
  BY DEF Ordered
<1>4. Main \notin Tasks /\ Main \in Threads /\ Tasks \subseteq Threads
  BY PipelineAssumption DEF Main, Threads
<1>5. ASSUME NEW e \in Drivers
      PROVE  todo'[e][Main] \in MainLeft
  BY <1>2, <1>3, <1>4, <1>5 DEF Ordered, MainLeft
<1>6. ASSUME NEW e \in Drivers, NEW u \in Tasks
      PROVE  InOrder(e, u)'
  <2>1. CASE e # d
    BY <1>2, <1>4, <2>1 DEF Ordered, InOrder, Over
  <2>2. CASE e = d /\ u \in S
    <3>1. todo'[e][u] = Program(e, u)
      BY <1>3, <1>4, <2>2
    <3>2. /\ Program(e, u) \in Left(u)
          /\ Program(e, u) # <<Eval(First(u)), Second(u), Eval(Second(u))>>
          /\ Program(e, u) # <<Second(u), Eval(Second(u))>>
      BY <2>2, StartsInOrder
    <3> QED
      BY <3>1, <3>2 DEF InOrder
  <2>3. CASE e = d /\ u \notin S
    <3>1. todo'[e][u] = <<>>
      BY <1>3, <1>4, <2>3
    <3> QED
      BY <3>1 DEF InOrder, Left
  <2> QED
    BY <2>1, <2>2, <2>3
<1> QED
  BY <1>1, <1>5, <1>6 DEF Ordered

\* What is left changes only for the main thread.
LEMMA MainStartsInOrder ==
  ASSUME Ordered, NEW d \in Drivers,
         todo' = [todo EXCEPT ![d][Main] = <<"audit", "training">>],
         receipt' = receipt, made' = made
  PROVE  Ordered'
<1>1. Main \notin Tasks /\ Main \in Threads /\ Tasks \subseteq Threads
  BY PipelineAssumption DEF Main, Threads
<1>2. todo' = [e \in Drivers |-> [u \in Threads |-> todo'[e][u]]]
  BY DEF Ordered
<1>3. \A e \in Drivers, u \in Tasks : todo'[e][u] = todo[e][u]
  BY <1>1 DEF Ordered
<1>4. \A e \in Drivers : todo'[e][Main] \in MainLeft
  BY <1>1 DEF Ordered, MainLeft
<1>5. ASSUME NEW e \in Drivers, NEW u \in Tasks
      PROVE  InOrder(e, u)'
  BY <1>3, <1>5 DEF Ordered, InOrder, Over
<1> QED
  BY <1>2, <1>4, <1>5 DEF Ordered

\* Every step keeps the threads in order.
LEMMA StepOrdered == Paired /\ [Next]_vars => Ordered'
<1> SUFFICES ASSUME Paired, [Next]_vars
             PROVE  Ordered'
  OBVIOUS
<1> USE DEF Paired
<1>1. CASE todo' = todo
  <2>1. ASSUME NEW d \in Drivers, NEW t \in Tasks
        PROVE  InOrder(d, t)'
    <3>1. InOrder(d, t)
      BY DEF Ordered
    <3>2. Over(t, First(t)) => Over(t, First(t))'
      BY StepKeepsReceipts DEF Over
    <3> QED
      BY <1>1, <3>1, <3>2, StepKeepsReceipts DEF InOrder
  <2> QED
    BY <1>1, <2>1 DEF Ordered
<1>2. ASSUME NEW d \in Drivers, NEW t \in Threads, Thread(d, t)
      PROVE  Ordered'
  <2>1. made' = made /\ receipt \subseteq receipt' /\ todo[d][t] # <<>>
    BY <1>2 DEF Thread, Execute, Reap, Busy, outcome, marks
  <2>2. todo' = todo \/ Raise(d, t) \/ (Advance(d, t) /\ Label(d, t) \in receipt')
    BY <1>2 DEF Thread, Execute, Reap, Known, marks
  <2>3. CASE Raise(d, t) \/ (Advance(d, t) /\ Label(d, t) \in receipt')
    BY <2>1, <2>3, AdvanceKeepsOrder
  <2> QED
    BY <1>1, <2>2, <2>3
<1>3. ASSUME NEW d \in Pipelines, PipelineStarts(d) \/ PipelineStep(d)
      PROVE  Ordered'
  <2>1. d \in Drivers /\ d # Prewarm
    BY PipelineAssumption DEF Drivers
  <2>2. made' = made /\ receipt' = receipt
    BY <1>3 DEF PipelineStarts, PipelineStep, Identify, CombineOpens, CombineWrites, DataFails, Join, Report, outcome, marks
  <2>3. \/ todo' = todo
        \/ todo' = [todo EXCEPT ![d][Main] = <<"audit", "training">>]
        \/ todo' = [todo EXCEPT ![d] = [t \in Threads |-> IF t \in split THEN Program(d, t) ELSE <<>>]]
    BY <1>3 DEF PipelineStarts, PipelineStep, Identify, CombineOpens, CombineWrites, DataFails, Join, Report, threads
  <2> QED
    BY <1>1, <2>1, <2>2, <2>3, MainStartsInOrder, ThreadsStartInOrder
<1>4. CASE PrewarmStarts
  <2> DEFINE S == {t \in split : Eligible(t)}
  <2>1. S \subseteq Tasks /\ (\A t \in S : Order(t)[1] = "base") /\ Prewarm \in Drivers
    BY DEF Eligible, Drivers
  <2>2. todo' = [todo EXCEPT ![Prewarm] = [t \in Threads |-> IF t \in S THEN Program(Prewarm, t) ELSE <<>>]]
    BY <1>4 DEF PrewarmStarts
  <2>3. made' = made /\ receipt' = receipt
    BY <1>4 DEF PrewarmStarts, outcome, marks
  <2> HIDE DEF S
  <2> QED
    BY <2>1, <2>2, <2>3, ThreadsStartInOrder
<1>5. CASE PreflightStarts
  BY <1>5, PipelineAssumption, ThreadsStartInOrder DEF PreflightStarts, outcome, marks, Drivers
<1>6. CASE PrewarmIdentifies \/ PrewarmEnds \/ PreflightEnds
  BY <1>1, <1>6 DEF PrewarmIdentifies, PrewarmEnds, PreflightEnds, threads
<1>7. ASSUME NEW d \in Drivers, Kill(d)
      PROVE  Ordered'
  <2>1. todo' = [todo EXCEPT ![d] = [t \in Threads |-> IF t \in {} THEN Program(d, t) ELSE <<>>]]
    BY <1>7 DEF Kill
  <2>2. made' = made /\ receipt' = receipt
    BY <1>7 DEF Kill, outcome, marks
  <2>3. {} \in SUBSET Tasks /\ \A t \in {} : Order(t)[1] = "base"
    OBVIOUS
  <2> QED
    BY <2>1, <2>2, <2>3, ThreadsStartInOrder
<1>8. ASSUME NEW l \in child, ChildEnds(l)
      PROVE  todo' = todo
  BY <1>8 DEF ChildEnds, threads
<1>9. CASE UNCHANGED vars
  BY <1>1, <1>9 DEF vars, threads
<1> QED
  BY <1>1, <1>2, <1>3, <1>4, <1>5, <1>6, <1>7, <1>8, <1>9 DEF Next

\* A log stays.
LEMMA StepKeepsLogs == [Next]_vars => log \subseteq log'
<1> SUFFICES ASSUME [Next]_vars
             PROVE  log \subseteq log'
  OBVIOUS
<1>1. ASSUME NEW d \in Drivers, NEW t \in Threads, Thread(d, t)
      PROVE  log \subseteq log'
  BY <1>1 DEF Thread, Execute, Reap, marks
<1>2. ASSUME NEW l \in child, ChildEnds(l)
      PROVE  log' = log
  BY <1>2 DEF ChildEnds
<1>3. CASE \E d \in Pipelines : PipelineStarts(d) \/ PipelineStep(d)
  BY <1>3 DEF PipelineStarts, PipelineStep, Identify, CombineOpens, CombineWrites, DataFails, Join, Report, marks
<1>4. CASE PrewarmStarts \/ PrewarmIdentifies \/ PrewarmEnds \/ PreflightStarts \/ PreflightEnds
  BY <1>4 DEF PrewarmStarts, PrewarmIdentifies, PrewarmEnds, PreflightStarts, PreflightEnds, marks
<1>5. CASE (\E d \in Drivers : Kill(d)) \/ UNCHANGED vars
  BY <1>5 DEF Kill, vars, marks
<1> QED
  BY <1>1, <1>2, <1>3, <1>4, <1>5 DEF Next

\* A driver that does not move, or has no thread that waits, waits for nothing new.
LEMMA WaitsStay ==
  ASSUME NEW d \in Drivers, WaitsFor(d), waits'[d] = waits[d], todo'[d] = todo[d], log \subseteq log',
         \/ stage'[d] = stage[d]
         \/ stage'[d] \notin {"off", "identity", "combine", "writing", "hashing", "data"}
  PROVE  WaitsFor(d)'
BY DEF WaitsFor, Label

\* A driver with no thread that waits waits for nothing.
LEMMA NothingWaits ==
  ASSUME NEW d \in Drivers, waits'[d] = {}
  PROVE  WaitsFor(d)'
BY DEF WaitsFor

\* A driver moves, its threads stop or go on.
LEMMA MoveKeepsWaits ==
  ASSUME Waiting, Ordered, NEW d \in Drivers, NEW s, Goto(d, s), log \subseteq log',
         \A e \in Drivers : e # d => waits'[e] = waits[e] /\ todo'[e] = todo[e],
         waits' = [e \in Drivers |-> waits'[e]],
         \/ waits'[d] = {}
         \/ /\ waits'[d] = waits[d] /\ todo'[d] = todo[d]
            /\ s \notin {"off", "identity", "combine", "writing", "hashing", "data"}
  PROVE  Waiting'
<1>1. stage' = [stage EXCEPT ![d] = s]
  BY DEF Goto
<1>2. stage' = [e \in Drivers |-> stage'[e]]
  BY <1>1 DEF Waiting
<1>3. stage'[d] = s /\ \A e \in Drivers : e # d => stage'[e] = stage[e]
  BY <1>1 DEF Waiting
<1>4. ASSUME NEW e \in Drivers
      PROVE  WaitsFor(e)'
  <2>1. WaitsFor(e)
    BY DEF Waiting
  <2>2. CASE e # d
    BY <1>3, <2>1, <2>2, WaitsStay
  <2>3. CASE e = d /\ waits'[d] = {}
    BY <2>3, NothingWaits
  <2>4. CASE e = d /\ waits'[d] # {}
    BY <1>3, <2>1, <2>4, WaitsStay
  <2> QED
    BY <2>2, <2>3, <2>4
<1> QED
  BY <1>2, <1>4 DEF Waiting

\* A thread goes on: the others wait as before.
LEMMA ThreadKeepsWaits ==
  ASSUME Paired, NEW d \in Drivers, NEW t \in Threads, Thread(d, t), log \subseteq log'
  PROVE  Waiting'
<1>0. stage' = stage /\ (stage[d] = IF t = Main THEN "data" ELSE "pairs") /\ todo[d][t] # <<>>
  BY DEF Thread, Execute, Reap, Busy
<1>1. \A e \in Drivers, u \in Threads : <<e, u>> # <<d, t>> => todo'[e][u] = todo[e][u]
  BY DEF Thread, Execute, Reap, Advance, Raise, Paired, Ordered
<1>2. /\ \A e \in Drivers : e # d => waits'[e] = waits[e]
      /\ waits' = [e \in Drivers |-> waits'[e]]
  BY DEF Thread, Execute, Reap, Paired, Waiting
<1>3. \/ waits'[d] = waits[d] /\ t \notin waits[d]
      \/ waits'[d] = waits[d] \ {t}
      \/ waits'[d] = waits[d] \union {t} /\ Label(d, t) \in log' /\ todo' = todo
  BY DEF Thread, Execute, Reap, Paired, Waiting
<1>4. ASSUME NEW e \in Drivers
      PROVE  WaitsFor(e)'
  <2>1. WaitsFor(e)
    BY DEF Paired, Waiting
  <2>2. CASE e # d
    <3>1. \A u \in waits[e] : todo'[e][u] = todo[e][u]
      BY <2>1, <2>2, <1>1 DEF WaitsFor
    <3> QED
      BY <1>0, <1>2, <2>1, <2>2, <3>1 DEF WaitsFor, Label
  <2>3. CASE e = d
    <3>1. \A u \in waits'[d] : u # t => u \in waits[d] /\ todo'[d][u] = todo[d][u]
      BY <1>1, <1>3, <2>1, <2>3 DEF WaitsFor
    <3>2. t \in waits'[d] => todo'[d][t] = todo[d][t] /\ Label(d, t) \in log'
      BY <1>3
    <3>3. \A u \in waits'[d] : todo'[d][u] # <<>> /\ Label(d, u)' \in log'
      BY <1>0, <2>1, <2>3, <3>1, <3>2 DEF WaitsFor, Label
    <3>4. waits'[d] \subseteq waits[d] \union {t}
      BY <1>3
    <3> QED
      BY <1>0, <2>1, <2>3, <3>3, <3>4 DEF WaitsFor
  <2> QED
    BY <2>2, <2>3
<1> QED
  BY <1>0, <1>2, <1>4 DEF Paired, Waiting

\* Every step keeps what is known of the threads that wait.
LEMMA StepWaiting == Paired /\ [Next]_vars => Waiting'
<1> SUFFICES ASSUME Paired, [Next]_vars
             PROVE  Waiting'
  OBVIOUS
<1>0. log \subseteq log' /\ Ordered /\ Waiting /\ \A d \in Drivers : WaitsFor(d)
  BY StepKeepsLogs DEF Paired, Waiting
<1>1. ASSUME UNCHANGED <<stage, waits, todo>>
      PROVE  Waiting'
  BY <1>0, <1>1, WaitsStay DEF Waiting
<1>2. ASSUME NEW d \in Pipelines, PipelineStarts(d) \/ PipelineStep(d)
      PROVE  Waiting'
  <2>0. d \in Drivers /\ WaitsFor(d)
    BY <1>0 DEF Drivers
  <2>1. /\ waits' = waits /\ waits' = [e \in Drivers |-> waits'[e]]
        /\ \A e \in Drivers : e # d => todo'[e] = todo[e]
    <3>1. waits' = waits
      BY <1>2 DEF PipelineStarts, PipelineStep, Identify, CombineOpens, CombineWrites, DataFails, Join, Report, threads
    <3>2. \A e \in Drivers : e # d => todo'[e] = todo[e]
      BY <1>0, <1>2 DEF PipelineStarts, PipelineStep, Identify, CombineOpens, CombineWrites, DataFails, Join, Report, threads, Ordered
    <3> QED
      BY <1>0, <3>1, <3>2 DEF Waiting
  <2>2. CASE PipelineStarts(d) \/ Identify(d) \/ CombineOpens(d) \/ CombineWrites(d)
    <3>1. stage[d] \in {"off", "identity", "combine", "writing"}
      BY <2>2 DEF PipelineStarts, Identify, CombineOpens, CombineWrites
    <3>2. \E s : Goto(d, s)
      BY <2>2 DEF PipelineStarts, Identify, CombineOpens, CombineWrites
    <3>3. waits'[d] = {}
      BY <2>0, <2>1, <3>1 DEF WaitsFor
    <3> QED
      BY <1>0, <2>0, <2>1, <3>2, <3>3, MoveKeepsWaits
  <2>3. CASE Join(d)
    <3>1. waits'[d] = {}
      BY <2>0, <2>1, <2>3 DEF Join, WaitsFor
    <3>2. \E s : Goto(d, s)
      BY <2>3 DEF Join
    <3> QED
      BY <1>0, <2>0, <2>1, <3>1, <3>2, MoveKeepsWaits
  <2>4. CASE DataFails(d) \/ Report(d)
    <3>1. \E s \in {"failed", "over"} : Goto(d, s)
      BY <2>4 DEF DataFails, Report
    <3>2. todo' = todo
      BY <2>4 DEF DataFails, Report, threads
    <3> QED
      BY <1>0, <2>0, <2>1, <3>1, <3>2, MoveKeepsWaits
  <2> QED
    BY <1>2, <2>2, <2>3, <2>4 DEF PipelineStep
<1>3. CASE PrewarmStarts \/ PreflightStarts
  <2>1. \E d \in {Prewarm, Preflight} : /\ stage[d] = "off" /\ \E s : Goto(d, s)
                                        /\ \A e \in Drivers : e # d => todo'[e] = todo[e]
    BY <1>0, <1>3 DEF PrewarmStarts, PreflightStarts, Ordered
  <2>2. PICK d \in {Prewarm, Preflight} : /\ stage[d] = "off" /\ \E s : Goto(d, s)
                                          /\ \A e \in Drivers : e # d => todo'[e] = todo[e]
    BY <2>1
  <2>3. d \in Drivers /\ waits' = waits
    BY <1>3 DEF Drivers, PrewarmStarts, PreflightStarts
  <2>4. waits'[d] = {} /\ waits' = [e \in Drivers |-> waits'[e]]
    BY <1>0, <2>2, <2>3 DEF WaitsFor, Waiting
  <2> QED
    BY <1>0, <2>2, <2>3, <2>4, MoveKeepsWaits
<1>7. CASE PrewarmIdentifies \/ PrewarmEnds \/ PreflightEnds
  <2>1. \E d \in {Prewarm, Preflight} : \E s \in {"pairs", "failed", "over"} : Goto(d, s)
    <3>1. CASE PrewarmIdentifies
      BY <3>1 DEF PrewarmIdentifies
    <3>2. CASE PrewarmEnds
      BY <3>2 DEF PrewarmEnds
    <3>3. CASE PreflightEnds
      BY <3>3 DEF PreflightEnds
    <3> QED
      BY <1>7, <3>1, <3>2, <3>3
  <2>2. waits' = waits /\ todo' = todo /\ waits' = [e \in Drivers |-> waits'[e]]
    BY <1>0, <1>7 DEF PrewarmIdentifies, PrewarmEnds, PreflightEnds, threads, Waiting
  <2>3. Prewarm \in Drivers /\ Preflight \in Drivers
    BY DEF Drivers
  <2> QED
    BY <1>0, <2>1, <2>2, <2>3, MoveKeepsWaits
<1>4. ASSUME NEW d \in Drivers, Kill(d)
      PROVE  Waiting'
  <2>1. /\ Goto(d, "killed") /\ waits' = [waits EXCEPT ![d] = {}]
        /\ \A e \in Drivers : e # d => todo'[e] = todo[e]
    BY <1>0, <1>4 DEF Kill, Ordered
  <2>2. /\ waits'[d] = {} /\ waits' = [e \in Drivers |-> waits'[e]]
        /\ \A e \in Drivers : e # d => waits'[e] = waits[e]
    BY <1>0, <2>1 DEF Waiting
  <2> QED
    BY <1>0, <2>1, <2>2, MoveKeepsWaits
<1>5. ASSUME NEW l \in child, ChildEnds(l)
      PROVE  Waiting'
  BY <1>1, <1>5 DEF ChildEnds, threads
<1>6. CASE UNCHANGED vars
  BY <1>1, <1>6 DEF vars, threads
<1> QED
  BY <1>0, <1>2, <1>3, <1>4, <1>5, <1>6, <1>7, ThreadKeepsWaits DEF Next

-----------------------------------------------------------------------------
\* Paired is inductive: the marks are exclusive, the threads in order.
LEMMA InitPaired == Init => Paired
<1> SUFFICES ASSUME Init PROVE Paired
  OBVIOUS
<1>1. Marked
  BY DEF Init, Marked
<1>2. \A d \in Drivers : stage[d] # "data" /\ waits[d] = {} /\ \A t \in Threads : todo[d][t] = <<>>
  BY DEF Init
<1>3. Ordered
  <2>1. Main \in Threads /\ Tasks \subseteq Threads
    BY DEF Threads
  <2>2. todo = [d \in Drivers |-> [t \in Threads |-> todo[d][t]]]
    BY DEF Init
  <2>3. \A d \in Drivers : todo[d][Main] \in MainLeft
    BY <1>2, <2>1 DEF MainLeft
  <2>4. ASSUME NEW d \in Drivers, NEW t \in Tasks
        PROVE  InOrder(d, t)
    BY <1>2, <2>1 DEF InOrder, Left
  <2> QED
    BY <2>2, <2>3, <2>4 DEF Ordered
<1>4. Waiting
  BY <1>2 DEF Init, Waiting, WaitsFor
<1>5. split \subseteq Tasks
  BY PipelineAssumption DEF Init
<1> QED
  BY <1>1, <1>3, <1>4, <1>5 DEF Paired

\* The split of the tasks never changes.
LEMMA SplitStays == [Next]_vars => split' = split
<1> SUFFICES ASSUME [Next]_vars
             PROVE  split' = split
  OBVIOUS
<1>1. ASSUME NEW d \in Drivers, NEW t \in Threads, Thread(d, t)
      PROVE  split' = split
  BY <1>1 DEF Thread, Execute, Reap, bounds
<1>2. ASSUME NEW l \in child, ChildEnds(l)
      PROVE  split' = split
  BY <1>2 DEF ChildEnds, bounds
<1>3. CASE \E d \in Pipelines : PipelineStarts(d) \/ PipelineStep(d)
  BY <1>3 DEF PipelineStarts, PipelineStep, Identify, CombineOpens, CombineWrites, DataFails, Join, Report, bounds
<1>4. CASE PrewarmStarts \/ PrewarmIdentifies \/ PrewarmEnds \/ PreflightStarts \/ PreflightEnds
  BY <1>4 DEF PrewarmStarts, PrewarmIdentifies, PrewarmEnds, PreflightStarts, PreflightEnds, bounds
<1>5. CASE (\E d \in Drivers : Kill(d)) \/ UNCHANGED vars
  BY <1>5 DEF Kill, vars, bounds
<1> QED
  BY <1>1, <1>2, <1>3, <1>4, <1>5 DEF Next

\* Every step keeps all of it.
LEMMA StepPaired == Paired /\ [Next]_vars => Paired'
BY StepMarked, StepOrdered, StepWaiting, SplitStays DEF Paired

-----------------------------------------------------------------------------
\* A step that writes no log and no receipt leaves every run where it is.
LEMMA NoMarkNoRun ==
  ASSUME Paired, Paired', [Next]_vars, log' = log, receipt' = receipt
  PROVE  Runs' = Runs
<1>1. ASSUME NEW t \in Tasks, NEW m \in Models
      PROVE  State(t, m)' = State(t, m)
  BY StepKeepsReceipts DEF Paired, Marked, State, Over
<1> QED
  BY <1>1 DEF Runs

\* One run changes.
LEMMA OneRunChanges ==
  ASSUME NEW t \in Tasks, NEW m \in Models,
         \A u \in Tasks, n \in Models : <<u, n>> # <<t, m>> => State(u, n)' = State(u, n)
  PROVE  Runs' = [Runs EXCEPT ![t][m] = State(t, m)']
BY DEF Runs

\* A run starts when its label is launched, in its turn.
LEMMA LaunchRefines ==
  ASSUME Paired, Paired', NEW d \in Drivers, NEW t \in Threads, todo[d][t] # <<>>,
         Fresh(Label(d, t)), log' = log \union {Label(d, t)}, receipt' = receipt, made' = made
  PROVE  [Pairs!Next]_Runs
<1>0. PICK s : s = Head(todo[d][t])
  OBVIOUS
<1>1. Label(d, t) = <<t, s>>
  BY <1>0 DEF Label
<1>2. \A u \in Tasks, m \in Models : <<u, m>> # <<t, s>> => State(u, m)' = State(u, m)
  BY <1>1 DEF Paired, Marked, State, Over
<1>3. CASE t \in Tasks /\ s \in Models
  <2>1. State(t, s) = "waiting" /\ State(t, s)' = "running"
    <3>1. <<t, s>> \notin log /\ <<t, s>> \notin receipt /\ again = {}
      BY <1>1 DEF Fresh, Paired, Marked
    <3>2. <<t, s>> \in log' /\ <<t, s>> \notin receipt' /\ again' = {}
      BY <1>1, <3>1 DEF Paired, Marked
    <3>3. State(t, s) = "waiting"
      BY <3>1 DEF State, Over
    <3>4. State(t, s)' = "running"
      BY <3>2 DEF State, Over
    <3> QED
      BY <3>3, <3>4
  <2>2. s # First(t) => State(t, First(t)) = "over"
    <3> SUFFICES ASSUME s # First(t)
                 PROVE  State(t, First(t)) = "over"
      OBVIOUS
    <3>1. InOrder(d, t)
      BY <1>3 DEF Paired, Ordered
    <3>2. s = Second(t)
      BY <1>3, Stages DEF Models
    <3>3. todo[d][t] = <<Second(t), Eval(Second(t))>>
      BY <1>0, <1>3, <3>1, <3>2, Stages DEF InOrder, Left, Models
    <3>4. Over(t, First(t))
      BY <3>1, <3>3 DEF InOrder
    <3> QED
      BY <3>4 DEF State, Over, Paired, Marked
  <2>3. Runs' = [Runs EXCEPT ![t][s] = "running"]
    <3>1. Runs' = [Runs EXCEPT ![t][s] = State(t, s)']
      BY <1>2, <1>3, OneRunChanges
    <3> QED
      BY <2>1, <3>1
  <2>4. Runs[t][s] = "waiting" /\ Runs[t][First(t)] = State(t, First(t))
    BY <1>3, <2>1, Stages DEF Runs, Models
  <2>5. Pairs!Start(t, s)
    BY <1>3, <2>2, <2>3, <2>4 DEF Pairs!Start, First
  <2> QED
    BY <1>3, <2>5 DEF Pairs!Next
<1>4. CASE ~(t \in Tasks /\ s \in Models)
  <2>1. \A u \in Tasks, m \in Models : State(u, m)' = State(u, m)
    BY <1>2, <1>4
  <2> QED
    BY <2>1 DEF Runs
<1> QED
  BY <1>3, <1>4

\* A run is over with its receipt, or with that of its evaluation.
LEMMA ReceiptRefines ==
  ASSUME Paired, Paired', NEW d \in Drivers, NEW t \in Threads, t \in waits[d],
         receipt' = receipt \union {Label(d, t)}, log' = log, made' = made
  PROVE  [Pairs!Next]_Runs
<1>0. PICK s : s = Head(todo[d][t])
  OBVIOUS
<1>1. Label(d, t) = <<t, s>>
  BY <1>0 DEF Label
<1>2. ASSUME NEW u \in Tasks, NEW m \in Models
      PROVE  \/ State(u, m)' = State(u, m)
             \/ /\ State(u, m) = "running" /\ State(u, m)' = "over"
                /\ u = t /\ (s = m \/ s = Eval(m))
  BY <1>1 DEF Paired, Marked, State, Over, Eval
<1>3. \A m, n \in Models : (s = m \/ s = Eval(m)) /\ (s = n \/ s = Eval(n)) => m = n
  BY DEF Models, Eval, Evaluation
<1>4. CASE \A u \in Tasks, m \in Models : State(u, m)' = State(u, m)
  BY <1>4 DEF Runs
<1>5. ASSUME NEW m \in Models, t \in Tasks, State(t, m)' # State(t, m)
      PROVE  Pairs!Next
  <2>1. State(t, m) = "running" /\ State(t, m)' = "over" /\ (s = m \/ s = Eval(m))
    BY <1>2, <1>5
  <2>2. \A u \in Tasks, n \in Models : <<u, n>> # <<t, m>> => State(u, n)' = State(u, n)
    BY <1>2, <1>3, <2>1
  <2>3. Runs' = [Runs EXCEPT ![t][m] = "over"] /\ Runs[t][m] = "running"
    BY <1>5, <2>1, <2>2, OneRunChanges DEF Runs
  <2>4. Pairs!End(t, m)
    BY <2>3 DEF Pairs!End
  <2> QED
    BY <1>5, <2>4 DEF Pairs!Next
<1> QED
  BY <1>2, <1>4, <1>5

\* Every step of the experiment is a step of the paired evaluation, or none.
LEMMA StepRefines == Paired /\ Paired' /\ [Next]_vars => [Pairs!Next]_Runs
<1> SUFFICES ASSUME Paired, Paired', [Next]_vars
             PROVE  [Pairs!Next]_Runs
  OBVIOUS
<1>1. ASSUME log' = log, receipt' = receipt
      PROVE  [Pairs!Next]_Runs
  BY <1>1, NoMarkNoRun
<1>2. ASSUME NEW d \in Drivers, NEW t \in Threads, Execute(d, t)
      PROVE  [Pairs!Next]_Runs
  <2>1. todo[d][t] # <<>> /\ made' = made
    BY <1>2 DEF Execute, Busy, outcome
  <2>2. \/ log' = log /\ receipt' = receipt
        \/ Fresh(Label(d, t)) /\ log' = log \union {Label(d, t)} /\ receipt' = receipt
    BY <1>2 DEF Execute, marks
  <2> QED
    BY <1>1, <2>1, <2>2, LaunchRefines
<1>3. ASSUME NEW d \in Drivers, NEW t \in Threads, Reap(d, t)
      PROVE  [Pairs!Next]_Runs
  BY <1>3, ReceiptRefines DEF Reap, outcome
<1>4. ASSUME NEW l \in child, ChildEnds(l)
      PROVE  [Pairs!Next]_Runs
  BY <1>1, <1>4 DEF ChildEnds
<1>5. CASE \E d \in Pipelines : PipelineStarts(d) \/ PipelineStep(d)
  BY <1>1, <1>5 DEF PipelineStarts, PipelineStep, Identify, CombineOpens, CombineWrites, DataFails, Join, Report, marks
<1>6. CASE PrewarmStarts \/ PrewarmIdentifies \/ PrewarmEnds \/ PreflightStarts \/ PreflightEnds
  BY <1>1, <1>6 DEF PrewarmStarts, PrewarmIdentifies, PrewarmEnds, PreflightStarts, PreflightEnds, marks
<1>7. CASE (\E d \in Drivers : Kill(d)) \/ UNCHANGED vars
  BY <1>1, <1>7 DEF Kill, vars, marks
<1> QED
  BY <1>2, <1>3, <1>4, <1>5, <1>6, <1>7 DEF Next, Thread

\* No label is launched twice, and no receipt precedes its process.
THEOREM MarksAreExclusive == Spec => []Paired
<1> QED
  BY InitPaired, StepPaired, PTL DEF Spec

\* The formal experiment implements the paired evaluation.
THEOREM PipelineImplementsPairedRuns == Spec => ImplementsPairedRuns
<1>1. Init => Pairs!Init
  <2> SUFFICES ASSUME Init PROVE Runs = [t \in Tasks |-> [m \in Models |-> "waiting"]]
    BY DEF Pairs!Init
  <2>1. \A t \in Tasks, m \in Models : State(t, m) = "waiting"
    <3>1. again = {} /\ log = {} /\ receipt = {}
      BY DEF Init
    <3> QED
      BY <3>1 DEF State, Over
  <2> QED
    BY <2>1 DEF Runs
<1> QED
  BY <1>1, StepRefines, MarksAreExclusive, PTL DEF Spec, ImplementsPairedRuns, Pairs!Spec

-----------------------------------------------------------------------------
\* What the helpers never do: prepare data.
HelperStages ==
  /\ stage[Prewarm] \in {"off", "hashing", "pairs", "over", "failed", "killed"}
  /\ stage[Preflight] \in {"off", "pairs", "over", "failed", "killed"}
  /\ \A d \in Pipelines :
       stage[d] \in {"off", "identity", "combine", "writing", "data", "pairs", "over", "failed", "killed"}

\* One pipeline at a time.
Solo == \A d, e \in Pipelines : Alive(d) /\ Alive(e) => d = e

AuditLabel    == <<Main, "audit">>
TrainingLabel == <<Main, "training">>

\* A pipeline that combines, or is past it, works on the named experiment.
Identified == \A d \in Pipelines : stage[d] \in {"combine", "writing", "data", "pairs"} => mine[d] = experiment

\* Until the combined file is written nothing was audited or trained.
Uncombined == ~combined \/ \E d \in Pipelines : stage[d] = "writing"

Quiet ==
  /\ Uncombined => AuditLabel \notin log /\ data = {}
  /\ \A d \in Pipelines :
       /\ stage[d] = "writing" => combined
       /\ stage[d] \in {"data", "pairs"} => combined

\* What is combined, and from it audited and trained on, in this order.
Sourced ==
  /\ data = experiment \/ torn \/ data = {}
  /\ data \subseteq experiment
  /\ audited \subseteq data /\ (audited # {} => AuditLabel \in log)
  /\ trained \in {{}, audited} /\ (trained # {} => TrainingLabel \in log)

\* The training is launched after an audit that left enough.
Audited ==
  AuditLabel \in receipt /\ made[AuditLabel] /\ Cardinality(audited) >= Minimum

Gated ==
  /\ TrainingLabel \in log => Audited
  /\ \A d \in Drivers : todo[d][Main] # <<>> => d \in Pipelines
  /\ \A d \in Pipelines : todo[d][Main] = <<"training">> => Audited

\* What is listed, and then named, was exported.
Listed ==
  /\ exports \subseteq Exports /\ experiment \subseteq exports
  /\ mine = [d \in Drivers |-> mine[d]]
  /\ \A d \in Drivers : mine[d] \subseteq exports

DataInv == Listed /\ HelperStages /\ Solo /\ Identified /\ Quiet /\ Sourced /\ Gated

-----------------------------------------------------------------------------
\* An evaluation is launched, and left to do first, only for a run with a summary.
Summarised(t, m) == <<t, m>> \in receipt /\ made[<<t, m>>]

Grounded ==
  /\ \A l \in Labels : made[l] => l \in log
  /\ \A t \in Tasks, m \in Models :
       /\ <<t, Eval(m)>> \in log => Summarised(t, m)
       /\ \A d \in Drivers : (todo[d][t] # <<>> /\ Head(todo[d][t]) = Eval(m)) => Summarised(t, m)

\* What a driver has found good is over and was good.
Found ==
  /\ seen = [d \in Drivers |-> seen[d]]
  /\ \A d \in Drivers : \A l \in seen[d] : l \in receipt /\ made[l]

\* A driver has followed a label to its end.
Noted(d, l) == l \in receipt /\ (made[l] => l \in seen[d])

\* It has followed a run and, if there was a summary, its evaluation.
Told(d, t, m) == /\ Noted(d, <<t, m>>)
                 /\ made[<<t, m>>] => Noted(d, <<t, Eval(m)>>)

\* What a thread of the pairs has done when this is left.
Followed(d, t) ==
  LET f == First(t)
      g == Second(t)
      admitted == Noted(d, <<t, "quality">>) /\ made[<<t, "quality">>]
  IN  \/ todo[d][t] = <<"quality", f, Eval(f), g, Eval(g)>>
      \/ todo[d][t] = <<f, Eval(f), g, Eval(g)>> /\ admitted
      \/ todo[d][t] = <<Eval(f), g, Eval(g)>> /\ admitted /\ Noted(d, <<t, f>>)
      \/ todo[d][t] = <<g, Eval(g)>> /\ admitted /\ Told(d, t, f)
      \/ todo[d][t] = <<Eval(g)>> /\ admitted /\ Told(d, t, f) /\ Noted(d, <<t, g>>)
      \/ todo[d][t] = <<>> /\ Noted(d, <<t, "quality">>)
                           /\ (made[<<t, "quality">>] => Told(d, t, f) /\ Told(d, t, g))

Trained == TrainingLabel \in receipt /\ made[TrainingLabel]

MainFollowed(d) == todo[d][Main] = <<>> => Trained

Progress ==
  \A d \in Pipelines \ failed :
    /\ stage[d] = "data" => MainFollowed(d)
    /\ stage[d] = "pairs" => Trained /\ \A t \in split : Followed(d, t)

\* A report says of each task what was found.
Reported(t, good) ==
  /\ <<t, "quality">> \in receipt
  /\ <<t, "quality">> \in good <=> made[<<t, "quality">>]
  /\ made[<<t, "quality">>] =>
       \A m \in Models : /\ Over(t, m)
                         /\ <<t, Evaluation[m]>> \in good <=> made[<<t, Evaluation[m]>>]

Whole == report.written => Trained /\ \A t \in split : Reported(t, report.good)

ReportInv == Grounded /\ Found /\ Progress /\ Whole

-----------------------------------------------------------------------------
\* What a thread changes: its own stages, and the marks of its label.
LEMMA ThreadChanges ==
  ASSUME Paired, NEW d \in Drivers, NEW t \in Threads, Thread(d, t)
  PROVE  /\ Busy(d, t)
         /\ UNCHANGED <<files, outcome, prefetch, stage, mine, report, bounds>>
         /\ \A e \in Drivers, u \in Threads : <<e, u>> # <<d, t>> => todo'[e][u] = todo[e][u]
         /\ \/ Advance(d, t) /\ Label(d, t) \in receipt' /\ log' = log
            \/ Raise(d, t) /\ receipt' = receipt /\ log' = log
            \/ /\ UNCHANGED <<receipt, todo, failed, seen>>
               /\ log' = log \union {Label(d, t)}
<1>1. \/ Advance(d, t) /\ Label(d, t) \in receipt' /\ log' = log
      \/ Raise(d, t) /\ receipt' = receipt /\ log' = log
      \/ /\ UNCHANGED <<receipt, todo, failed, seen>>
         /\ log' = log \union {Label(d, t)}
  BY DEF Thread, Execute, Reap, Known, marks
<1>2. \A e \in Drivers, u \in Threads : <<e, u>> # <<d, t>> => todo'[e][u] = todo[e][u]
  BY <1>1 DEF Advance, Raise, Paired, Ordered
<1>3. Busy(d, t) /\ UNCHANGED <<files, outcome, prefetch, stage, mine, report, bounds>>
  BY DEF Thread, Execute, Reap
<1> QED
  BY <1>1, <1>2, <1>3

\* A pipeline is not a helper.
LEMMA DriverKinds ==
  /\ \A d \in Pipelines : d \in Drivers /\ d # Prewarm /\ d # Preflight
  /\ Prewarm \in Drivers /\ Preflight \in Drivers /\ Prewarm # Preflight
  /\ \A d \in Drivers : d \in Pipelines \/ d = Prewarm \/ d = Preflight
  /\ Main \in Threads /\ Main \notin Tasks /\ Tasks \subseteq Threads
BY PipelineAssumption DEF Drivers, Main, Threads

\* Where the drivers go.
LEMMA StagesMove ==
  ASSUME Waiting, HelperStages, [Next]_vars
  PROVE  \/ stage' = stage
         \/ \E d \in Pipelines : /\ stage[d] = "off" /\ (\A e \in Pipelines : ~Alive(e))
                                 /\ stage' = [stage EXCEPT ![d] = "identity"]
         \/ \E d \in Pipelines, s \in {"combine", "writing", "data", "pairs", "over", "failed"} :
               Alive(d) /\ stage' = [stage EXCEPT ![d] = s]
         \/ \E d \in Drivers : stage' = [stage EXCEPT ![d] = "killed"]
         \/ \E s \in {"hashing", "pairs", "over", "failed"} : stage' = [stage EXCEPT ![Prewarm] = s]
         \/ \E s \in {"pairs", "over", "failed"} : stage' = [stage EXCEPT ![Preflight] = s]
<1> USE DEF Goto
<1>1. ASSUME NEW d \in Pipelines, PipelineStarts(d)
      PROVE  /\ stage[d] = "off" /\ (\A e \in Pipelines : ~Alive(e))
             /\ stage' = [stage EXCEPT ![d] = "identity"]
  BY <1>1 DEF PipelineStarts
<1>2. ASSUME NEW d \in Pipelines, PipelineStep(d)
      PROVE  \E s \in {"combine", "writing", "data", "pairs", "over", "failed"} :
               Alive(d) /\ stage' = [stage EXCEPT ![d] = s]
  <2>1. CASE Identify(d) \/ CombineOpens(d)
    BY <2>1 DEF Identify, CombineOpens, Alive
  <2>2. CASE CombineWrites(d) \/ DataFails(d) \/ Join(d)
    BY <2>2 DEF CombineWrites, DataFails, Join, Alive
  <2>3. CASE Report(d)
    BY <2>3 DEF Report, ThreadsOver, Alive
  <2> QED
    BY <1>2, <2>1, <2>2, <2>3 DEF PipelineStep
<1>3. CASE PrewarmStarts \/ PrewarmIdentifies \/ PrewarmEnds
  BY <1>3 DEF PrewarmStarts, PrewarmIdentifies, PrewarmEnds
<1>4. CASE PreflightStarts \/ PreflightEnds
  BY <1>4 DEF PreflightStarts, PreflightEnds
<1>5. ASSUME NEW d \in Drivers, Kill(d)
      PROVE  stage' = [stage EXCEPT ![d] = "killed"]
  BY <1>5 DEF Kill
<1>6. ASSUME NEW d \in Drivers, NEW t \in Threads, Thread(d, t)
      PROVE  stage' = stage
  BY <1>6 DEF Thread, Execute, Reap
<1>7. ASSUME NEW l \in child, ChildEnds(l)
      PROVE  stage' = stage
  BY <1>7 DEF ChildEnds
<1>8. CASE UNCHANGED vars
  BY <1>8 DEF vars
<1> QED
  BY <1>1, <1>2, <1>3, <1>4, <1>5, <1>6, <1>7, <1>8 DEF Next

\* The helpers prepare no data, and one pipeline works at a time.
LEMMA StepSolo ==
  ASSUME Waiting, HelperStages, Solo, [Next]_vars
  PROVE  HelperStages' /\ Solo'
<1> USE DriverKinds DEF HelperStages, Solo, Alive, Waiting
<1>1. CASE stage' = stage
  BY <1>1
<1>2. ASSUME NEW d \in Pipelines, \A e \in Pipelines : ~Alive(e),
             stage' = [stage EXCEPT ![d] = "identity"]
      PROVE  HelperStages' /\ Solo'
  BY <1>2
<1>3. ASSUME NEW d \in Pipelines, NEW s \in {"combine", "writing", "data", "pairs", "over", "failed"},
             Alive(d), stage' = [stage EXCEPT ![d] = s]
      PROVE  HelperStages' /\ Solo'
  BY <1>3
<1>4. ASSUME NEW d \in Drivers, stage' = [stage EXCEPT ![d] = "killed"]
      PROVE  HelperStages' /\ Solo'
  BY <1>4
<1>5. ASSUME NEW s \in {"hashing", "pairs", "over", "failed"}, stage' = [stage EXCEPT ![Prewarm] = s]
      PROVE  HelperStages' /\ Solo'
  BY <1>5
<1>6. ASSUME NEW s \in {"pairs", "over", "failed"}, stage' = [stage EXCEPT ![Preflight] = s]
      PROVE  HelperStages' /\ Solo'
  BY <1>6
<1> QED
  BY <1>1, <1>2, <1>3, <1>4, <1>5, <1>6, StagesMove

-----------------------------------------------------------------------------
\* Which labels of the main thread there are.
LEMMA MainLabels ==
  /\ AuditLabel \in Labels /\ TrainingLabel \in Labels /\ AuditLabel # TrainingLabel
  /\ \A l \in Labels : l[2] = "audit" => l = AuditLabel
  /\ \A l \in Labels : l[2] = "training" => l = TrainingLabel
BY DEF AuditLabel, TrainingLabel, Labels

\* What a child leaves in the data.
LEMMA ChildLeaves ==
  ASSUME Marked, NEW l \in child, ChildEnds(l)
  PROVE  /\ l \in Labels /\ l \in log /\ l \notin receipt
         /\ UNCHANGED <<files, log, receipt, again, prefetch, stage, mine, threads, report, bounds>>
         /\ made' \in {made, [made EXCEPT ![l] = TRUE]}
         /\ audited' = audited \/ (l = AuditLabel /\ audited' \subseteq data)
         /\ trained' = trained \/ (l = TrainingLabel /\ trained' = audited)
<1>1. l \in Labels /\ l \in log /\ l \notin receipt
  BY DEF Marked
<1> QED
  BY <1>1, MainLabels DEF ChildEnds, Kept, outcome

\* The exports of an audited dataset stay as they are.
LEMMA AuditedStays ==
  ASSUME Paired, [Next]_vars, Audited
  PROVE  Audited'
<1>1. audited' = audited
  <2>1. ASSUME NEW l \in child, ChildEnds(l)
        PROVE  audited' = audited
    BY <2>1, ChildLeaves DEF Paired, Audited
  <2>2. ASSUME NEW d \in Drivers, NEW t \in Threads, Thread(d, t)
        PROVE  audited' = audited
    BY <2>2, ThreadChanges DEF outcome
  <2>3. CASE \E d \in Pipelines : PipelineStarts(d) \/ PipelineStep(d)
    BY <2>3 DEF PipelineStarts, PipelineStep, Identify, CombineOpens, CombineWrites, DataFails, Join, Report, outcome
  <2>4. CASE PrewarmStarts \/ PrewarmIdentifies \/ PrewarmEnds \/ PreflightStarts \/ PreflightEnds
    BY <2>4 DEF PrewarmStarts, PrewarmIdentifies, PrewarmEnds, PreflightStarts, PreflightEnds, outcome
  <2>5. CASE (\E d \in Drivers : Kill(d)) \/ UNCHANGED vars
    BY <2>5 DEF Kill, vars, outcome
  <2> QED
    BY <2>1, <2>2, <2>3, <2>4, <2>5 DEF Next
<1>2. AuditLabel \in receipt' /\ made'[AuditLabel]
  BY StepKeepsReceipts DEF Audited
<1> QED
  BY <1>1, <1>2 DEF Audited

\* What the main threads have left, unless they go on.
MainsStay == \A d \in Drivers : todo'[d][Main] \in {todo[d][Main], <<>>}

\* Exports are only added, and a pipeline lists them when it starts.
LEMMA StepListed ==
  ASSUME Listed, [Next]_vars
  PROVE  Listed'
<1> USE DriverKinds DEF Listed
<1>1. ASSUME NEW d \in Pipelines, PipelineStarts(d)
      PROVE  Listed'
  <2>1. exports' \subseteq Exports /\ exports \subseteq exports' /\ experiment' = experiment
    BY <1>1 DEF PipelineStarts
  <2>2. mine' = [mine EXCEPT ![d] = exports']
    BY <1>1 DEF PipelineStarts
  <2> QED
    BY <2>1, <2>2
<1>2. ASSUME NEW d \in Pipelines, PipelineStep(d)
      PROVE  Listed'
  BY <1>2 DEF PipelineStep, Identify, CombineOpens, CombineWrites, DataFails, Join, Report, files
<1>3. CASE PrewarmStarts \/ PrewarmIdentifies \/ PrewarmEnds \/ PreflightStarts \/ PreflightEnds
  BY <1>3 DEF PrewarmStarts, PrewarmIdentifies, PrewarmEnds, PreflightStarts, PreflightEnds, files
<1>4. ASSUME NEW d \in Drivers, NEW t \in Threads, Thread(d, t)
      PROVE  Listed'
  BY <1>4 DEF Thread, Execute, Reap, files
<1>5. ASSUME NEW l \in child, ChildEnds(l)
      PROVE  Listed'
  BY <1>5 DEF ChildEnds, files
<1>6. CASE (\E d \in Drivers : Kill(d)) \/ UNCHANGED vars
  BY <1>6 DEF Kill, vars, files
<1> QED
  BY <1>1, <1>2, <1>3, <1>4, <1>5, <1>6 DEF Next

\* The data is where it was, or nothing of it was touched.
LEMMA DataStays ==
  ASSUME Paired, DataInv, [Next]_vars, HelperStages', Solo', Listed', MainsStay,
         UNCHANGED <<experiment, combined, data, torn, audited, trained, log>>, Listed',
         \A d \in Pipelines : /\ stage'[d] \in {"combine", "writing", "data", "pairs"} => mine'[d] = experiment
                              /\ stage'[d] = "writing" => stage[d] = "writing"
                              /\ stage'[d] \in {"data", "pairs"} => combined
  PROVE  DataInv'
<1> USE DEF DataInv
<1>1. Identified'
  BY DEF Identified
<1>2. Quiet'
  BY DEF Quiet, Uncombined
<1>3. Sourced'
  BY DEF Sourced
<1>4. Gated'
  BY AuditedStays, DriverKinds DEF Gated, MainsStay
<1> QED
  BY <1>1, <1>2, <1>3, <1>4

\* A pipeline prepares the data.
LEMMA PipelineKeepsData ==
  ASSUME Paired, DataInv, [Next]_vars, HelperStages', Solo', Listed',
         NEW d \in Pipelines, PipelineStarts(d) \/ PipelineStep(d)
  PROVE  DataInv'
<1> USE DriverKinds
<1>0. /\ UNCHANGED <<audited, trained, made, log, receipt>>
      /\ Paired /\ HelperStages /\ Solo /\ Identified /\ Quiet /\ Sourced /\ Gated
      /\ stage = [e \in Drivers |-> stage[e]]
      /\ todo = [e \in Drivers |-> [t \in Threads |-> todo[e][t]]]
      /\ split \subseteq Tasks
  BY DEF DataInv, Paired, Waiting, Ordered, PipelineStarts, PipelineStep, Identify, CombineOpens, CombineWrites,
         DataFails, Join, Report, outcome, marks
<1>1. CASE PipelineStarts(d)
  <2>1. /\ stage' = [stage EXCEPT ![d] = "identity"]
        /\ \A e \in Pipelines : stage[e] \in {"off", "over", "failed", "killed"}
        /\ UNCHANGED <<experiment, combined, data, torn, todo>>
    BY <1>1 DEF PipelineStarts, Goto, Alive, threads
  <2>2. \A e \in Pipelines : stage'[e] \notin {"combine", "writing", "data", "pairs"}
    BY <1>0, <2>1
  <2> QED
    BY <1>0, <2>1, <2>2, DataStays DEF MainsStay
<1>2. CASE Identify(d)
  <2>1. /\ stage[d] = "identity" /\ UNCHANGED <<combined, data, torn, mine, todo>>
        /\ \/ experiment \in {{}, mine[d]} /\ experiment' = mine[d] /\ stage' = [stage EXCEPT ![d] = "combine"]
           \/ experiment' = experiment /\ stage' = [stage EXCEPT ![d] = "failed"]
    BY <1>2 DEF Identify, Goto, threads, SameExperiment
  <2>2. \A e \in Pipelines : e # d => stage'[e] = stage[e] /\ ~Alive(e)
    BY <1>0, <2>1 DEF Solo, Alive
  <2>3. Identified'
    BY <1>0, <2>1, <2>2 DEF Identified, Alive
  <2>4. Sourced'
    BY <1>0, <2>1 DEF Sourced
  <2>5. Quiet'
    BY <1>0, <2>1, <2>2 DEF Quiet, Uncombined, Alive
  <2>6. Gated'
    BY <1>0, <2>1, AuditedStays DEF Gated
  <2> QED
    BY <2>3, <2>4, <2>5, <2>6 DEF DataInv
<1>3. CASE CombineOpens(d)
  <2>1. /\ stage[d] = "combine" /\ UNCHANGED <<experiment, data, torn, mine>>
        /\ \/ combined /\ combined' /\ stage' = [stage EXCEPT ![d] = "data"]
           \/ ~combined /\ combined' /\ stage' = [stage EXCEPT ![d] = "writing"]
           \/ (combined' <=> combined) /\ stage' = [stage EXCEPT ![d] = "failed"]
        /\ todo' \in {todo, [todo EXCEPT ![d][Main] = <<"audit", "training">>]}
    <3>1. /\ stage[d] = "combine" /\ UNCHANGED <<experiment, data, torn, mine>>
          /\ combined' = (combined \/ stage'[d] = "writing")
          /\ \E s \in {"data", "writing", "failed"} :
               /\ stage' = [stage EXCEPT ![d] = s]
               /\ s = "data" => combined
               /\ s = "writing" => ~combined
          /\ todo' \in {todo, [todo EXCEPT ![d][Main] = <<"audit", "training">>]}
      BY <1>3 DEF CombineOpens, Goto
    <3>2. PICK s \in {"data", "writing", "failed"} :
            /\ stage' = [stage EXCEPT ![d] = s]
            /\ s = "data" => combined
            /\ s = "writing" => ~combined
      BY <3>1
    <3>3. stage'[d] = s
      BY <1>0, <3>2
    <3> QED
      BY <3>1, <3>2, <3>3
  <2>2. \A e \in Pipelines : e # d => stage'[e] = stage[e] /\ ~Alive(e)
    BY <1>0, <2>1 DEF Solo, Alive
  <2>3. Identified'
    BY <1>0, <2>1, <2>2 DEF Identified, Alive
  <2>4. Sourced'
    BY <1>0, <2>1 DEF Sourced
  <2>5. Quiet'
    <3>1. Uncombined' => Uncombined
      BY <1>0, <2>1, <2>2 DEF Uncombined, Alive
    <3>2. \A e \in Pipelines : stage'[e] \in {"writing", "data", "pairs"} => combined'
      BY <1>0, <2>1, <2>2 DEF Alive
    <3> QED
      BY <1>0, <2>1, <3>1, <3>2 DEF Quiet
  <2>6. Gated'
    <3>1. <<"audit", "training">> # <<"training">>
      OBVIOUS
    <3>2. \A e \in Drivers : todo'[e][Main] = todo[e][Main] \/ (e = d /\ todo'[e][Main] = <<"audit", "training">>)
      BY <1>0, <2>1
    <3> QED
      BY <1>0, <3>1, <3>2, AuditedStays DEF Gated
  <2> QED
    BY <2>3, <2>4, <2>5, <2>6 DEF DataInv
<1>4. CASE CombineWrites(d)
  <2>1. /\ stage[d] = "writing" /\ UNCHANGED <<experiment, combined, torn, mine>> /\ data' = mine[d]
        /\ stage' = [stage EXCEPT ![d] = "data"]
        /\ todo' \in {todo, [todo EXCEPT ![d][Main] = <<"audit", "training">>]}
    BY <1>4 DEF CombineWrites, Goto
  <2>2. \A e \in Pipelines : e # d => stage'[e] = stage[e] /\ ~Alive(e)
    BY <1>0, <2>1 DEF Solo, Alive
  <2>3. Identified'
    BY <1>0, <2>1, <2>2 DEF Identified, Alive
  <2>4. Sourced'
    BY <1>0, <2>1 DEF Sourced, Quiet, Uncombined, Identified
  <2>5. Quiet'
    BY <1>0, <2>1, <2>2 DEF Quiet, Uncombined, Alive
  <2>6. Gated'
    <3>1. <<"audit", "training">> # <<"training">>
      OBVIOUS
    <3>2. \A e \in Drivers : todo'[e][Main] = todo[e][Main] \/ (e = d /\ todo'[e][Main] = <<"audit", "training">>)
      BY <1>0, <2>1
    <3> QED
      BY <1>0, <3>1, <3>2, AuditedStays DEF Gated
  <2> QED
    BY <2>3, <2>4, <2>5, <2>6 DEF DataInv
<1>5. CASE DataFails(d) \/ Join(d) \/ Report(d)
  <2>1. /\ UNCHANGED <<experiment, combined, data, torn, mine>>
        /\ \E s \in {"pairs", "failed", "over"} : stage' = [stage EXCEPT ![d] = s] /\ (s = "pairs" => stage[d] = "data")
    BY <1>5 DEF DataFails, Join, Report, files, Goto
  <2>2. MainsStay
    <3>1. \/ todo' = todo
          \/ todo' = [todo EXCEPT ![d] = [t \in Threads |-> IF t \in split THEN Program(d, t) ELSE <<>>]]
      BY <1>5 DEF DataFails, Join, Report, threads
    <3> QED
      BY <1>0, <3>1 DEF MainsStay
  <2>3. \A e \in Pipelines : /\ stage'[e] \in {"combine", "writing", "data", "pairs"} => mine'[e] = experiment
                             /\ stage'[e] = "writing" => stage[e] = "writing"
                             /\ stage'[e] \in {"data", "pairs"} => combined
    BY <1>0, <2>1 DEF Identified, Quiet
  <2> QED
    BY <1>0, <2>1, <2>2, <2>3, DataStays
<1> QED
  BY <1>1, <1>2, <1>3, <1>4, <1>5 DEF PipelineStep

\* The helpers do not touch it.
LEMMA HelpersKeepData ==
  ASSUME Paired, DataInv, [Next]_vars, HelperStages', Solo', Listed',
         PrewarmStarts \/ PrewarmIdentifies \/ PrewarmEnds \/ PreflightStarts \/ PreflightEnds
  PROVE  DataInv'
<1> USE DriverKinds
<1>1. /\ UNCHANGED <<experiment, combined, data, torn, audited, trained, log, mine>>
      /\ \E d \in {Prewarm, Preflight}, s \in {"hashing", "pairs", "failed", "over"} : stage' = [stage EXCEPT ![d] = s]
      /\ \/ todo' = todo
         \/ \E d \in Drivers, S \in SUBSET Tasks :
              todo' = [todo EXCEPT ![d] = [t \in Threads |-> IF t \in S THEN Program(d, t) ELSE <<>>]]
  <2>1. CASE PrewarmStarts
    <3> DEFINE S == {t \in split : Eligible(t)}
    <3>1. todo' = [todo EXCEPT ![Prewarm] = [t \in Threads |-> IF t \in S THEN Program(Prewarm, t) ELSE <<>>]]
      BY <2>1 DEF PrewarmStarts
    <3>2. S \in SUBSET Tasks
      BY DEF Paired
    <3> HIDE DEF S
    <3> QED
      BY <2>1, <3>1, <3>2 DEF PrewarmStarts, Goto, files, outcome, marks
  <2>2. CASE PreflightStarts
    BY <2>2 DEF PreflightStarts, Goto, files, outcome, marks, Paired
  <2>3. CASE PrewarmIdentifies \/ PrewarmEnds \/ PreflightEnds
    BY <2>3 DEF PrewarmIdentifies, PrewarmEnds, PreflightEnds, Goto, files, outcome, marks, threads
  <2> QED
    BY <2>1, <2>2, <2>3
<1>2. MainsStay
  BY <1>1 DEF MainsStay, Paired, Ordered
<1>3. \A e \in Pipelines : stage'[e] = stage[e]
  BY <1>1 DEF Paired, Waiting
<1> QED
  BY <1>1, <1>2, <1>3, DataStays DEF DataInv, Identified, Quiet

\* A driver that dies keeps a part of what it wrote.
LEMMA KillKeepsData ==
  ASSUME Paired, DataInv, [Next]_vars, HelperStages', Solo', Listed', NEW d \in Drivers, Kill(d)
  PROVE  DataInv'
<1> USE DriverKinds
<1>0. /\ UNCHANGED <<experiment, combined, mine, audited, trained, log, receipt, made>>
      /\ Paired /\ HelperStages /\ Solo /\ Identified /\ Quiet /\ Sourced /\ Gated
      /\ stage = [e \in Drivers |-> stage[e]] /\ stage' = [stage EXCEPT ![d] = "killed"]
  BY DEF Kill, DataInv, Paired, Waiting, Goto, outcome, marks
<1>1. MainsStay
  BY DEF Kill, MainsStay, Paired, Ordered
<1>2. CASE UNCHANGED <<data, torn>>
  <2>1. \A e \in Pipelines : stage'[e] \in {stage[e], "killed"}
    BY <1>0
  <2> QED
    BY <1>0, <1>1, <1>2, <2>1, DataStays DEF Identified, Quiet
<1>3. CASE stage[d] = "writing" /\ data' \in SUBSET mine[d] /\ torn' = TRUE
  <2>1. d \in Pipelines /\ Uncombined /\ AuditLabel \notin log /\ mine[d] = experiment
    BY <1>0, <1>3 DEF HelperStages, Uncombined, Quiet, Identified
  <2>2. \A e \in Pipelines : e # d => stage'[e] = stage[e] /\ ~Alive(e)
    BY <1>0, <1>3, <2>1 DEF Solo, Alive
  <2>3. Identified'
    BY <1>0, <2>2 DEF Identified, Alive
  <2>4. Sourced'
    BY <1>0, <1>3, <2>1 DEF Sourced
  <2>5. Quiet'
    BY <1>0, <1>3, <2>1, <2>2 DEF Quiet, Uncombined, Alive
  <2>6. Gated'
    BY <1>0, <1>1, AuditedStays DEF Gated, MainsStay
  <2> QED
    BY <2>3, <2>4, <2>5, <2>6 DEF DataInv
<1> QED
  BY <1>2, <1>3 DEF Kill

\* The main thread launches the training after the audit has passed.
LEMMA MainGoesOn ==
  ASSUME Paired, NEW d \in Drivers, todo[d][Main] # <<>>, Advance(d, Main), Label(d, Main) \in receipt',
         made' = made, audited' = audited,
         IsFiniteSet(audited)
  PROVE  /\ todo'[d][Main] = <<"training">> => Audited'
         /\ todo'[d][Main] = <<>> => d \in failed' \/ (TrainingLabel \in receipt' /\ made'[TrainingLabel])
<1> USE DriverKinds
<1>1. todo[d][Main] = <<"audit", "training">> \/ todo[d][Main] = <<"training">>
  BY DEF Paired, Ordered, MainLeft
<1>2. CASE Refused(Main, Head(todo[d][Main]))
  <2>1. d \in failed' /\ todo'[d][Main] = <<>>
    BY <1>2 DEF Advance, Raise, Paired, Ordered
  <2>2. <<>> # <<"training">>
    OBVIOUS
  <2> QED
    BY <2>1, <2>2
<1>3. CASE ~Refused(Main, Head(todo[d][Main]))
  <2> DEFINE s == Head(todo[d][Main])
  <2>1. made[<<Main, s>>] /\ (s = "audit" => ~(Cardinality(audited) < Minimum)) /\ Label(d, Main) = <<Main, s>>
    BY <1>3 DEF Refused, Label
  <2>2. todo'[d][Main] = Tail(todo[d][Main])
    BY <1>3, <2>1 DEF Advance, Rest, Paired, Ordered
  <2>3. CASE todo[d][Main] = <<"audit", "training">>
    <3>1. s = "audit" /\ Tail(todo[d][Main]) = <<"training">>
      BY <2>3
    <3>2. Cardinality(audited) >= Minimum
      BY <2>1, <3>1, FS_CardinalityType, PipelineAssumption
    <3>3. <<"training">> # <<>>
      OBVIOUS
    <3> QED
      BY <2>1, <2>2, <3>1, <3>2, <3>3 DEF Audited, AuditLabel
  <2>4. CASE todo[d][Main] = <<"training">>
    <3>1. s = "training" /\ Tail(todo[d][Main]) = <<>> /\ <<>> # <<"training">>
      BY <2>4
    <3> QED
      BY <2>1, <2>2, <3>1 DEF TrainingLabel
  <2> QED
    BY <1>1, <2>3, <2>4
<1> QED
  BY <1>2, <1>3

\* A thread goes on.
LEMMA ThreadKeepsData ==
  ASSUME Paired, DataInv, [Next]_vars, HelperStages', Solo', Listed',
         NEW d \in Drivers, NEW t \in Threads, Thread(d, t)
  PROVE  DataInv'
<1> USE DriverKinds
<1>0. /\ Busy(d, t) /\ UNCHANGED <<experiment, combined, data, torn, audited, trained, made, stage, mine>>
      /\ \A e \in Drivers, u \in Threads : <<e, u>> # <<d, t>> => todo'[e][u] = todo[e][u]
  BY ThreadChanges DEF files, outcome
<1>1. Identified' /\ Sourced'
  <2>1. log \subseteq log'
    BY StepKeepsLogs
  <2> QED
    BY <1>0, <2>1 DEF Identified, Sourced, DataInv
<1>2. CASE t # Main
  <2>1. AuditLabel \in log' => AuditLabel \in log
    BY <1>2, ThreadChanges DEF Label, AuditLabel
  <2>2. TrainingLabel \in log' => TrainingLabel \in log
    BY <1>2, ThreadChanges DEF Label, TrainingLabel
  <2>3. Quiet'
    BY <1>0, <2>1 DEF DataInv, Quiet, Uncombined
  <2>4. \A e \in Drivers : todo'[e][Main] = todo[e][Main]
    BY <1>0, <1>2
  <2>5. Gated'
    BY <2>2, <2>4, AuditedStays DEF DataInv, Gated
  <2> QED
    BY <1>1, <2>3, <2>5 DEF DataInv
<1>3. CASE t = Main
  <2>1. d \in Pipelines /\ stage[d] = "data" /\ todo[d][Main] # <<>> /\ combined
    BY <1>0, <1>3 DEF DataInv, HelperStages, Quiet, Busy
  <2>2. ~Uncombined'
    BY <1>0, <2>1 DEF Uncombined, DataInv, Solo, Alive
  <2>3. Quiet'
    BY <1>0, <2>2 DEF DataInv, Quiet
  <2>4. IsFiniteSet(audited)
    <3>1. audited \subseteq Exports
      BY DEF DataInv, Sourced, Listed
    <3> QED
      BY <3>1, FS_Subset, PipelineAssumption
  <2>5. TrainingLabel \in log' => Audited'
    <3>1. CASE TrainingLabel \in log
      BY <3>1, AuditedStays DEF DataInv, Gated
    <3>2. CASE TrainingLabel \notin log /\ TrainingLabel \in log'
      <4>1. Label(d, Main) = TrainingLabel
        BY <1>3, <3>2, ThreadChanges
      <4>2. todo[d][Main] = <<"training">>
        <5>1. todo[d][Main] = <<"audit", "training">> => Head(todo[d][Main]) = "audit"
          OBVIOUS
        <5> QED
          BY <2>1, <4>1, <5>1 DEF Label, TrainingLabel, Paired, Ordered, MainLeft
      <4> QED
        BY <2>1, <4>2, AuditedStays DEF DataInv, Gated
    <3> QED
      BY <3>1, <3>2
  <2>6. todo'[d][Main] = <<"training">> => Audited'
    <3>1. CASE Advance(d, Main) /\ Label(d, Main) \in receipt'
      BY <1>0, <2>1, <2>4, <3>1, MainGoesOn
    <3>2. CASE Raise(d, Main)
      <4>1. todo'[d][Main] = <<>> /\ <<>> # <<"training">>
        BY <3>2 DEF Raise, Paired, Ordered
      <4> QED
        BY <4>1
    <3>3. CASE todo' = todo
      BY <2>1, <3>3, AuditedStays DEF DataInv, Gated
    <3> QED
      BY <1>3, <3>1, <3>2, <3>3, ThreadChanges
  <2>7. \A e \in Drivers : e # d => todo'[e][Main] = todo[e][Main]
    BY <1>0, <1>3
  <2>8. Gated'
    BY <2>1, <2>5, <2>6, <2>7, AuditedStays DEF DataInv, Gated
  <2> QED
    BY <1>1, <2>3, <2>8 DEF DataInv
<1> QED
  BY <1>2, <1>3

\* A child ends: the audit reads the combined file, the training the audited one.
LEMMA ChildKeepsData ==
  ASSUME Paired, DataInv, [Next]_vars, HelperStages', Solo', Listed', NEW l \in child, ChildEnds(l)
  PROVE  DataInv'
<1>0. /\ l \in log /\ l \notin receipt
      /\ UNCHANGED <<experiment, combined, data, torn, stage, mine, todo, log>>
      /\ audited' = audited \/ (l = AuditLabel /\ audited' \subseteq data)
      /\ trained' = trained \/ (l = TrainingLabel /\ trained' = audited)
      /\ AuditLabel # TrainingLabel
  BY ChildLeaves, MainLabels DEF Paired, files, threads
<1>1. Identified' /\ Quiet'
  BY <1>0 DEF DataInv, Identified, Quiet, Uncombined
<1>2. l = AuditLabel => TrainingLabel \notin log
  BY <1>0 DEF DataInv, Gated, Audited
<1>3. Sourced'
  BY <1>0, <1>2 DEF DataInv, Sourced
<1>4. Gated'
  BY <1>0, AuditedStays DEF DataInv, Gated
<1> QED
  BY <1>1, <1>3, <1>4 DEF DataInv

\* Every step keeps what is known of the data.
LEMMA StepData == Paired /\ DataInv /\ [Next]_vars => DataInv'
<1> SUFFICES ASSUME Paired, DataInv, [Next]_vars
             PROVE  DataInv'
  OBVIOUS
<1>0. HelperStages' /\ Solo' /\ Listed'
  BY StepSolo, StepListed DEF DataInv, Paired
<1>1. CASE UNCHANGED vars
  <2>1. UNCHANGED <<experiment, combined, data, torn, audited, trained, log, stage, mine, todo>>
    BY <1>1 DEF vars, files, outcome, marks, threads
  <2> QED
    BY <1>0, <2>1, DataStays DEF DataInv, Identified, Quiet, MainsStay
<1> QED
  BY <1>0, <1>1, PipelineKeepsData, HelpersKeepData, KillKeepsData, ThreadKeepsData, ChildKeepsData DEF Next

\* Nothing was combined, audited or trained on at first.
LEMMA InitData == Init => DataInv
<1> SUFFICES ASSUME Init PROVE DataInv
  OBVIOUS
<1>1. Listed /\ Sourced /\ Quiet /\ Identified
  BY PipelineAssumption, DriverKinds DEF Init, Listed, Sourced, Quiet, Identified, Uncombined, AuditLabel
<1>2. HelperStages /\ Solo
  BY DriverKinds DEF Init, HelperStages, Solo, Alive
<1>3. Gated
  <2>1. <<>> # <<"training">>
    OBVIOUS
  <2> QED
    BY <2>1, DriverKinds DEF Init, Gated
<1> QED
  BY <1>1, <1>2, <1>3 DEF DataInv

\* The checkpoint is trained on what the audit has kept, at least the minimum
\* of the exports that experiment.json names; all of these were audited, unless
\* a pipeline was killed while it combined them.
THEOREM TrainingIsOnFrozenExports == Spec => []TrainsOnFrozenExports
<1>1. DataInv => TrainsOnFrozenExports
  BY DEF DataInv, TrainsOnFrozenExports, Sourced, Gated, Audited
<1> QED
  BY InitPaired, StepPaired, InitData, StepData, <1>1, PTL DEF Spec

\* Every state of the formal experiment is well typed.
THEOREM PipelineTyping == Spec => []TypeOK
<1> DEFINE Prefetched == prefetch \in {"none", "started", "completed"}
<1>1. Init => Prefetched
  BY DEF Init
<1>2. Prefetched /\ [Next]_vars => Prefetched'
  <2> SUFFICES ASSUME Prefetched, [Next]_vars
               PROVE  Prefetched'
    OBVIOUS
  <2>1. ASSUME NEW d \in Drivers, NEW t \in Threads, Thread(d, t)
        PROVE  prefetch' = prefetch
    BY <2>1 DEF Thread, Execute, Reap
  <2>2. ASSUME NEW l \in child, ChildEnds(l)
        PROVE  prefetch' = prefetch
    BY <2>2 DEF ChildEnds
  <2>3. CASE \E d \in Pipelines : PipelineStarts(d) \/ PipelineStep(d)
    BY <2>3 DEF PipelineStarts, PipelineStep, Identify, CombineOpens, CombineWrites, DataFails, Join, Report
  <2>4. CASE PrewarmStarts \/ PrewarmIdentifies \/ PrewarmEnds \/ PreflightStarts \/ PreflightEnds
    BY <2>4 DEF PrewarmStarts, PrewarmIdentifies, PrewarmEnds, PreflightStarts, PreflightEnds
  <2>5. CASE (\E d \in Drivers : Kill(d)) \/ UNCHANGED vars
    BY <2>5 DEF Kill, vars
  <2> QED
    BY <2>1, <2>2, <2>3, <2>4, <2>5 DEF Next
<1>3. Paired /\ DataInv /\ Prefetched => TypeOK
  BY DEF Paired, Marked, Waiting, WaitsFor, DataInv, Listed, Sourced, TypeOK
<1> HIDE DEF Prefetched
<1> QED
  BY InitPaired, StepPaired, InitData, StepData, <1>1, <1>2, <1>3, PTL DEF Spec

-----------------------------------------------------------------------------
\* The stage a thread of a task has executed, and what that leaves to do.
Goes(t, x, s, y) ==
  LET f == First(t)
      g == Second(t)
  IN  /\ x = <<"quality">> => s = "quality" /\ y = <<>>
      /\ x = <<Eval(f)>> => s = Eval(f) /\ y = <<>>
      /\ x = <<Eval(g)>> => s = Eval(g) /\ y = <<>>
      /\ x = <<f, Eval(f)>> => s = f /\ y = IF made[<<t, f>>] THEN <<Eval(f)>> ELSE <<>>
      /\ x = <<"quality", f, Eval(f), g, Eval(g)>> =>
           s = "quality" /\ y = IF made[<<t, "quality">>] THEN <<f, Eval(f), g, Eval(g)>> ELSE <<>>
      /\ x = <<f, Eval(f), g, Eval(g)>> =>
           s = f /\ y = IF made[<<t, f>>] THEN <<Eval(f), g, Eval(g)>> ELSE <<g, Eval(g)>>
      /\ x = <<Eval(f), g, Eval(g)>> => s = Eval(f) /\ y = <<g, Eval(g)>>
      /\ x = <<g, Eval(g)>> => s = g /\ y = IF made[<<t, g>>] THEN <<Eval(g)>> ELSE <<>>

\* The rest of a program.
LEMMA RestOfProgram ==
  ASSUME NEW d \in Drivers, NEW t \in Tasks
  PROVE  Goes(t, todo[d][t], Head(todo[d][t]), Rest(d, t))
<1> DEFINE f == First(t)
           g == Second(t)
           x == todo[d][t]
           s == Head(x)
           y == Rest(d, t)
<1>0. /\ IsRun(f) /\ IsRun(g) /\ ~IsRun("quality") /\ f # "quality" /\ g # "quality"
      /\ \A m \in Models : Eval(m) # "quality" /\ ~IsRun(Eval(m))
      /\ f \in Models /\ g \in Models
  BY Stages DEF IsRun, Models
<1>1. ASSUME x = <<"quality">>
      PROVE  s = "quality" /\ y = <<>>
  <2>1. s = "quality" /\ Tail(x) = <<>>
    BY <1>1
  <2> QED
    BY <2>1, <1>0 DEF Rest
<1>2. ASSUME NEW m \in Models, x = <<Eval(m)>>
      PROVE  s = Eval(m) /\ y = <<>>
  <2>1. s = Eval(m) /\ Tail(x) = <<>>
    BY <1>2
  <2> QED
    BY <2>1, <1>0 DEF Rest
<1>3. ASSUME NEW m \in Models, IsRun(m), x = <<m, Eval(m)>>
      PROVE  s = m /\ y = IF made[<<t, m>>] THEN <<Eval(m)>> ELSE <<>>
  <2>1. s = m /\ Tail(x) = <<Eval(m)>> /\ Tail(<<Eval(m)>>) = <<>>
    BY <1>3
  <2> QED
    BY <2>1, <1>3 DEF Rest
<1>4. ASSUME x = <<"quality", f, Eval(f), g, Eval(g)>>
      PROVE  s = "quality" /\ y = IF made[<<t, "quality">>] THEN <<f, Eval(f), g, Eval(g)>> ELSE <<>>
  <2>1. s = "quality" /\ Tail(x) = <<f, Eval(f), g, Eval(g)>>
    BY <1>4
  <2> QED
    BY <2>1, <1>0 DEF Rest
<1>5. ASSUME x = <<f, Eval(f), g, Eval(g)>>
      PROVE  s = f /\ y = IF made[<<t, f>>] THEN <<Eval(f), g, Eval(g)>> ELSE <<g, Eval(g)>>
  <2>1. s = f /\ Tail(x) = <<Eval(f), g, Eval(g)>> /\ Tail(<<Eval(f), g, Eval(g)>>) = <<g, Eval(g)>>
    BY <1>5
  <2> QED
    BY <2>1, <1>0 DEF Rest
<1>6. ASSUME x = <<Eval(f), g, Eval(g)>>
      PROVE  s = Eval(f) /\ y = <<g, Eval(g)>>
  <2>1. s = Eval(f) /\ Tail(x) = <<g, Eval(g)>>
    BY <1>6
  <2> QED
    BY <2>1, <1>0 DEF Rest
<1> HIDE DEF x, y, s, f, g
<1>7. Goes(t, x, s, y)
  BY <1>0, <1>1, <1>2, <1>3, <1>4, <1>5, <1>6 DEF Goes, f, g
<1> QED
  BY <1>7 DEF x, y, s

\* An evaluation comes first only behind its run, with a summary.
LEMMA EvaluationsComeFirst ==
  ASSUME NEW t \in Tasks, NEW x \in Left(t), x # <<>>, NEW y, NEW s, Goes(t, x, s, y),
         NEW m \in Models, y # <<>>, Head(y) = Eval(m)
  PROVE  s = m /\ made[<<t, m>>]
<1> DEFINE f == First(t)
           g == Second(t)
<1>0. /\ f \in Models /\ g \in Models
      /\ \A n \in Models : Eval(n) \notin Models
      /\ \A n, k \in Models : Eval(n) = Eval(k) => n = k
  BY Stages DEF Models
<1> HIDE DEF f, g
<1>1. \/ s = f /\ made[<<t, f>>] /\ Head(y) = Eval(f)
      \/ s = g /\ made[<<t, g>>] /\ Head(y) = Eval(g)
      \/ Head(y) \in {f, g}
  <2>1. \/ x = <<"quality">> \/ x = <<Eval(f)>> \/ x = <<Eval(g)>> \/ x = <<f, Eval(f)>>
        \/ x = <<"quality", f, Eval(f), g, Eval(g)>>
        \/ x = <<f, Eval(f), g, Eval(g)>> \/ x = <<Eval(f), g, Eval(g)>> \/ x = <<g, Eval(g)>>
    BY DEF Left, f, g
  <2>2. CASE x = <<f, Eval(f)>>
    <3>1. made[<<t, f>>] /\ y = <<Eval(f)>> /\ s = f
      BY <2>2 DEF Goes, f, g
    <3> QED
      BY <3>1
  <2>3. CASE x = <<"quality", f, Eval(f), g, Eval(g)>>
    <3>1. y = <<f, Eval(f), g, Eval(g)>>
      BY <2>3 DEF Goes, f, g
    <3> QED
      BY <3>1
  <2>4. CASE x = <<f, Eval(f), g, Eval(g)>>
    <3>1. s = f /\ ((made[<<t, f>>] /\ y = <<Eval(f), g, Eval(g)>>) \/ y = <<g, Eval(g)>>)
      BY <2>4 DEF Goes, f, g
    <3> QED
      BY <3>1
  <2>5. CASE x = <<Eval(f), g, Eval(g)>>
    <3>1. y = <<g, Eval(g)>>
      BY <2>5 DEF Goes, f, g
    <3> QED
      BY <3>1
  <2>6. CASE x = <<g, Eval(g)>>
    <3>1. made[<<t, g>>] /\ y = <<Eval(g)>> /\ s = g
      BY <2>6 DEF Goes, f, g
    <3> QED
      BY <3>1
  <2>7. CASE x = <<"quality">> \/ x = <<Eval(f)>> \/ x = <<Eval(g)>>
    BY <2>7 DEF Goes, f, g
  <2> QED
    BY <2>1, <2>2, <2>3, <2>4, <2>5, <2>6, <2>7
<1> QED
  BY <1>0, <1>1

\* A program starts with the task or a run.
LEMMA ProgramsStart ==
  ASSUME NEW d \in Drivers, NEW t \in Tasks, NEW m \in Models
  PROVE  Head(Program(d, t)) # Eval(m)
<1>0. /\ Eval(m) # "quality" /\ Eval(m) # "base"
      /\ Eval("base") = "base-evaluate"
  BY Stages DEF Models
<1>1. CASE d = Prewarm
  <2>1. Program(d, t) = <<"base", Evaluation["base"]>>
    BY <1>1, PipelineAssumption DEF Program, Run
  <2> QED
    BY <1>0, <2>1
<1>2. CASE d = Preflight /\ d # Prewarm
  <2>1. Program(d, t) = <<"quality">>
    BY <1>2 DEF Program
  <2> QED
    BY <1>0, <2>1
<1>3. CASE d # Preflight /\ d # Prewarm
  <2>1. Program(d, t) = <<"quality", First(t), Eval(First(t)), Second(t), Eval(Second(t))>>
    BY <1>3 DEF Program, Pair, First, Second, Eval
  <2> QED
    BY <1>0, <2>1
<1> QED
  BY <1>1, <1>2, <1>3

\* How what is left of a task changes.
LEMMA TasksMove ==
  ASSUME Paired, [Next]_vars, NEW d \in Drivers, NEW t \in Tasks
  PROVE  \/ todo'[d][t] \in {todo[d][t], <<>>, Program(d, t)}
         \/ /\ todo[d][t] # <<>> /\ todo'[d][t] = Rest(d, t)
            /\ Label(d, t) \in receipt' /\ made' = made
<1> USE DriverKinds
<1>0. /\ todo = [e \in Drivers |-> [u \in Threads |-> todo[e][u]]] /\ t \in Threads /\ t # Main
  BY DEF Paired, Ordered
<1>1. CASE todo' = todo
  BY <1>1
<1>2. ASSUME NEW e \in Pipelines, PipelineStarts(e) \/ PipelineStep(e)
      PROVE  todo'[d][t] \in {todo[d][t], <<>>, Program(d, t)}
  <2>1. \/ todo' = todo
        \/ todo' = [todo EXCEPT ![e][Main] = <<"audit", "training">>]
        \/ todo' = [todo EXCEPT ![e] = [u \in Threads |-> IF u \in split THEN Program(e, u) ELSE <<>>]]
    BY <1>2 DEF PipelineStarts, PipelineStep, Identify, CombineOpens, CombineWrites, DataFails, Join, Report, threads
  <2>2. CASE todo' = [todo EXCEPT ![e][Main] = <<"audit", "training">>]
    <3>1. todo'[d][t] = todo[d][t]
      BY <1>0, <2>2
    <3> QED
      BY <3>1
  <2>3. CASE todo' = [todo EXCEPT ![e] = [u \in Threads |-> IF u \in split THEN Program(e, u) ELSE <<>>]]
    BY <1>0, <2>3
  <2> QED
    BY <1>1, <2>1, <2>2, <2>3
<1>3. CASE PrewarmStarts \/ PrewarmIdentifies \/ PrewarmEnds \/ PreflightStarts \/ PreflightEnds
  BY <1>0, <1>3 DEF PrewarmStarts, PrewarmIdentifies, PrewarmEnds, PreflightStarts, PreflightEnds, threads
<1>4. ASSUME NEW e \in Drivers, Kill(e)
      PROVE  todo'[d][t] \in {todo[d][t], <<>>, Program(d, t)}
  BY <1>0, <1>4 DEF Kill
<1>5. ASSUME NEW e \in Drivers, NEW u \in Threads, Thread(e, u)
      PROVE  \/ todo'[d][t] \in {todo[d][t], <<>>, Program(d, t)}
             \/ /\ todo[d][t] # <<>> /\ todo'[d][t] = Rest(d, t)
                /\ Label(d, t) \in receipt' /\ made' = made
  <2>1. CASE <<e, u>> # <<d, t>>
    BY <1>0, <1>5, <2>1, ThreadChanges
  <2>2. CASE e = d /\ u = t
    <3>1. todo[d][t] # <<>> /\ made' = made
      BY <1>5, <2>2, ThreadChanges DEF Busy, outcome
    <3>2. Advance(d, t) => todo'[d][t] \in {<<>>, Rest(d, t)}
      BY <1>0 DEF Advance, Raise
    <3>3. Raise(d, t) => todo'[d][t] = <<>>
      BY <1>0 DEF Raise
    <3> QED
      BY <1>5, <2>2, <3>1, <3>2, <3>3, ThreadChanges
  <2> QED
    BY <2>1, <2>2
<1>6. ASSUME NEW l \in child, ChildEnds(l)
      PROVE  todo' = todo
  BY <1>6 DEF ChildEnds, threads
<1>7. CASE UNCHANGED vars
  BY <1>1, <1>7 DEF vars, threads
<1> QED
  BY <1>1, <1>2, <1>3, <1>4, <1>5, <1>6, <1>7 DEF Next

\* Which labels are launched, and what they leave.
LEMMA LabelsMove ==
  ASSUME Paired, [Next]_vars
  PROVE  /\ \A l \in Labels : made'[l] => made[l] \/ l \in log
         /\ \/ log' = log
            \/ \E d \in Drivers, t \in Threads : todo[d][t] # <<>> /\ log' = log \union {Label(d, t)}
<1>1. ASSUME NEW d \in Drivers, NEW t \in Threads, Thread(d, t)
      PROVE  /\ made' = made
             /\ log' = log \/ (todo[d][t] # <<>> /\ log' = log \union {Label(d, t)})
  BY <1>1, ThreadChanges DEF Busy, outcome
<1>2. ASSUME NEW l \in child, ChildEnds(l)
      PROVE  log' = log /\ \A k \in Labels : made'[k] => made[k] \/ k \in log
  BY <1>2, ChildLeaves DEF Paired, Marked
<1>3. CASE \E d \in Pipelines : PipelineStarts(d) \/ PipelineStep(d)
  BY <1>3 DEF PipelineStarts, PipelineStep, Identify, CombineOpens, CombineWrites, DataFails, Join, Report, outcome, marks
<1>4. CASE PrewarmStarts \/ PrewarmIdentifies \/ PrewarmEnds \/ PreflightStarts \/ PreflightEnds
  BY <1>4 DEF PrewarmStarts, PrewarmIdentifies, PrewarmEnds, PreflightStarts, PreflightEnds, outcome, marks
<1>5. CASE (\E d \in Drivers : Kill(d)) \/ UNCHANGED vars
  BY <1>5 DEF Kill, vars, outcome, marks
<1> QED
  BY <1>1, <1>2, <1>3, <1>4, <1>5 DEF Next

\* An evaluation has a run with a summary.
LEMMA StepGrounded == Paired /\ Grounded /\ [Next]_vars => Grounded'
<1> SUFFICES ASSUME Paired, Grounded, [Next]_vars
             PROVE  Grounded'
  OBVIOUS
<1>0. log \subseteq log'
  BY StepKeepsLogs
<1>1. \A l \in Labels : made'[l] => l \in log'
  BY <1>0, LabelsMove DEF Grounded
<1>2. ASSUME NEW t \in Tasks, NEW m \in Models, Summarised(t, m)
      PROVE  Summarised(t, m)'
  BY <1>2, StepKeepsReceipts DEF Summarised
<1>3. ASSUME NEW t \in Tasks, NEW m \in Models, <<t, Eval(m)>> \in log'
      PROVE  Summarised(t, m)'
  <2>1. CASE <<t, Eval(m)>> \in log
    BY <1>2, <2>1 DEF Grounded
  <2>2. CASE <<t, Eval(m)>> \notin log
    <3>1. PICK d \in Drivers, u \in Threads : todo[d][u] # <<>> /\ Label(d, u) = <<t, Eval(m)>>
      BY <1>3, <2>2, LabelsMove
    <3>2. u = t /\ Head(todo[d][t]) = Eval(m)
      BY <3>1 DEF Label
    <3> QED
      BY <1>2, <3>1, <3>2 DEF Grounded
  <2> QED
    BY <2>1, <2>2
<1>4. ASSUME NEW t \in Tasks, NEW m \in Models, NEW d \in Drivers,
             todo'[d][t] # <<>>, Head(todo'[d][t]) = Eval(m)
      PROVE  Summarised(t, m)'
  <2>1. CASE todo'[d][t] = todo[d][t]
    BY <1>2, <1>4, <2>1 DEF Grounded
  <2>2. CASE todo'[d][t] = Program(d, t)
    BY <1>4, <2>2, ProgramsStart
  <2>3. CASE /\ todo[d][t] # <<>> /\ todo'[d][t] = Rest(d, t)
             /\ Label(d, t) \in receipt' /\ made' = made
    <3>1. todo[d][t] \in Left(t)
      BY DEF Paired, Ordered, InOrder
    <3>2. Head(todo[d][t]) = m /\ made[<<t, m>>]
      BY <1>4, <2>3, <3>1, RestOfProgram, EvaluationsComeFirst
    <3> QED
      BY <2>3, <3>2 DEF Summarised, Label
  <2> QED
    BY <1>4, <2>1, <2>2, <2>3, TasksMove
<1> QED
  BY <1>1, <1>3, <1>4 DEF Grounded

\* What was found good stays good.
LEMMA StepFound ==
  ASSUME Paired, Found, [Next]_vars
  PROVE  /\ Found'
         /\ failed \subseteq failed'
         /\ \A d \in Drivers : seen[d] \subseteq seen'[d]
<1>1. CASE seen' = seen /\ failed' = failed
  BY <1>1, StepKeepsReceipts DEF Found
<1>2. ASSUME NEW d \in Drivers, NEW t \in Threads, Thread(d, t)
      PROVE  /\ Found'
             /\ failed \subseteq failed'
             /\ \A e \in Drivers : seen[e] \subseteq seen'[e]
  <2>1. CASE seen' = seen
    <3>1. failed \subseteq failed'
      BY <1>2, ThreadChanges DEF Advance, Raise
    <3> QED
      BY <2>1, <3>1, StepKeepsReceipts DEF Found
  <2>2. CASE /\ seen' = [seen EXCEPT ![d] = @ \union {l \in {Label(d, t)} : made[l]}]
             /\ Label(d, t) \in receipt' /\ failed' = failed
    <3>1. made' = made
      BY <1>2, ThreadChanges DEF outcome
    <3>2. /\ seen' = [e \in Drivers |-> seen'[e]]
          /\ \A e \in Drivers : seen[e] \subseteq seen'[e]
          /\ \A e \in Drivers : \A l \in seen'[e] : l \in seen[e] \/ (l = Label(d, t) /\ made[l])
      BY <2>2 DEF Found
    <3> QED
      BY <2>2, <3>1, <3>2, StepKeepsReceipts DEF Found
  <2> QED
    BY <1>2, <2>1, <2>2, ThreadChanges DEF Advance, Raise
<1>3. ASSUME NEW l \in child, ChildEnds(l)
      PROVE  seen' = seen /\ failed' = failed
  BY <1>3 DEF ChildEnds, threads
<1>4. CASE \E d \in Pipelines : PipelineStarts(d) \/ PipelineStep(d)
  BY <1>1, <1>4 DEF PipelineStarts, PipelineStep, Identify, CombineOpens, CombineWrites, DataFails, Join, Report, threads
<1>5. CASE PrewarmStarts \/ PrewarmIdentifies \/ PrewarmEnds \/ PreflightStarts \/ PreflightEnds
  BY <1>1, <1>5 DEF PrewarmStarts, PrewarmIdentifies, PrewarmEnds, PreflightStarts, PreflightEnds, threads
<1>6. CASE (\E d \in Drivers : Kill(d)) \/ UNCHANGED vars
  BY <1>1, <1>6 DEF Kill, vars, threads
<1> QED
  BY <1>1, <1>2, <1>3, <1>4, <1>5, <1>6 DEF Next

-----------------------------------------------------------------------------
\* What a driver has followed stays followed.
LEMMA FollowedStays ==
  ASSUME Paired, Found, [Next]_vars, NEW d \in Drivers, NEW t \in Tasks, Followed(d, t),
         todo'[d][t] = todo[d][t]
  PROVE  Followed(d, t)'
<1>1. ASSUME NEW l, Noted(d, l)
      PROVE  Noted(d, l)' /\ made'[l] = made[l]
  BY <1>1, StepKeepsReceipts, StepFound DEF Noted
<1>2. ASSUME NEW m, Told(d, t, m)
      PROVE  Told(d, t, m)'
  BY <1>1, <1>2 DEF Told
<1> QED
  BY <1>1, <1>2 DEF Followed

\* A thread follows the label it has executed.
LEMMA FollowedGoesOn ==
  ASSUME Paired, Found, [Next]_vars, NEW d \in Drivers, NEW t \in Tasks, Followed(d, t),
         todo[d][t] # <<>>, todo'[d][t] = Rest(d, t), made' = made,
         NEW s, s = Head(todo[d][t]), Noted(d, <<t, s>>)'
  PROVE  Followed(d, t)'
<1>0. PICK f, g, x, y : f = First(t) /\ g = Second(t) /\ x = todo[d][t] /\ y = todo'[d][t]
  OBVIOUS
<1> DEFINE admitted == Noted(d, <<t, "quality">>) /\ made[<<t, "quality">>]
<1>1. ASSUME NEW l, Noted(d, l)
      PROVE  Noted(d, l)' /\ made'[l] = made[l]
  BY <1>1, StepKeepsReceipts, StepFound DEF Noted
<1>2. ASSUME NEW m, Told(d, t, m)
      PROVE  Told(d, t, m)'
  BY <1>1, <1>2 DEF Told
<1>3. Goes(t, x, s, y) /\ Noted(d, <<t, s>>)'
  BY <1>0, RestOfProgram
<1>4. admitted => admitted'
  BY <1>1
<1>5. \/ x = <<"quality", f, Eval(f), g, Eval(g)>>
      \/ x = <<f, Eval(f), g, Eval(g)>> /\ admitted
      \/ x = <<Eval(f), g, Eval(g)>> /\ admitted /\ Noted(d, <<t, f>>)
      \/ x = <<g, Eval(g)>> /\ admitted /\ Told(d, t, f)
      \/ x = <<Eval(g)>> /\ admitted /\ Told(d, t, f) /\ Noted(d, <<t, g>>)
  BY <1>0 DEF Followed
<1>6. ASSUME \/ y = <<f, Eval(f), g, Eval(g)>> /\ admitted'
             \/ y = <<Eval(f), g, Eval(g)>> /\ admitted' /\ Noted(d, <<t, f>>)'
             \/ y = <<g, Eval(g)>> /\ admitted' /\ Told(d, t, f)'
             \/ y = <<Eval(g)>> /\ admitted' /\ Told(d, t, f)' /\ Noted(d, <<t, g>>)'
             \/ y = <<>> /\ Noted(d, <<t, "quality">>)'
                         /\ (made'[<<t, "quality">>] => Told(d, t, f)' /\ Told(d, t, g)')
      PROVE  Followed(d, t)'
  BY <1>0, <1>6 DEF Followed
<1>7. CASE x = <<"quality", f, Eval(f), g, Eval(g)>>
  <2>1. s = "quality" /\ y = IF made[<<t, "quality">>] THEN <<f, Eval(f), g, Eval(g)>> ELSE <<>>
    BY <1>0, <1>3, <1>7 DEF Goes
  <2> QED
    BY <1>3, <1>6, <2>1
<1>8. CASE x = <<f, Eval(f), g, Eval(g)>> /\ admitted
  <2>1. s = f /\ y = IF made[<<t, f>>] THEN <<Eval(f), g, Eval(g)>> ELSE <<g, Eval(g)>>
    BY <1>0, <1>3, <1>8 DEF Goes
  <2>2. ~made[<<t, f>>] => Told(d, t, f)'
    BY <1>3, <2>1 DEF Told
  <2> QED
    BY <1>3, <1>4, <1>6, <1>8, <2>1, <2>2
<1>9. CASE x = <<Eval(f), g, Eval(g)>> /\ admitted /\ Noted(d, <<t, f>>)
  <2>1. s = Eval(f) /\ y = <<g, Eval(g)>>
    BY <1>0, <1>3, <1>9 DEF Goes
  <2>2. Told(d, t, f)'
    BY <1>1, <1>3, <1>9, <2>1 DEF Told
  <2> QED
    BY <1>4, <1>6, <1>9, <2>1, <2>2
<1>10. CASE x = <<g, Eval(g)>> /\ admitted /\ Told(d, t, f)
  <2>1. s = g /\ y = IF made[<<t, g>>] THEN <<Eval(g)>> ELSE <<>>
    BY <1>0, <1>3, <1>10 DEF Goes
  <2>2. ~made[<<t, g>>] => Told(d, t, g)'
    BY <1>3, <2>1 DEF Told
  <2> QED
    BY <1>2, <1>3, <1>4, <1>6, <1>10, <2>1, <2>2
<1>11. CASE x = <<Eval(g)>> /\ admitted /\ Told(d, t, f) /\ Noted(d, <<t, g>>)
  <2>1. s = Eval(g) /\ y = <<>>
    BY <1>0, <1>3, <1>11 DEF Goes
  <2>2. Told(d, t, g)'
    BY <1>1, <1>3, <1>11, <2>1 DEF Told
  <2> QED
    BY <1>2, <1>4, <1>6, <1>11, <2>1, <2>2
<1> QED
  BY <1>0, <1>5, <1>7, <1>8, <1>9, <1>10, <1>11

\* How a pipeline comes to its pairs, and what moves it there.
LEMMA PipelinesMove ==
  ASSUME Paired, HelperStages, [Next]_vars, NEW d \in Pipelines, stage'[d] \in {"data", "pairs"}
  PROVE  \/ Join(d)
         \/ stage'[d] = "data" /\ todo'[d][Main] = <<"audit", "training">>
         \/ stage'[d] = stage[d] /\ todo'[d] = todo[d]
         \/ stage'[d] = stage[d] /\ \E t \in Threads : Thread(d, t)
<1> USE DriverKinds
<1>0. /\ stage = [e \in Drivers |-> stage[e]]
      /\ todo = [e \in Drivers |-> [t \in Threads |-> todo[e][t]]]
  BY DEF Paired, Waiting, Ordered
<1>1. ASSUME NEW e \in Pipelines, PipelineStarts(e) \/ PipelineStep(e)
      PROVE  \/ Join(d)
             \/ stage'[d] = "data" /\ todo'[d][Main] = <<"audit", "training">>
             \/ stage'[d] = stage[d] /\ todo'[d] = todo[d]
  <2>1. CASE e # d
    <3>1. \E s : stage' = [stage EXCEPT ![e] = s]
      BY <1>1 DEF PipelineStarts, PipelineStep, Identify, CombineOpens, CombineWrites, DataFails, Join, Report, Goto
    <3>2. \/ todo' = todo \/ todo' = [todo EXCEPT ![e][Main] = <<"audit", "training">>]
          \/ todo' = [todo EXCEPT ![e] = [t \in Threads |-> IF t \in split THEN Program(e, t) ELSE <<>>]]
      BY <1>1 DEF PipelineStarts, PipelineStep, Identify, CombineOpens, CombineWrites, DataFails, Join, Report, threads
    <3> QED
      BY <1>0, <2>1, <3>1, <3>2
  <2>2. CASE e = d
    <3>1. CASE PipelineStarts(d) \/ Identify(d) \/ DataFails(d) \/ Report(d)
      <4>1. stage'[d] \in {"identity", "combine", "failed", "over"}
        BY <1>0, <3>1 DEF PipelineStarts, Identify, DataFails, Report, Goto
      <4> QED
        BY <4>1
    <3>2. CASE CombineOpens(d) \/ CombineWrites(d)
      <4>1. \/ stage' = [stage EXCEPT ![d] = "writing"]
            \/ stage' = [stage EXCEPT ![d] = "data"] /\ todo' = [todo EXCEPT ![d][Main] = <<"audit", "training">>]
        BY <3>2 DEF CombineOpens, CombineWrites, Goto
      <4> QED
        BY <1>0, <4>1
    <3> QED
      BY <1>1, <2>2, <3>1, <3>2 DEF PipelineStep
  <2> QED
    BY <2>1, <2>2
<1>2. CASE PrewarmStarts \/ PrewarmIdentifies \/ PrewarmEnds \/ PreflightStarts \/ PreflightEnds
  <2>1. stage'[d] = stage[d] /\ todo'[d] = todo[d]
    BY <1>0, <1>2 DEF PrewarmStarts, PrewarmIdentifies, PrewarmEnds, PreflightStarts, PreflightEnds, Goto, threads
  <2> QED
    BY <2>1
<1>3. ASSUME NEW e \in Drivers, Kill(e)
      PROVE  stage'[d] = stage[d] /\ todo'[d] = todo[d]
  BY <1>0, <1>3 DEF Kill, Goto
<1>4. ASSUME NEW e \in Drivers, NEW t \in Threads, Thread(e, t)
      PROVE  stage'[d] = stage[d] /\ (e # d => todo'[d] = todo[d])
  BY <1>0, <1>4 DEF Thread, Execute, Reap, Advance, Raise
<1>5. ASSUME NEW l \in child, ChildEnds(l)
      PROVE  stage' = stage /\ todo' = todo
  BY <1>5 DEF ChildEnds, threads
<1>6. CASE UNCHANGED vars
  BY <1>6 DEF vars, threads
<1> QED
  BY <1>1, <1>2, <1>3, <1>4, <1>5, <1>6 DEF Next

\* A pipeline that has not failed has followed what it has not left.
LEMMA StepProgress ==
  ASSUME Paired, DataInv, DataInv', Found, Progress, [Next]_vars
  PROVE  Progress'
<1> USE DriverKinds
<1>0. Trained => Trained'
  BY StepKeepsReceipts DEF Trained
<1>1. SUFFICES ASSUME NEW d \in Pipelines, d \notin failed', stage'[d] \in {"data", "pairs"}
               PROVE  /\ stage'[d] = "data" => MainFollowed(d)'
                      /\ stage'[d] = "pairs" => Trained' /\ \A t \in split' : Followed(d, t)'
  BY DEF Progress
<1>2. split' = split /\ split \subseteq Tasks
  BY SplitStays DEF Paired
<1>3. CASE Join(d)
  <2>1. /\ stage[d] = "data" /\ todo[d][Main] = <<>> /\ d \notin failed
        /\ \/ /\ stage' = [stage EXCEPT ![d] = "pairs"]
              /\ todo' = [todo EXCEPT ![d] = [t \in Threads |-> IF t \in split THEN Program(d, t) ELSE <<>>]]
           \/ stage' = [stage EXCEPT ![d] = "failed"]
    BY <1>3 DEF Join, Goto
  <2>2. stage'[d] = "pairs" /\ \A t \in split : todo'[d][t] = Program(d, t)
    BY <1>1, <1>2, <2>1 DEF Paired, Waiting, Ordered
  <2>3. Trained
    BY <2>1 DEF Progress, MainFollowed
  <2>4. \A t \in split : Program(d, t) = <<"quality", First(t), Eval(First(t)), Second(t), Eval(Second(t))>>
    BY DEF Program, Pair, First, Second, Eval
  <2> QED
    BY <1>0, <1>2, <2>2, <2>3, <2>4 DEF Followed
<1>4. CASE stage'[d] = "data" /\ todo'[d][Main] = <<"audit", "training">>
  <2>1. <<"audit", "training">> # <<>>
    OBVIOUS
  <2> QED
    BY <1>4, <2>1 DEF MainFollowed
<1>5. d \notin failed
  BY <1>1, StepFound
<1>6. CASE stage'[d] = stage[d] /\ todo'[d] = todo[d]
  BY <1>0, <1>1, <1>2, <1>5, <1>6, FollowedStays DEF Progress, MainFollowed
<1>7. ASSUME stage'[d] = stage[d], NEW t \in Threads, Thread(d, t)
      PROVE  /\ stage'[d] = "data" => MainFollowed(d)'
             /\ stage'[d] = "pairs" => Trained' /\ \A u \in split' : Followed(d, u)'
  <2>0. /\ Busy(d, t) /\ made' = made /\ audited' = audited
        /\ \A u \in Threads : u # t => todo'[d][u] = todo[d][u]
        /\ ~Raise(d, t)
    BY <1>1, <1>7, ThreadChanges DEF outcome, Raise
  <2>1. \/ Advance(d, t) /\ Label(d, t) \in receipt'
        \/ UNCHANGED <<todo, failed, seen>>
    BY <1>7, <2>0, ThreadChanges
  <2>2. CASE stage[d] = "data"
    <3>1. t = Main
      BY <2>0, <2>2 DEF Busy
    <3>2. IsFiniteSet(audited)
      <4>1. audited \subseteq Exports
        BY DEF DataInv, Sourced, Listed
      <4> QED
        BY <4>1, FS_Subset, PipelineAssumption
    <3>3. CASE Advance(d, t) /\ Label(d, t) \in receipt'
      BY <1>1, <2>0, <2>2, <1>7, <3>1, <3>2, <3>3, MainGoesOn DEF Busy, MainFollowed, Trained
    <3>4. CASE todo' = todo
      BY <1>0, <1>1, <1>5, <1>7, <2>2, <3>4 DEF Progress, MainFollowed
    <3> QED
      BY <2>1, <3>3, <3>4
  <2>3. CASE stage[d] = "pairs"
    <3>1. t \in Tasks /\ todo[d][t] # <<>>
      BY <2>0, <2>3 DEF Busy, Threads
    <3>2. Trained /\ \A u \in split : Followed(d, u)
      BY <1>5, <2>3 DEF Progress
    <3>3. ASSUME NEW u \in split
          PROVE  Followed(d, u)'
      <4>1. CASE todo'[d][u] = todo[d][u]
        BY <1>2, <3>2, <4>1, FollowedStays
      <4>2. CASE u = t /\ Advance(d, t) /\ Label(d, t) \in receipt'
        <5>1. ~Refused(t, Head(todo[d][t]))
          BY <3>1 DEF Refused
        <5>2. /\ todo'[d][t] = Rest(d, t)
              /\ made[Label(d, t)] => Label(d, t) \in seen'[d]
          BY <2>0, <4>2, <5>1 DEF Advance, Paired, Ordered, Found
        <5>3. PICK s : s = Head(todo[d][t])
          OBVIOUS
        <5>4. Noted(d, <<t, s>>)'
          BY <2>0, <4>2, <5>2, <5>3 DEF Noted, Label
        <5> QED
          BY <1>2, <2>0, <3>1, <3>2, <4>2, <5>2, <5>3, <5>4, FollowedGoesOn
      <4> QED
        BY <1>2, <2>0, <2>1, <4>1, <4>2 DEF Threads
    <3> QED
      BY <1>0, <1>2, <1>7, <2>3, <3>2, <3>3
  <2> QED
    BY <1>1, <1>7, <2>2, <2>3
<1> QED
  BY <1>1, <1>3, <1>4, <1>6, <1>7, PipelinesMove DEF DataInv

-----------------------------------------------------------------------------
\* A task is reported as it is found, and found as it is.
LEMMA FollowedIsReported ==
  ASSUME Paired, Grounded, Found, NEW d \in Drivers, NEW t \in Tasks, Followed(d, t), todo[d][t] = <<>>
  PROVE  Reported(t, seen[d])
<1>1. Noted(d, <<t, "quality">>) /\ (made[<<t, "quality">>] => Told(d, t, First(t)) /\ Told(d, t, Second(t)))
  <2>1. \A a, b : <<a, b>> # <<>>
    OBVIOUS
  <2>2. /\ \A a : <<a>> # <<>>
        /\ \A a, b, c : <<a, b, c>> # <<>>
        /\ \A a, b, c, e : <<a, b, c, e>> # <<>>
        /\ \A a, b, c, e, h : <<a, b, c, e, h>> # <<>>
    OBVIOUS
  <2> QED
    BY <2>1, <2>2 DEF Followed
<1>2. \A l \in seen[d] : l \in receipt /\ made[l]
  BY DEF Found
<1>3. ASSUME NEW m \in Models, Told(d, t, m)
      PROVE  /\ Over(t, m)
             /\ <<t, Evaluation[m]>> \in seen[d] <=> made[<<t, Evaluation[m]>>]
  <2>1. Over(t, m)
    BY <1>3 DEF Told, Noted, Over, Eval
  <2>2. made[<<t, Eval(m)>>] => made[<<t, m>>]
    <3>1. <<t, Eval(m)>> \in Labels
      BY DEF Labels, Models, Eval, Evaluation
    <3> QED
      BY <3>1 DEF Grounded, Summarised
  <2> QED
    BY <1>2, <1>3, <2>1, <2>2 DEF Told, Noted, Eval
<1>4. \A m \in Models : m = First(t) \/ m = Second(t)
  BY Stages DEF Models
<1> QED
  BY <1>1, <1>2, <1>3, <1>4 DEF Reported, Noted

\* What was reported stays as it is.
LEMMA ReportedStays ==
  ASSUME Paired, Grounded, Grounded', [Next]_vars, NEW good, NEW t \in Tasks, Reported(t, good)
  PROVE  Reported(t, good)'
<1>1. \A l \in receipt : l \in receipt' /\ made'[l] = made[l]
  BY StepKeepsReceipts
<1>2. ASSUME NEW m \in Models, Over(t, m),
             <<t, Evaluation[m]>> \in good <=> made[<<t, Evaluation[m]>>]
      PROVE  /\ Over(t, m)'
             /\ <<t, Evaluation[m]>> \in good <=> made'[<<t, Evaluation[m]>>]
  <2>1. Over(t, m)'
    BY <1>1, <1>2 DEF Over
  <2>2. CASE made[<<t, m>>]
    BY <1>1, <1>2, <2>1, <2>2 DEF Over
  <2>3. CASE ~made[<<t, m>>]
    <3>1. ~made'[<<t, m>>] /\ <<t, Eval(m)>> \in Labels
      BY <1>1, <1>2, <2>3 DEF Over, Labels, Models, Eval, Evaluation
    <3>2. ~made[<<t, Eval(m)>>]
      BY <2>3, <3>1 DEF Grounded, Summarised
    <3>3. ~made'[<<t, Eval(m)>>]
      BY <3>1 DEF Grounded, Summarised
    <3> QED
      BY <1>2, <2>1, <3>2, <3>3 DEF Eval
  <2> QED
    BY <2>2, <2>3
<1> QED
  BY <1>1, <1>2 DEF Reported

\* A report is written when the pairs of a pipeline are over.
LEMMA StepWhole ==
  ASSUME Paired, Paired', Grounded, Grounded', Found, Found', Progress, Whole, [Next]_vars
  PROVE  Whole'
<1> USE DriverKinds
<1>0. /\ Trained => Trained'
      /\ split' = split /\ split \subseteq Tasks
  BY StepKeepsReceipts, SplitStays DEF Trained, Paired
<1>1. CASE report' = report
  <2>1. PICK good : good = report.good
    OBVIOUS
  <2>2. \A t \in split : Reported(t, good) => Reported(t, good)'
    BY <1>0, ReportedStays
  <2> QED
    BY <1>0, <1>1, <2>1, <2>2 DEF Whole, Reported
<1>2. ASSUME NEW d \in Pipelines, Report(d), report' # report
      PROVE  Whole'
  <2>1. /\ stage[d] = "pairs" /\ d \notin failed /\ report' = [written |-> TRUE, good |-> seen[d]]
        /\ \A t \in Tasks : todo[d][t] = <<>>
        /\ todo' = todo /\ seen' = seen
    BY <1>2 DEF Report, ThreadsOver, threads
  <2>2. Trained /\ \A t \in split : Followed(d, t)
    BY <2>1 DEF Progress
  <2>3. PICK good : good = seen[d]
    OBVIOUS
  <2>4. ASSUME NEW t \in split
        PROVE  Reported(t, good)'
    BY <1>0, <2>1, <2>2, <2>3, FollowedIsReported, ReportedStays
  <2>5. report'.good = good /\ report'.written
    BY <2>1, <2>3
  <2> QED
    BY <1>0, <2>2, <2>4, <2>5 DEF Whole, Reported
<1>3. ASSUME NEW d \in Pipelines, PipelineStarts(d) \/ PipelineStep(d)
      PROVE  report' = report \/ Report(d)
  BY <1>3 DEF PipelineStarts, PipelineStep, Identify, CombineOpens, CombineWrites, DataFails, Join
<1>4. CASE PrewarmStarts \/ PrewarmIdentifies \/ PrewarmEnds \/ PreflightStarts \/ PreflightEnds
  BY <1>1, <1>4 DEF PrewarmStarts, PrewarmIdentifies, PrewarmEnds, PreflightStarts, PreflightEnds
<1>5. ASSUME NEW d \in Drivers, NEW t \in Threads, Thread(d, t)
      PROVE  report' = report
  BY <1>5 DEF Thread, Execute, Reap
<1>6. ASSUME NEW l \in child, ChildEnds(l)
      PROVE  report' = report
  BY <1>6 DEF ChildEnds
<1>7. CASE (\E d \in Drivers : Kill(d)) \/ UNCHANGED vars
  BY <1>1, <1>7 DEF Kill, vars
<1> QED
  BY <1>1, <1>2, <1>3, <1>4, <1>5, <1>6, <1>7 DEF Next

\* Every step keeps what is known of the report.
LEMMA StepReport ==
  Paired /\ Paired' /\ DataInv /\ DataInv' /\ ReportInv /\ [Next]_vars => ReportInv'
BY StepGrounded, StepFound, StepProgress, StepWhole DEF ReportInv

\* Nothing was found at first.
LEMMA InitReport == Init => ReportInv
<1> SUFFICES ASSUME Init PROVE ReportInv
  OBVIOUS
<1>1. Grounded
  BY DriverKinds DEF Init, Grounded
<1>2. Found
  BY DEF Init, Found
<1>3. Progress /\ Whole
  BY DriverKinds DEF Init, Progress, Whole
<1> QED
  BY <1>1, <1>2, <1>3 DEF ReportInv

\* A report counts what the disk holds, whatever pipelines and helpers ran the
\* labels it counts, and goes on to do so.
THEOREM ReportsAreWhole == Spec => []ReportIsWhole
<1>1. ReportInv => ReportIsWhole
  BY DEF ReportInv, Whole, ReportIsWhole, Trained, TrainingLabel, Reported
<1> QED
  BY InitPaired, StepPaired, InitData, StepData, InitReport, StepReport, <1>1, PTL DEF Spec
=============================================================================

------------------------ MODULE NativeTeacherProofs ------------------------
(***************************************************************************)
(* For all commands, versions and limits: what the native-tool teacher     *)
(* shows the provider are the receipts of the commands it asked for, group *)
(* by group and in order, and every warning of the harness is told once.   *)
(***************************************************************************)
EXTENDS NativeTeacherSafety, FiniteSetTheorems, NaturalsInduction, SequenceTheorems,
        WellFoundedInduction, TLAPS

-----------------------------------------------------------------------------
(* Sequences of sequences, one after the other.                            *)

\* A set of numbers that has zero and the successor of each of its members.
LEMMA InductiveSet ==
  ASSUME NEW S, 0 \in S, \A n \in Nat : n \in S => n + 1 \in S
  PROVE  Nat \subseteq S
<1> SUFFICES ASSUME Nat \ S # {} PROVE FALSE
  OBVIOUS
<1>1. Nat \ S \subseteq Nat
  OBVIOUS
<1>2. PICK u \in Nat \ S : \A v \in Nat \ S : <<v, u>> \notin OpToRel(<, Nat)
  BY <1>1, NatLessThanWellFounded, WFMin, Zenon
<1>3. u # 0
  BY <1>2
<1>4. u - 1 \in Nat /\ u - 1 < u /\ u - 1 + 1 = u
  BY <1>3
<1>5. u - 1 \in S
  BY <1>2, <1>4 DEF OpToRel
<1> QED
  BY <1>4, <1>5

\* The equation that determines what FlattenSeq computes, up to n.
IsFlat(f, ss, n) == f = [i \in 1 .. n |-> IF i = 1 THEN ss[i] ELSE f[i - 1] \o ss[i]]

LEMMA FlattenUnfolds ==
  ASSUME NEW ss, Len(ss) # 0
  PROVE  FlattenSeq(ss) = (CHOOSE f : IsFlat(f, ss, Len(ss)))[Len(ss)]
BY DEF FlattenSeq, IsFlat

LEMMA FlatAt ==
  ASSUME NEW ss, NEW n, NEW f, IsFlat(f, ss, n), NEW i \in 1 .. n
  PROVE  f[i] = IF i = 1 THEN ss[i] ELSE f[i - 1] \o ss[i]
BY DEF IsFlat

LEMMA FlatExists ==
  ASSUME NEW ss, NEW n \in Nat
  PROVE  \E f : IsFlat(f, ss, n)
<1> DEFINE S == {m \in Nat : \E f : IsFlat(f, ss, m)}
<1>1. 0 \in S
  <2> DEFINE f == [i \in 1 .. 0 |-> {}]
  <2>1. f = [i \in 1 .. 0 |-> IF i = 1 THEN ss[i] ELSE f[i - 1] \o ss[i]]
    OBVIOUS
  <2> QED
    BY <2>1 DEF IsFlat
<1>2. ASSUME NEW m \in Nat, m \in S
      PROVE  m + 1 \in S
  <2>1. PICK f : IsFlat(f, ss, m)
    BY <1>2
  <2> DEFINE g == [i \in 1 .. m + 1 |-> IF i = m + 1 THEN (IF m = 0 THEN ss[1] ELSE f[m] \o ss[m + 1]) ELSE f[i]]
  <2>2. ASSUME NEW i \in 1 .. m + 1
        PROVE  g[i] = IF i = 1 THEN ss[i] ELSE g[i - 1] \o ss[i]
    <3>1. CASE i = m + 1
      <4>1. CASE m = 0
        BY <3>1, <4>1
      <4>2. CASE m # 0
        <5>1. i - 1 = m /\ m \in 1 .. m + 1 /\ m # m + 1 /\ i # 1
          BY <3>1, <4>2
        <5>2. g[m] = f[m]
          BY <5>1
        <5> QED
          BY <3>1, <4>2, <5>1, <5>2
      <4> QED
        BY <4>1, <4>2
    <3>2. CASE i # m + 1
      <4>1. i \in 1 .. m /\ g[i] = f[i]
        BY <3>2
      <4>2. f[i] = IF i = 1 THEN ss[i] ELSE f[i - 1] \o ss[i]
        BY <2>1, <4>1 DEF IsFlat
      <4>3. i # 1 => g[i - 1] = f[i - 1]
        BY <4>1
      <4> QED
        BY <4>1, <4>2, <4>3
    <3> QED
      BY <3>1, <3>2
  <2> HIDE DEF g
  <2>3. g = [i \in 1 .. m + 1 |-> IF i = 1 THEN ss[i] ELSE g[i - 1] \o ss[i]]
    <3>1. g = [i \in 1 .. m + 1 |-> g[i]]
      BY DEF g
    <3> QED
      BY <2>2, <3>1
  <2>4. IsFlat(g, ss, m + 1)
    BY <2>3 DEF IsFlat
  <2> QED
    BY <2>4
<1>3. Nat \subseteq S
  <2> HIDE DEF S
  <2> QED
    BY <1>1, <1>2, InductiveSet
<1> QED
  BY <1>3

\* Its values depend on the sequences up to there, and are sequences.
LEMMA FlatIsDetermined ==
  ASSUME NEW T, NEW n \in Nat, NEW m \in Nat, n <= m,
         NEW ss, NEW tt, \A i \in 1 .. n : ss[i] \in Seq(T) /\ tt[i] = ss[i],
         NEW f, IsFlat(f, ss, n), NEW g, IsFlat(g, tt, m)
  PROVE  \A i \in 1 .. n : f[i] = g[i] /\ f[i] \in Seq(T)
<1> DEFINE S == {k \in Nat : \A i \in 1 .. n : i <= k => f[i] = g[i] /\ f[i] \in Seq(T)}
<1>1. 0 \in S
  OBVIOUS
<1>2. ASSUME NEW k \in Nat, k \in S
      PROVE  k + 1 \in S
  <2> SUFFICES ASSUME NEW i \in 1 .. n, i = k + 1
               PROVE  f[i] = g[i] /\ f[i] \in Seq(T)
    BY <1>2
  <2>1. /\ f[i] = IF i = 1 THEN ss[i] ELSE f[i - 1] \o ss[i]
        /\ g[i] = IF i = 1 THEN tt[i] ELSE g[i - 1] \o tt[i]
    <3>1. i \in 1 .. m
      OBVIOUS
    <3> QED
      BY <3>1, FlatAt
  <2>2. i # 1 => i - 1 \in 1 .. n /\ i - 1 <= k
    OBVIOUS
  <2>3. i # 1 => f[i - 1] = g[i - 1] /\ f[i - 1] \in Seq(T)
    BY <1>2, <2>2
  <2>4. ss[i] \in Seq(T) /\ tt[i] = ss[i]
    OBVIOUS
  <2>5. i # 1 => f[i - 1] \o ss[i] \in Seq(T)
    BY <2>3, <2>4
  <2> QED
    BY <2>1, <2>3, <2>4, <2>5
<1>3. Nat \subseteq S
  <2> HIDE DEF S
  <2> QED
    BY <1>1, <1>2, InductiveSet
<1>4. n \in S
  BY <1>3
<1> QED
  BY <1>4

LEMMA FlattenEmpty == FlattenSeq(<<>>) = <<>>
BY DEF FlattenSeq

\* A sequence that is added comes last.
LEMMA FlattenAppend ==
  ASSUME NEW T, NEW R, \A r \in R : r \in Seq(T), NEW ss \in Seq(R), NEW s \in R
  PROVE  /\ FlattenSeq(Append(ss, s)) = FlattenSeq(ss) \o s
         /\ FlattenSeq(ss) \in Seq(T)
<1>0. PICK n, m, tt : n = Len(ss) /\ m = n + 1 /\ tt = Append(ss, s)
  OBVIOUS
<1>1. /\ n \in Nat /\ m \in Nat /\ Len(tt) = m /\ m # 0 /\ m \in 1 .. m /\ m - 1 = n /\ n <= m /\ tt[m] = s
      /\ \A i \in 1 .. n : ss[i] \in R /\ tt[i] = ss[i]
  BY <1>0
<1>2. PICK g : g = (CHOOSE e : IsFlat(e, tt, m)) /\ IsFlat(g, tt, m)
  <2>1. \E e : IsFlat(e, tt, m)
    BY <1>1, FlatExists
  <2> QED
    BY <2>1
<1>3. FlattenSeq(tt) = g[m]
  BY <1>1, <1>2, FlattenUnfolds
<1>4. g[m] = IF m = 1 THEN tt[m] ELSE g[m - 1] \o tt[m]
  BY <1>1, <1>2, FlatAt
<1>5. CASE n = 0
  <2>1. ss = <<>>
    <3>1. Len(ss) = 0
      BY <1>0, <1>5
    <3> QED
      BY <3>1
  <2>2. FlattenSeq(ss) = <<>>
    BY <2>1, FlattenEmpty
  <2>3. g[m] = s
    BY <1>0, <1>1, <1>4, <1>5
  <2>4. s \in Seq(T)
    OBVIOUS
  <2>5. <<>> \o s = s /\ <<>> \in Seq(T)
    BY <2>4
  <2> QED
    BY <1>0, <1>3, <2>2, <2>3, <2>5
<1>6. CASE n # 0
  <2>1. PICK f : f = (CHOOSE e : IsFlat(e, ss, n)) /\ IsFlat(f, ss, n)
    <3>1. \E e : IsFlat(e, ss, n)
      BY <1>1, FlatExists
    <3> QED
      BY <3>1
  <2>2. FlattenSeq(ss) = f[n]
    BY <1>0, <1>6, <2>1, FlattenUnfolds
  <2>3. \A i \in 1 .. n : ss[i] \in Seq(T) /\ tt[i] = ss[i]
    BY <1>1
  <2>4. \A i \in 1 .. n : f[i] = g[i] /\ f[i] \in Seq(T)
    <3>1. n \in Nat /\ m \in Nat /\ n <= m
      BY <1>1
    <3>2. IsFlat(f, ss, n) /\ IsFlat(g, tt, m)
      BY <1>2, <2>1
    <3> QED
      BY <2>3, <3>1, <3>2, FlatIsDetermined
  <2>5. n \in 1 .. n /\ m # 1
    BY <1>0, <1>1, <1>6
  <2>6. f[n] = g[n] /\ f[n] \in Seq(T)
    BY <2>4, <2>5
  <2>7. g[m] = g[n] \o s
    BY <1>1, <1>4, <2>5
  <2> QED
    BY <1>0, <1>3, <2>2, <2>6, <2>7
<1> QED
  BY <1>1, <1>5, <1>6

-----------------------------------------------------------------------------
(* Types.                                                                  *)

Asks == Commands \cup {Finish}

Messages ==
  [kind : {"calls"}, calls : Seq(Asks)]
    \cup [kind : {"result"}, command : Commands, receipt : 0 .. MaxSteps]
    \cup [kind : {"reminders"}, texts : SUBSET Texts]

\* What the places of the process add to the types of the variables: when calls
\* wait to be dealt, whose receipt is awaited, and that a finish is alone.
Control ==
  /\ talk \in Seq(Messages)
  /\ pc \in {"deal", "post", "act"} => step < MaxSteps
  /\ pc # "end" => streak <= 1
  /\ pc = "deal" => queued # <<>> /\ pending = None
  /\ pc = "post" => queued = <<>> /\ pending = None
  /\ pc = "act" => /\ action \in Answers
                   /\ action \in Commands => pending = action
                   /\ action \notin Commands => pending = None /\ queued = <<>>
  /\ \A n \in DOMAIN queued : queued[n] = Finish => Len(queued) = 1
  /\ pc = "observe" => journal = <<>> /\ talk = <<>> /\ queued = <<>> /\ pending = None

Typing == TypeOK /\ Control

LEMMA AddOne ==
  ASSUME NEW S, IsFiniteSet(S), NEW x, NEW k \in Nat, Cardinality(S) <= k
  PROVE  IsFiniteSet(S \cup {x}) /\ Cardinality(S \cup {x}) <= k + 1
<1>1. Cardinality(S) \in Nat
  BY FS_CardinalityType
<1>2. /\ IsFiniteSet(S \cup {x})
      /\ Cardinality(S \cup {x}) = Cardinality(S) \/ Cardinality(S \cup {x}) = Cardinality(S) + 1
  BY FS_AddElement
<1> QED
  BY <1>1, <1>2

\* The calls that are none of the commands.
LEMMA Names ==
  /\ Inventory \notin Commands /\ Finish \notin Commands /\ Malformed \notin Commands /\ None \notin Commands
  /\ Finish # Malformed
PROOF
<1>1. Inventory \notin Commands /\ Finish \notin Commands /\ Malformed \notin Commands /\ None \notin Commands
  BY NativeTeacherAssumption
<1>2. ASSUME Finish = Malformed PROVE FALSE
  <2>1. {Inventory, Finish, Malformed, None} = {Inventory, Finish, None}
    BY <1>2
  <2>2. Cardinality({Inventory, Finish, None}) <= 3
    <3>1. IsFiniteSet({None}) /\ Cardinality({None}) <= 1
      BY FS_Singleton
    <3>2. PICK S : S = {None} \cup {Finish} /\ IsFiniteSet(S) /\ Cardinality(S) <= 1 + 1
      BY <3>1, AddOne
    <3>3. PICK k : k = 1 + 1 /\ k \in Nat /\ Cardinality(S) <= k
      BY <3>2
    <3>4. Cardinality(S \cup {Inventory}) <= k + 1
      BY <3>2, <3>3, AddOne
    <3>5. S \cup {Inventory} = {Inventory, Finish, None}
      BY <3>2
    <3> QED
      BY <3>3, <3>4, <3>5
  <2> QED
    BY <2>1, <2>2, NativeTeacherAssumption
<1> QED
  BY <1>1, <1>2

LEMMA InitTyping == Init => Typing
BY NativeTeacherAssumption DEF Init, Typing, TypeOK, Control

LEMMA StepTyping ==
  ASSUME Typing, [Next]_vars
  PROVE  Typing'
<1> USE NativeTeacherAssumption DEF Typing
<1>1. CASE Observe
  <2>1. [id |-> 0, command |-> Inventory] \in [id : 0 .. MaxSteps, command : Commands \cup {Inventory}]
    OBVIOUS
  <2>2. journal' \in Seq([id : 0 .. MaxSteps, command : Commands \cup {Inventory}])
    BY <1>1, <2>1 DEF Observe, TypeOK
  <2>3. journal = <<>> /\ journal' = Append(journal, [id |-> 0, command |-> Inventory])
    BY <1>1 DEF Observe, Control
  <2>4. seen' \subseteq {journal'[n].id : n \in DOMAIN journal'}
    BY <1>1, <2>3 DEF Observe, TypeOK, teacher
  <2>5. TypeOK'
    BY <1>1, <2>2, <2>4 DEF Observe, TypeOK, teacher
  <2>6. Control'
    BY <1>1 DEF Observe, Control, teacher, TypeOK
  <2> QED
    BY <2>5, <2>6
<1>2. CASE Stop
  BY <1>2 DEF Stop, End, TypeOK, Control, teacher
<1>3. CASE SyncRefuses
  BY <1>3 DEF SyncRefuses, End, TypeOK, Control, teacher
<1>4. CASE Sync
  <2>1. ASSUME pending # None
        PROVE  /\ journal # <<>> /\ Len(journal) \in DOMAIN journal /\ Last(journal) = journal[Len(journal)]
               /\ Last(journal).id \in 0 .. MaxSteps
               /\ Result(pending, Last(journal).id) \in Messages
    <3>1. \E n \in DOMAIN journal : TRUE
      BY <1>4, <2>1 DEF Sync, Acknowledged, Unseen
    <3>2. Len(journal) \in DOMAIN journal /\ Last(journal) = journal[Len(journal)] /\ journal # <<>>
      BY <3>1 DEF TypeOK, Last
    <3>3. Last(journal) \in [id : 0 .. MaxSteps, command : Commands \cup {Inventory}]
      <4>1. journal \in Seq([id : 0 .. MaxSteps, command : Commands \cup {Inventory}])
        BY DEF TypeOK
      <4>2. journal[Len(journal)] \in [id : 0 .. MaxSteps, command : Commands \cup {Inventory}]
        <5>1. \A R : journal \in Seq(R) => \A n \in DOMAIN journal : journal[n] \in R
          OBVIOUS
        <5> QED
          BY <3>2, <4>1, <5>1
      <4> QED
        BY <3>2, <4>2
    <3>4. pending \in Commands
      BY <2>1 DEF TypeOK
    <3> QED
      BY <3>2, <3>3, <3>4 DEF Result, Messages
  <2>2. seen' \subseteq {journal'[n].id : n \in DOMAIN journal'}
    BY <1>4, <2>1 DEF Sync, TypeOK, runtime
  <2>3. heard' \subseteq Texts /\ buffered' \subseteq heard'
    BY <1>4 DEF Sync, TypeOK, NewlySaid
  <2>4. Answered \in Seq(Messages)
    BY <2>1 DEF Answered, Control
  <2>5. Reminders(buffered \cup NewlySaid) \in Messages
    BY DEF TypeOK, NewlySaid, Reminders, Messages
  <2>6. talk' \in Seq(Messages)
    BY <1>4, <2>4, <2>5 DEF Sync
  <2>7. TypeOK'
    BY <1>4, <2>2, <2>3 DEF Sync, TypeOK, runtime
  <2>8. Control'
    BY <1>4, <2>6 DEF Sync, TypeOK, Control, runtime
  <2> QED
    BY <2>7, <2>8
<1>5. CASE Deal
  <2>1. /\ queued # <<>> /\ Len(queued) > 0 /\ Head(queued) = queued[1] /\ Head(queued) \in Asks
        /\ Len(Tail(queued)) = Len(queued) - 1 /\ Tail(queued) \in Seq(Asks)
        /\ \A n \in DOMAIN Tail(queued) : Tail(queued)[n] = queued[n + 1] /\ n + 1 \in DOMAIN queued
    BY <1>5 DEF Deal, Control, TypeOK, Asks
  <2>2. Head(queued) = Finish => Tail(queued) = <<>>
    <3>1. ASSUME Head(queued) = Finish PROVE Len(Tail(queued)) = 0
      BY <2>1, <3>1 DEF Control
    <3> QED
      BY <2>1, <3>1
  <2>3. \A n \in DOMAIN Tail(queued) : Tail(queued)[n] # Finish
    <3> SUFFICES ASSUME NEW n \in DOMAIN Tail(queued), Tail(queued)[n] = Finish
                 PROVE  FALSE
      OBVIOUS
    <3>1. n + 1 \in DOMAIN queued /\ queued[n + 1] = Finish
      BY <2>1
    <3>2. Len(queued) = 1
      BY <3>1 DEF Control
    <3> QED
      BY <2>1, <3>2
  <2>4. /\ action' = Head(queued) /\ queued' = Tail(queued) /\ pc' = "act"
        /\ pending' = IF Head(queued) = Finish THEN None ELSE Head(queued)
    BY <1>5 DEF Deal, AfterDealing
  <2>5. TypeOK'
    BY <1>5, <2>1, <2>4 DEF Deal, TypeOK, runtime, Asks, Answers
  <2>6. Control'
    BY <1>5, <2>1, <2>2, <2>3, <2>4, Names DEF Deal, Control, runtime, Asks, Answers
  <2> QED
    BY <2>5, <2>6
<1>6. CASE PostFails
  BY <1>6 DEF PostFails, End, TypeOK, Control, teacher
<1>7. ASSUME NEW calls \in SeqOf(Commands \cup {Finish}, MaxCalls + 1), PostAnswers(calls)
      PROVE  Typing'
  <2>1. calls \in Seq(Asks)
    BY DEF SeqOf, Asks
  <2>2. CASE WellFormed(calls)
    <3>1. Len(calls) \in 1 .. MaxCalls /\ \A n \in DOMAIN calls : calls[n] = Finish => Len(calls) = 1
      <4>1. Len(calls) \in 1 .. MaxCalls
        BY <2>2 DEF WellFormed
      <4>2. Len(calls) = 1 \/ Len(calls) > 1
        <5>1. PICK l : l = Len(calls)
          OBVIOUS
        <5>2. l \in Nat /\ l \in 1 .. MaxCalls
          BY <2>1, <4>1, <5>1
        <5>3. MaxCalls \in Nat
          OBVIOUS
        <5> QED
          BY <5>1, <5>2, <5>3
      <4> QED
        BY <2>2, <4>1, <4>2 DEF WellFormed
    <3>2. Calls(calls) \in Messages
      BY <2>1 DEF Calls, Messages
    <3>3. TypeOK'
      BY <1>7, <2>1, <2>2, <3>1 DEF PostAnswers, TypeOK, runtime, Asks
    <3>4. Control'
      BY <1>7, <2>1, <2>2, <3>1, <3>2 DEF PostAnswers, Control, runtime
    <3> QED
      BY <3>3, <3>4
  <2>3. CASE ~WellFormed(calls)
    <3>1. TypeOK'
      BY <1>7, <2>3 DEF PostAnswers, TypeOK, runtime, Answers
    <3>2. Control'
      BY <1>7, <2>3, Names DEF PostAnswers, Control, runtime, Answers
    <3> QED
      BY <3>1, <3>2
  <2> QED
    BY <2>2, <2>3
<1>8. ASSUME NEW ok \in BOOLEAN, NEW compress \in BOOLEAN, NEW v \in Versions, Execute(ok, v, compress)
      PROVE  Typing'
  <2>1. step \in Nat /\ step + 1 \in 0 .. MaxSteps /\ step \in 0 .. MaxSteps
    BY <1>8 DEF Execute, TypeOK, Control
  <2>2. [id |-> step + 1, command |-> action] \in [id : 0 .. MaxSteps, command : Commands \cup {Inventory}]
    BY <1>8, <2>1 DEF Execute
  <2>3. /\ journal' \in Seq([id : 0 .. MaxSteps, command : Commands \cup {Inventory}])
        /\ \A n \in DOMAIN journal : n \in DOMAIN journal' /\ journal'[n] = journal[n]
    BY <1>8, <2>2 DEF Execute, TypeOK
  <2>4. seen' \subseteq {journal'[n].id : n \in DOMAIN journal'}
    BY <1>8, <2>3 DEF Execute, TypeOK, teacher
  <2>5. said' \subseteq Texts
    <3>1. Checkpoint(step) \in Texts /\ Failed \in Texts
      BY <2>1 DEF Texts
    <3> QED
      BY <1>8, <3>1 DEF Execute, TypeOK
  <2>6. ran' \subseteq Commands \X Versions
    BY <1>8 DEF Execute, TypeOK, Signature
  <2>7. TypeOK'
    BY <1>8, <2>1, <2>3, <2>4, <2>5, <2>6 DEF Execute, NextStep, TypeOK, teacher
  <2>8. Control'
    BY <1>8 DEF Execute, NextStep, Control, teacher
  <2> QED
    BY <2>7, <2>8
<1>9. CASE RefuseRepetition
  <2>1. step + 1 \in 0 .. MaxSteps /\ Signature \in Commands \X Versions /\ Repetition \in Texts
    BY <1>9 DEF RefuseRepetition, TypeOK, Control, Signature, Texts
  <2>2. TypeOK'
    BY <1>9, <2>1 DEF RefuseRepetition, NextStep, End, TypeOK, teacher
  <2>3. Control'
    BY <1>9 DEF RefuseRepetition, NextStep, End, Control, teacher
  <2> QED
    BY <2>2, <2>3
<1>10. CASE RejectProtocol
  <2>1. step + 1 \in 0 .. MaxSteps /\ Unparsed \in Texts /\ streak \in 0 .. 1
    BY <1>10 DEF RejectProtocol, TypeOK, Control, Texts
  <2>2. TypeOK'
    BY <1>10, <2>1 DEF RejectProtocol, NextStep, End, TypeOK, teacher
  <2>3. Control'
    BY <1>10, <2>1 DEF RejectProtocol, NextStep, End, Control, teacher
  <2> QED
    BY <2>2, <2>3
<1>11. CASE Complete
  BY <1>11 DEF Complete, End, TypeOK, Control, teacher
<1>12. CASE UNCHANGED vars
  BY <1>12 DEF vars, runtime, teacher, TypeOK, Control
<1> QED
  BY <1>1, <1>2, <1>3, <1>4, <1>5, <1>6, <1>7, <1>8, <1>9, <1>10, <1>11, <1>12 DEF Next

-----------------------------------------------------------------------------
(* The conversation and the journal, of any state.                         *)

Receipts      == [id : 0 .. MaxSteps, command : Commands \cup {Inventory}]
Said(t, kind) == {n \in DOMAIN t : t[n].kind = kind}
Agents(j)     == {r \in DOMAIN j : j[r].command # Inventory}

\* The receipts of the agent that the provider was not shown.
Backlog(j, s) == {r \in Agents(j) : j[r].id \notin s}

\* Message n is the result of receipt r, and the results before it are those of
\* the receipts before r.
Shows(t, n, j, r) ==
  /\ j[r].id = t[n].receipt /\ j[r].command = t[n].command
  /\ {t[m].receipt : m \in {k \in Said(t, "result") : k < n}} = {j[q].id : q \in {k \in Agents(j) : k < r}}

\* The results are those of s, in the order of the receipts and without a gap.
Receipted(t, j, s) ==
  /\ s = {t[n].receipt : n \in Said(t, "result")}
  /\ \A n \in Said(t, "result") : \E r \in Agents(j) : Shows(t, n, j, r)

\* A message that is added.
LEMMA SaidAppend ==
  ASSUME NEW t \in Seq(Messages), NEW m \in Messages, NEW u, u = Append(t, m), NEW l, l = Len(t)
  PROVE  /\ l \in Nat /\ Len(u) = l + 1 /\ DOMAIN t = 1 .. l /\ DOMAIN u = 1 .. l + 1
         /\ u[l + 1] = m /\ \A n \in 1 .. l : u[n] = t[n]
         /\ \A kind : Said(u, kind) = Said(t, kind) \cup (IF m.kind = kind THEN {l + 1} ELSE {})
<1>1. /\ l \in Nat /\ Len(u) = l + 1 /\ DOMAIN t = 1 .. l /\ DOMAIN u = 1 .. l + 1
      /\ u[l + 1] = m /\ \A n \in 1 .. l : u[n] = t[n]
  OBVIOUS
<1>2. ASSUME NEW kind
      PROVE  Said(u, kind) = Said(t, kind) \cup (IF m.kind = kind THEN {l + 1} ELSE {})
  BY <1>1 DEF Said
<1> QED
  BY <1>1, <1>2

LEMMA ResultAdded ==
  ASSUME NEW t \in Seq(Messages), NEW j \in Seq(Receipts), NEW s, Receipted(t, j, s),
         NEW r, r = Len(j), Backlog(j, s) = {r}, NEW c, NEW id, j[r].command = c, j[r].id = id,
         Result(c, id) \in Messages
  PROVE  Receipted(Append(t, Result(c, id)), j, s \cup {id})
<1>0. PICK u, l : u = Append(t, Result(c, id)) /\ l = Len(t)
  OBVIOUS
<1> DEFINE R == Said(t, "result")
<1>1. /\ l \in Nat /\ DOMAIN t = 1 .. l /\ u[l + 1].receipt = id /\ u[l + 1].command = c
      /\ Said(u, "result") = R \cup {l + 1}
      /\ \A n \in R : u[n] = t[n] /\ n \in 1 .. l
  <2>1. Result(c, id).kind = "result" /\ Result(c, id).receipt = id /\ Result(c, id).command = c
    BY DEF Result
  <2> QED
    BY <1>0, <2>1, SaidAppend DEF Said
<1>2. s = {t[n].receipt : n \in R}
  BY DEF Receipted
<1> HIDE DEF R
<1>3. s \cup {id} = {u[n].receipt : n \in Said(u, "result")}
  BY <1>1, <1>2
<1>4. {u[m].receipt : m \in {k \in Said(u, "result") : k < l + 1}} = s
  <2>1. {k \in Said(u, "result") : k < l + 1} = R
    BY <1>1
  <2> QED
    BY <1>1, <1>2, <2>1
<1>5. r \in Agents(j) /\ id \notin s
  BY DEF Backlog
<1>6. {j[q].id : q \in {k \in Agents(j) : k < r}} = s
  <2>1. ASSUME NEW q \in Agents(j), q < r
        PROVE  j[q].id \in s
    <3>1. q # r
      BY <2>1, <1>5 DEF Agents
    <3> QED
      BY <3>1 DEF Backlog
  <2>2. ASSUME NEW i \in s
        PROVE  i \in {j[q].id : q \in {k \in Agents(j) : k < r}}
    <3>1. PICK n \in R : i = t[n].receipt
      BY <1>2
    <3>2. PICK q \in Agents(j) : j[q].id = i
      BY <3>1 DEF Receipted, R, Shows
    <3>3. q # r
      BY <1>5, <3>2
    <3>4. q < r
      BY <3>3 DEF Agents
    <3> QED
      BY <3>2, <3>4
  <2> QED
    BY <2>1, <2>2
<1>7. ASSUME NEW n \in Said(u, "result")
      PROVE  \E q \in Agents(j) : Shows(u, n, j, q)
  <2>1. CASE n = l + 1
    <3>1. {u[m].receipt : m \in {k \in Said(u, "result") : k < n}} = {j[p].id : p \in {k \in Agents(j) : k < r}}
      BY <1>4, <1>6, <2>1
    <3>2. j[r].id = u[n].receipt /\ j[r].command = u[n].command
      BY <1>1, <2>1
    <3> QED
      BY <1>5, <3>1, <3>2 DEF Shows
  <2>2. CASE n # l + 1
    <3>1. n \in R /\ n \in 1 .. l /\ u[n] = t[n]
      BY <1>1, <2>2
    <3>2. PICK q \in Agents(j) : Shows(t, n, j, q)
      BY <3>1 DEF Receipted, R
    <3>3. {k \in Said(u, "result") : k < n} = {k \in R : k < n}
      BY <1>1, <3>1
    <3>4. {u[m].receipt : m \in {k \in R : k < n}} = {t[m].receipt : m \in {k \in R : k < n}}
      BY <1>1
    <3> QED
      BY <3>1, <3>2, <3>3, <3>4 DEF Shows, R
  <2> QED
    BY <2>1, <2>2
<1>8. PICK z : z = s \cup {id}
  OBVIOUS
<1>9. Receipted(u, j, z)
  BY <1>3, <1>7, <1>8 DEF Receipted
<1> QED
  BY <1>0, <1>8, <1>9

LEMMA OtherAdded ==
  ASSUME NEW t \in Seq(Messages), NEW j, NEW s, Receipted(t, j, s), NEW m \in Messages, m.kind # "result"
  PROVE  Receipted(Append(t, m), j, s)
<1>0. PICK u : u = Append(t, m)
  OBVIOUS
<1>1. Said(u, "result") = Said(t, "result") /\ \A n \in Said(t, "result") : u[n] = t[n]
  BY <1>0, SaidAppend DEF Said
<1>2. s = {u[n].receipt : n \in Said(u, "result")}
  BY <1>1 DEF Receipted
<1>3. ASSUME NEW n \in Said(u, "result")
      PROVE  \E q \in Agents(j) : Shows(u, n, j, q)
  <2>1. PICK q \in Agents(j) : Shows(t, n, j, q)
    BY <1>1 DEF Receipted
  <2>2. {u[k].receipt : k \in {k \in Said(u, "result") : k < n}} = {t[k].receipt : k \in {k \in Said(t, "result") : k < n}}
    BY <1>1
  <2> QED
    BY <1>1, <2>1, <2>2 DEF Shows
<1> QED
  BY <1>0, <1>2, <1>3 DEF Receipted

\* A receipt that is added changes nothing of what was shown.
LEMMA ReceiptAdded ==
  ASSUME NEW t, NEW j \in Seq(Receipts), NEW s, Receipted(t, j, s), NEW x \in Receipts,
         NEW i, i = Append(j, x)
  PROVE  Receipted(t, i, s)
<1>0. PICK l : l = Len(j)
  OBVIOUS
<1>1. /\ l \in Nat /\ DOMAIN j = 1 .. l /\ DOMAIN i = 1 .. l + 1 /\ i[l + 1] = x
      /\ \A r \in 1 .. l : i[r] = j[r]
  BY <1>0
<1>2. Agents(i) = Agents(j) \cup (IF x.command # Inventory THEN {l + 1} ELSE {})
  BY <1>1 DEF Agents
<1>4. ASSUME NEW n \in Said(t, "result")
      PROVE  \E q \in Agents(i) : Shows(t, n, i, q)
  <2>1. PICK q \in Agents(j) : Shows(t, n, j, q)
    BY DEF Receipted
  <2>2. q \in 1 .. l /\ q \in Agents(i) /\ i[q] = j[q]
    BY <1>1, <1>2 DEF Agents
  <2>3. {k \in Agents(i) : k < q} = {k \in Agents(j) : k < q}
    BY <1>1, <1>2, <2>2 DEF Agents
  <2>4. {i[p].id : p \in {k \in Agents(j) : k < q}} = {j[p].id : p \in {k \in Agents(j) : k < q}}
    BY <1>1 DEF Agents
  <2> QED
    BY <2>1, <2>2, <2>3, <2>4 DEF Shows
<1>3. s = {t[n].receipt : n \in Said(t, "result")}
  BY DEF Receipted
<1> QED
  BY <1>3, <1>4 DEF Receipted

\* The k-th call of message n is answered at its place or waits in w at that place.
Served(t, n, k, w) ==
  IF n + k <= Len(t)
  THEN t[n + k].kind = "result" /\ t[n + k].command = t[n].calls[k]
  ELSE n + k - Len(t) \in DOMAIN w /\ w[n + k - Len(t)] = t[n].calls[k]

Groups(t, w) == \A n \in Said(t, "calls") : \A k \in DOMAIN t[n].calls : Served(t, n, k, w)

LEMMA CallsTyping ==
  ASSUME NEW t \in Seq(Messages), NEW n \in Said(t, "calls")
  PROVE  n \in 1 .. Len(t) /\ t[n].calls \in Seq(Asks) /\ \A k \in DOMAIN t[n].calls : k \in Nat \ {0}
<1>1. n \in 1 .. Len(t) /\ t[n] \in Messages /\ t[n].kind = "calls"
  BY DEF Said
<1>2. t[n].calls \in Seq(Asks)
  BY <1>1 DEF Messages
<1> QED
  BY <1>1, <1>2

\* A result that is added answers the first call that waits.
LEMMA GroupsAnswered ==
  ASSUME NEW t \in Seq(Messages), NEW c, NEW id, Result(c, id) \in Messages,
         NEW w \in Seq(Asks), w # <<>>, w[1] = c, NEW v, v = Tail(w), Groups(t, w)
  PROVE  Groups(Append(t, Result(c, id)), v)
<1>0. PICK u, l : u = Append(t, Result(c, id)) /\ l = Len(t)
  OBVIOUS
<1>1. /\ l \in Nat /\ Len(u) = l + 1 /\ DOMAIN t = 1 .. l /\ u[l + 1].kind = "result" /\ u[l + 1].command = c
      /\ Said(u, "calls") = Said(t, "calls") /\ \A n \in 1 .. l : u[n] = t[n]
  <2>1. Result(c, id).kind = "result" /\ Result(c, id).command = c
    BY DEF Result
  <2> QED
    BY <1>0, <2>1, SaidAppend DEF Said
<1>2. Len(w) \in Nat \ {0} /\ DOMAIN v = 1 .. Len(w) - 1 /\ \A i \in 1 .. Len(w) - 1 : v[i] = w[i + 1]
  OBVIOUS
<1>3. ASSUME NEW n \in Said(u, "calls"), NEW k \in DOMAIN u[n].calls
      PROVE  Served(u, n, k, v)
  <2>1. n \in Said(t, "calls") /\ u[n] = t[n] /\ n \in 1 .. l /\ k \in Nat \ {0} /\ k \in DOMAIN t[n].calls
    BY <1>0, <1>1, <1>3, CallsTyping
  <2>2. Served(t, n, k, w)
    BY <2>1 DEF Groups
  <2>3. CASE n + k <= l
    BY <1>0, <1>1, <2>1, <2>2, <2>3 DEF Served
  <2>4. CASE n + k = l + 1
    <3>1. w[1] = t[n].calls[k]
      BY <1>0, <1>1, <2>1, <2>2, <2>4 DEF Served
    <3> QED
      BY <1>1, <2>1, <2>4, <3>1 DEF Served
  <2>5. CASE n + k > l + 1
    <3>1. PICK i : i = n + k - l /\ i \in Nat /\ i > 1 /\ i - 1 = n + k - (l + 1)
      BY <1>1, <2>1, <2>5
    <3>2. i \in 1 .. Len(w) /\ w[i] = t[n].calls[k]
      BY <1>0, <1>1, <2>1, <2>2, <2>5, <3>1 DEF Served
    <3>3. i - 1 \in DOMAIN v /\ v[i - 1] = w[i]
      BY <1>2, <3>1, <3>2
    <3> QED
      BY <1>1, <2>1, <2>5, <3>1, <3>2, <3>3 DEF Served
  <2>6. n + k \in Nat
    BY <2>1
  <2>7. n + k <= l \/ n + k = l + 1 \/ n + k > l + 1
    BY <1>1, <2>6
  <2> QED
    BY <2>3, <2>4, <2>5, <2>7, Zenon
<1> QED
  BY <1>0, <1>3 DEF Groups

\* While no call waits, any other message may follow; new calls wait.
LEMMA GroupsFollowed ==
  ASSUME NEW t \in Seq(Messages), NEW m \in Messages, Groups(t, <<>>),
         NEW w \in Seq(Asks), IF m.kind = "calls" THEN w = m.calls ELSE w = <<>>
  PROVE  Groups(Append(t, m), w)
<1>0. PICK u, l : u = Append(t, m) /\ l = Len(t)
  OBVIOUS
<1>1. /\ l \in Nat /\ Len(u) = l + 1 /\ DOMAIN t = 1 .. l /\ u[l + 1] = m
      /\ Said(u, "calls") = Said(t, "calls") \cup (IF m.kind = "calls" THEN {l + 1} ELSE {})
      /\ \A n \in 1 .. l : u[n] = t[n]
  BY <1>0, SaidAppend DEF Said
<1>2. ASSUME NEW n \in Said(u, "calls"), NEW k \in DOMAIN u[n].calls
      PROVE  Served(u, n, k, w)
  <2>1. CASE n \in Said(t, "calls")
    <3>1. u[n] = t[n] /\ n \in 1 .. l /\ k \in Nat \ {0} /\ k \in DOMAIN t[n].calls
      BY <1>0, <1>1, <1>2, <2>1, CallsTyping
    <3>2. Served(t, n, k, <<>>)
      BY <2>1, <3>1 DEF Groups
    <3>3. n + k <= l /\ t[n + k].kind = "result" /\ t[n + k].command = t[n].calls[k]
      BY <1>0, <3>1, <3>2 DEF Served
    <3> QED
      BY <1>1, <3>1, <3>3 DEF Served
  <2>2. CASE n \notin Said(t, "calls")
    <3>1. n = l + 1 /\ m.kind = "calls" /\ w = m.calls /\ k \in DOMAIN w
      BY <1>1, <1>2, <2>2
    <3>2. k \in Nat \ {0}
      BY <3>1
    <3>3. n + k > Len(u) /\ n + k - Len(u) = k
      BY <1>1, <3>1, <3>2
    <3> QED
      BY <1>1, <3>1, <3>3 DEF Served
  <2> QED
    BY <2>1, <2>2
<1> QED
  BY <1>0, <1>2 DEF Groups

-----------------------------------------------------------------------------
CallsOf(t)    == [n \in DOMAIN t |-> IF n \in Said(t, "calls") THEN t[n].calls ELSE <<>>]
CommandsOf(j) == [r \in DOMAIN j |-> IF r \in Agents(j) THEN <<j[r].command>> ELSE <<>>]

LEMMA AskedAppend ==
  ASSUME NEW t \in Seq(Messages), NEW m \in Messages
  PROVE  /\ FlattenSeq(CallsOf(Append(t, m))) =
              FlattenSeq(CallsOf(t)) \o (IF m.kind = "calls" THEN m.calls ELSE <<>>)
         /\ FlattenSeq(CallsOf(t)) \in Seq(Asks)
<1>0. PICK u, l, R, s : /\ u = Append(t, m) /\ l = Len(t) /\ R = Seq(Asks)
                        /\ s = IF m.kind = "calls" THEN m.calls ELSE <<>>
  OBVIOUS
<1>1. /\ l \in Nat /\ Len(u) = l + 1 /\ DOMAIN t = 1 .. l /\ DOMAIN u = 1 .. l + 1 /\ u[l + 1] = m
      /\ Said(u, "calls") = Said(t, "calls") \cup (IF m.kind = "calls" THEN {l + 1} ELSE {})
      /\ \A n \in 1 .. l : u[n] = t[n]
  BY <1>0, SaidAppend DEF Said
<1>2. s \in R /\ <<>> \in R
  <2>1. <<>> \in Seq(Asks) /\ (m.kind = "calls" => m.calls \in Seq(Asks))
    BY DEF Messages
  <2> QED
    BY <1>0, <2>1
<1>3. \A n \in Said(t, "calls") : t[n].calls \in R
  BY <1>0, CallsTyping
<1>4. PICK a, b : a = CallsOf(t) /\ b = CallsOf(u)
  OBVIOUS
<1>5. a \in Seq(R) /\ Len(a) = l
  BY <1>1, <1>2, <1>3, <1>4 DEF CallsOf
<1>6. \A n \in 1 .. l : a[n] = b[n]
  BY <1>1, <1>4 DEF CallsOf, Said
<1>7. b[l + 1] = s
  BY <1>0, <1>1, <1>4 DEF CallsOf, Said
<1>8. b = Append(a, s)
  <2>1. b \in Seq(R) /\ Len(b) = l + 1
    <3>1. b = [n \in 1 .. l + 1 |-> b[n]]
      BY <1>1, <1>4 DEF CallsOf
    <3>2. \A n \in 1 .. l + 1 : b[n] \in R
      BY <1>1, <1>2, <1>5, <1>6, <1>7
    <3> QED
      BY <1>1, <3>1, <3>2
  <2> QED
    BY <1>1, <1>2, <1>5, <1>6, <1>7, <2>1
<1>9. \A r \in R : r \in Seq(Asks)
  BY <1>0
<1>10. FlattenSeq(Append(a, s)) = FlattenSeq(a) \o s /\ FlattenSeq(a) \in Seq(Asks)
  <2>1. a \in Seq(R) /\ s \in R
    BY <1>2, <1>5
  <2> QED
    BY <1>9, <2>1, FlattenAppend
<1> QED
  BY <1>0, <1>4, <1>8, <1>10

LEMMA DoneAppend ==
  ASSUME NEW j \in Seq(Receipts), NEW x \in Receipts
  PROVE  /\ FlattenSeq(CommandsOf(Append(j, x))) =
              FlattenSeq(CommandsOf(j)) \o (IF x.command # Inventory THEN <<x.command>> ELSE <<>>)
         /\ FlattenSeq(CommandsOf(j)) \in Seq(Asks)
<1>0. PICK i, l, R, s : /\ i = Append(j, x) /\ l = Len(j) /\ R = Seq(Asks)
                        /\ s = IF x.command # Inventory THEN <<x.command>> ELSE <<>>
  OBVIOUS
<1>1. /\ l \in Nat /\ Len(i) = l + 1 /\ DOMAIN j = 1 .. l /\ DOMAIN i = 1 .. l + 1 /\ i[l + 1] = x
      /\ \A r \in 1 .. l : i[r] = j[r] /\ j[r] \in Receipts
  BY <1>0
<1>2. \A r \in Receipts : r.command # Inventory => <<r.command>> \in Seq(Asks)
  BY DEF Receipts, Asks
<1>3. s \in R /\ <<>> \in R
  BY <1>0, <1>2
<1>4. PICK a, b : a = CommandsOf(j) /\ b = CommandsOf(i)
  OBVIOUS
<1>5. \A r \in Agents(j) : <<j[r].command>> \in R
  BY <1>0, <1>1, <1>2 DEF Agents
<1>6. a \in Seq(R) /\ Len(a) = l
  <2>1. \A r \in 1 .. l : (IF r \in Agents(j) THEN <<j[r].command>> ELSE <<>>) \in R
    BY <1>3, <1>5
  <2> QED
    BY <1>1, <1>4, <2>1 DEF CommandsOf
<1>7. \A n \in 1 .. l : a[n] = b[n]
  BY <1>1, <1>4 DEF CommandsOf, Agents
<1>8. b[l + 1] = s
  BY <1>0, <1>1, <1>4 DEF CommandsOf, Agents
<1>9. b = Append(a, s)
  <2>1. b \in Seq(R) /\ Len(b) = l + 1
    <3>1. b = [n \in 1 .. l + 1 |-> b[n]]
      BY <1>1, <1>4 DEF CommandsOf
    <3>2. \A n \in 1 .. l + 1 : b[n] \in R
      BY <1>1, <1>3, <1>6, <1>7, <1>8
    <3> QED
      BY <1>1, <3>1, <3>2
  <2> QED
    BY <1>1, <1>3, <1>6, <1>7, <1>8, <2>1
<1>10. \A r \in R : r \in Seq(Asks)
  BY <1>0
<1>11. FlattenSeq(Append(a, s)) = FlattenSeq(a) \o s /\ FlattenSeq(a) \in Seq(Asks)
  <2>1. a \in Seq(R) /\ s \in R
    BY <1>3, <1>6
  <2> QED
    BY <1>10, <2>1, FlattenAppend
<1> QED
  BY <1>0, <1>4, <1>9, <1>11

\* A sequence is a prefix of what it is continued to.
LEMMA PrefixOfConcat ==
  ASSUME NEW T, NEW a \in Seq(T), NEW b \in Seq(T), NEW c, c = a \o b
  PROVE  IsPrefix(a, c)
<1>1. Len(a) \in Nat /\ Len(b) \in Nat /\ Len(c) = Len(a) + Len(b)
  OBVIOUS
<1>2. \A i \in 1 .. Len(a) : c[i] = a[i]
  OBVIOUS
<1>3. SubSeq(a, 1, Len(a)) = SubSeq(c, 1, Len(a))
  BY <1>1, <1>2
<1> QED
  BY <1>1, <1>3 DEF IsPrefix

-----------------------------------------------------------------------------
(* The serial queue.                                                       *)

AskedIn(t) == FlattenSeq(CallsOf(t))
DoneIn(j)  == FlattenSeq(CommandsOf(j))

\* The calls whose results the provider waits for.
Waiting ==
  IF pc = "act" /\ action = Finish THEN <<Finish>>
  ELSE IF pending # None THEN <<pending>> \o queued
  ELSE queued

\* Those of them that did not run.
Due == IF pc = "sync" /\ Backlog(journal, seen) # {} THEN queued ELSE Waiting

\* While the process runs, each call has its result or waits, what was asked for
\* is what ran and what is due, and only the receipt of the pending call, the last
\* one, was not shown; what was shown stays true after the end.
Exchange ==
  /\ Receipted(talk, journal, seen)
  /\ IsPrefix(DoneIn(journal), AskedIn(talk))
  /\ pc # "end" =>
       /\ Groups(talk, Waiting)
       /\ AskedIn(talk) = DoneIn(journal) \o Due
       /\ \A r \in Backlog(journal, seen) :
            pc = "sync" /\ pending # None /\ r = Len(journal) /\ journal[r].command = pending
       /\ \A r \in DOMAIN journal : journal[r].id <= step

LEMMA SequencesTyping ==
  ASSUME Typing
  PROVE  /\ talk \in Seq(Messages) /\ journal \in Seq(Receipts) /\ queued \in Seq(Asks)
         /\ AskedIn(talk) \in Seq(Asks) /\ DoneIn(journal) \in Seq(Asks)
<1>1. talk \in Seq(Messages) /\ journal \in Seq(Receipts) /\ queued \in Seq(Asks)
  BY DEF Typing, TypeOK, Control, Receipts, Asks
<1>2. Calls(<<>>) \in Messages /\ [id |-> 0, command |-> Inventory] \in Receipts
  BY NativeTeacherAssumption DEF Calls, Messages, Receipts
<1> QED
  BY <1>1, <1>2, AskedAppend, DoneAppend DEF AskedIn, DoneIn

LEMMA AskedAndDone == Asked = AskedIn(talk) /\ Done = DoneIn(journal)
BY DEF Asked, AskedIn, CallsOf, At, Said, Done, DoneIn, CommandsOf, AgentReceipts, Agents

\* What stays when the run ends.
LEMMA EndExchange ==
  ASSUME Exchange, pc' = "end", UNCHANGED <<talk, journal, seen>>
  PROVE  Exchange'
BY DEF Exchange

LEMMA InitExchange ==
  ASSUME Init
  PROVE  Exchange
<1>1. talk = <<>> /\ journal = <<>> /\ seen = {} /\ queued = <<>> /\ pending = None /\ pc \in {"observe", "sync"}
  BY DEF Init
<1>2. Said(talk, "calls") = {} /\ Said(talk, "result") = {} /\ Agents(journal) = {} /\ DOMAIN journal = {}
  BY <1>1 DEF Said, Agents
<1>3. Receipted(talk, journal, seen) /\ Backlog(journal, seen) = {} /\ Groups(talk, Waiting)
  BY <1>1, <1>2 DEF Receipted, Backlog, Groups
<1>4. Waiting = <<>> /\ Due = <<>>
  BY <1>1, <1>3 DEF Waiting, Due
<1>5. AskedIn(talk) = <<>> /\ DoneIn(journal) = <<>>
  <2>1. CallsOf(talk) = <<>> /\ CommandsOf(journal) = <<>>
    BY <1>1 DEF CallsOf, CommandsOf
  <2> QED
    BY <2>1, FlattenEmpty DEF AskedIn, DoneIn
<1>6. <<>> \in Seq(Asks) /\ <<>> = <<>> \o <<>>
  OBVIOUS
<1>7. IsPrefix(DoneIn(journal), AskedIn(talk))
  BY <1>5, <1>6, PrefixOfConcat
<1>8. AskedIn(talk) = DoneIn(journal) \o Due
  BY <1>4, <1>5, <1>6
<1> QED
  BY <1>2, <1>3, <1>7, <1>8 DEF Exchange

\* A step that adds nothing to the conversation or to what was shown, and leaves
\* the calls that wait.
LEMMA QuietExchange ==
  ASSUME Exchange, pc # "end", UNCHANGED <<talk, journal, seen>>, Waiting' = Waiting, Due' = Due,
         Backlog(journal, seen) = {}, step' \in Nat, step \in Nat, step' >= step, journal \in Seq(Receipts)
  PROVE  Exchange'
<1>1. \A r \in DOMAIN journal : journal[r].id <= step'
  <2>1. \A r \in DOMAIN journal : journal[r] \in Receipts
    OBVIOUS
  <2>2. \A r \in DOMAIN journal : journal[r].id \in Int
    BY <2>1, NativeTeacherAssumption DEF Receipts
  <2> QED
    BY <2>2 DEF Exchange
<1> QED
  BY <1>1 DEF Exchange

LEMMA StepExchange ==
  ASSUME Typing, Typing', Exchange, [Next]_vars
  PROVE  Exchange'
<1>0. /\ talk \in Seq(Messages) /\ journal \in Seq(Receipts) /\ queued \in Seq(Asks)
      /\ AskedIn(talk) \in Seq(Asks) /\ DoneIn(journal) \in Seq(Asks)
  BY SequencesTyping
<1>1. CASE Observe
  <2>1. PICK x : x = [id |-> 0, command |-> Inventory]
    OBVIOUS
  <2>2. x \in Receipts /\ x.command = Inventory /\ x.id = 0
    BY <2>1, NativeTeacherAssumption DEF Receipts
  <2>3. /\ journal = <<>> /\ talk = <<>> /\ queued = <<>> /\ pending = None /\ pc = "observe" /\ pc' = "sync"
        /\ journal' = Append(journal, x) /\ UNCHANGED <<talk, seen, queued, pending, step>>
    BY <1>1, <2>1 DEF Observe, Typing, Control, teacher
  <2>4. Receipted(talk, journal', seen) /\ Backlog(journal', seen) = {}
    <3>1. Receipted(talk, journal, seen)
      BY DEF Exchange
    <3>2. journal \in Seq(Receipts)
      BY <1>0
    <3>3. Receipted(talk, journal', seen)
      BY <2>2, <2>3, <3>1, <3>2, ReceiptAdded, Zenon
    <3>4. \A r \in DOMAIN journal' : journal'[r] = x
      BY <2>3
    <3>5. Backlog(journal', seen) = {}
      BY <2>2, <3>4 DEF Backlog, Agents
    <3> QED
      BY <3>3, <3>5
  <2>5. Backlog(journal, seen) = {}
    BY <2>3 DEF Backlog, Agents
  <2>6. Waiting = <<>> /\ Waiting' = <<>> /\ Due = <<>> /\ Due' = <<>>
    BY <2>3, <2>4, <2>5 DEF Waiting, Due
  <2>7. DoneIn(journal') = DoneIn(journal) \o <<>>
    BY <1>0, <2>2, <2>3, DoneAppend DEF DoneIn
  <2>8. DoneIn(journal') = DoneIn(journal)
    BY <1>0, <2>7
  <2>9. \A r \in DOMAIN journal' : journal'[r].id <= step
    <3>1. step \in Nat
      BY DEF Typing, TypeOK
    <3>2. \A r \in DOMAIN journal' : journal'[r] = x
      BY <2>3
    <3> QED
      BY <2>2, <3>1, <3>2
  <2> QED
    BY <2>3, <2>4, <2>5, <2>6, <2>8, <2>9 DEF Exchange
<1>2. CASE Stop
  BY <1>2, EndExchange DEF Stop, End, teacher
<1>3. CASE SyncRefuses
  BY <1>3, EndExchange DEF SyncRefuses, End, teacher
<1>4. CASE Sync
  <2>1. /\ pc = "sync" /\ Acknowledged /\ pending' = None /\ UNCHANGED <<queued, journal, step>>
        /\ pc' = (IF queued = <<>> THEN "post" ELSE "deal") /\ step \in Nat
        /\ seen' = IF pending = None THEN seen ELSE seen \cup {Last(journal).id}
    BY <1>4 DEF Sync, runtime, Typing, TypeOK
  <2>2. PICK t : t = Answered
    OBVIOUS
  <2>3. /\ t \in Seq(Messages) /\ Receipted(t, journal, seen') /\ Groups(t, queued)
        /\ AskedIn(t) = DoneIn(journal) \o queued /\ Backlog(journal, seen') = {}
    <3>1. CASE pending = None
      <4>1. t = talk /\ seen' = seen /\ Backlog(journal, seen) = {}
        BY <2>1, <2>2, <3>1 DEF Answered, Exchange
      <4>2. Waiting = queued /\ Due = queued
        BY <2>1, <3>1 DEF Waiting, Due
      <4> QED
        BY <1>0, <2>1, <4>1, <4>2 DEF Exchange
    <3>2. CASE pending # None
      <4>1. pending \in Commands /\ pending # Inventory
        BY <3>2, Names DEF Typing, TypeOK
      <4>2. PICK n \in Unseen : Unseen = {n} /\ journal[n].command = pending
        BY <2>1, <3>2 DEF Acknowledged
      <4>3. n \in Backlog(journal, seen)
        BY <4>1, <4>2 DEF Unseen, Backlog, Agents
      <4>4. n = Len(journal) /\ Backlog(journal, seen) = {n}
        BY <2>1, <4>3 DEF Exchange
      <4>5. PICK id : id = journal[n].id
        OBVIOUS
      <4>6. n \in DOMAIN journal /\ journal[n] \in Receipts /\ id \in 0 .. MaxSteps
        <5>1. n \in DOMAIN journal
          BY <4>3 DEF Backlog, Agents
        <5>2. journal[n] \in Receipts
          BY <1>0, <5>1
        <5> QED
          BY <4>5, <5>1, <5>2 DEF Receipts
      <4>7. Last(journal).id = id
        BY <4>4, <4>5 DEF Last
      <4>8. t = Append(talk, Result(pending, id)) /\ seen' = seen \cup {id}
        BY <2>1, <2>2, <3>2, <4>7 DEF Answered
      <4>9. Result(pending, id) \in Messages /\ Result(pending, id).kind = "result"
        BY <4>1, <4>6 DEF Result, Messages
      <4>10. Receipted(t, journal, seen')
        <5>1. Receipted(talk, journal, seen)
          BY DEF Exchange
        <5> QED
          BY <1>0, <4>2, <4>4, <4>5, <4>8, <4>9, <5>1, ResultAdded
      <4>11. Waiting = <<pending>> \o queued /\ Due = queued
        BY <2>1, <3>2, <4>4 DEF Waiting, Due
      <4>12. PICK w : w = <<pending>> \o queued
        OBVIOUS
      <4>13. w \in Seq(Asks) /\ w # <<>> /\ w[1] = pending /\ queued = Tail(w)
        <5>1. <<pending>> \in Seq(Asks)
          BY <4>1 DEF Asks
        <5> QED
          BY <1>0, <4>12, <5>1
      <4>14. Groups(t, queued)
        <5>1. Groups(talk, w)
          BY <2>1, <4>11, <4>12 DEF Exchange
        <5> QED
          BY <1>0, <4>8, <4>9, <4>13, <5>1, GroupsAnswered
      <4>15. AskedIn(t) = DoneIn(journal) \o queued
        <5>1. AskedIn(t) = AskedIn(talk) \o <<>>
          BY <1>0, <4>8, <4>9, AskedAppend DEF AskedIn
        <5>2. AskedIn(talk) = DoneIn(journal) \o queued
          BY <2>1, <4>11 DEF Exchange
        <5> QED
          BY <1>0, <5>1, <5>2
      <4>16. Backlog(journal, seen') = {}
        BY <4>4, <4>5, <4>8 DEF Backlog
      <4>17. t \in Seq(Messages)
        BY <1>0, <4>8, <4>9
      <4> QED
        BY <4>10, <4>14, <4>15, <4>16, <4>17
    <3> QED
      BY <3>1, <3>2
  <2>4. \/ talk' = t
        \/ queued = <<>> /\ talk' = Append(t, Reminders(buffered \cup NewlySaid))
    BY <1>4, <2>2 DEF Sync, MayRemind
  <2>5. /\ Receipted(talk', journal, seen') /\ Groups(talk', queued)
        /\ AskedIn(talk') = DoneIn(journal) \o queued
    <3>1. CASE talk' = t
      BY <2>3, <3>1
    <3>2. CASE queued = <<>> /\ talk' = Append(t, Reminders(buffered \cup NewlySaid))
      <4>1. PICK m : m = Reminders(buffered \cup NewlySaid)
        OBVIOUS
      <4>2. m \in Messages /\ m.kind = "reminders"
        BY <4>1 DEF Typing, TypeOK, NewlySaid, Reminders, Messages
      <4>3. Receipted(talk', journal, seen')
        BY <2>3, <3>2, <4>1, <4>2, OtherAdded
      <4>4. Groups(talk', queued)
        BY <1>0, <2>3, <3>2, <4>1, <4>2, GroupsFollowed
      <4>5. AskedIn(talk') = AskedIn(t) \o <<>> /\ AskedIn(t) \in Seq(Asks)
        BY <2>3, <3>2, <4>1, <4>2, AskedAppend DEF AskedIn
      <4> QED
        BY <2>3, <4>3, <4>4, <4>5
    <3> QED
      BY <2>4, <3>1, <3>2
  <2>6. Waiting' = queued /\ Due' = queued
    BY <2>1 DEF Waiting, Due
  <2>7. IsPrefix(DoneIn(journal), AskedIn(talk'))
    BY <1>0, <2>5, PrefixOfConcat
  <2>8. \A r \in DOMAIN journal : journal[r].id <= step
    BY <2>1 DEF Exchange
  <2> QED
    BY <2>1, <2>3, <2>5, <2>6, <2>7, <2>8 DEF Exchange
<1>5. CASE Deal
  <2>1. /\ pc = "deal" /\ pc' = "act" /\ queued # <<>> /\ pending = None /\ queued' = Tail(queued)
        /\ action' = Head(queued) /\ pending' = IF Head(queued) = Finish THEN None ELSE Head(queued)
        /\ UNCHANGED <<talk, journal, seen, step>> /\ step \in Nat
    BY <1>5 DEF Deal, AfterDealing, Typing, Control, TypeOK, runtime
  <2>2. Head(queued) \in Asks /\ queued = <<Head(queued)>> \o Tail(queued)
    BY <1>0, <2>1
  <2>3. Backlog(journal, seen) = {}
    BY <2>1 DEF Exchange
  <2>4. Waiting = queued /\ Due = Waiting
    BY <2>1 DEF Waiting, Due
  <2>5. Waiting' = queued
    <3>1. CASE Head(queued) = Finish
      <4>1. queued' = <<>>
        BY <2>1, <3>1, Names DEF Typing, Control
      <4>2. queued = <<Finish>>
        <5>1. queued = <<Finish>> \o <<>>
          BY <2>1, <2>2, <3>1, <4>1
        <5>2. <<Finish>> \o <<>> = <<Finish>>
          OBVIOUS
        <5> QED
          BY <5>1, <5>2
      <4> QED
        BY <2>1, <3>1, <4>2 DEF Waiting
    <3>2. CASE Head(queued) # Finish
      <4>1. Head(queued) # None
        BY <2>2, <3>2, Names DEF Asks
      <4> QED
        BY <2>1, <2>2, <3>2, <4>1 DEF Waiting
    <3> QED
      BY <3>1, <3>2
  <2>6. Due' = Due
    BY <2>1, <2>4, <2>5 DEF Due
  <2> QED
    BY <1>0, <2>1, <2>3, <2>4, <2>5, <2>6, QuietExchange
<1>6. CASE PostFails
  BY <1>6, EndExchange DEF PostFails, End, teacher
<1>7. ASSUME NEW calls \in SeqOf(Commands \cup {Finish}, MaxCalls + 1), PostAnswers(calls)
      PROVE  Exchange'
  <2>1. /\ pc = "post" /\ queued = <<>> /\ pending = None /\ UNCHANGED <<journal, seen, pending, step>>
        /\ step \in Nat /\ Backlog(journal, seen) = {} /\ calls \in Seq(Asks)
    <3>1. calls \in Seq(Asks)
      BY NativeTeacherAssumption DEF SeqOf, Asks
    <3>2. /\ pc = "post" /\ queued = <<>> /\ pending = None /\ UNCHANGED <<journal, seen, pending, step>>
          /\ step \in Nat
      BY <1>7 DEF PostAnswers, runtime, Typing, Control, TypeOK
    <3> QED
      BY <3>1, <3>2 DEF Exchange
  <2>2. Waiting = <<>> /\ Due = <<>>
    BY <2>1 DEF Waiting, Due
  <2>3. CASE WellFormed(calls)
    <3>1. talk' = Append(talk, Calls(calls)) /\ queued' = calls /\ pc' = "deal"
      BY <1>7, <2>3 DEF PostAnswers
    <3>2. /\ Calls(calls) \in Messages /\ Calls(calls).kind = "calls" /\ Calls(calls).calls = calls
      BY <2>1 DEF Calls, Messages
    <3>3. Receipted(talk', journal, seen)
      BY <1>0, <3>1, <3>2, OtherAdded DEF Exchange
    <3>4. Waiting' = calls /\ Due' = calls
      BY <2>1, <3>1 DEF Waiting, Due
    <3>5. Groups(talk, <<>>)
      BY <2>1, <2>2 DEF Exchange
    <3>6. Groups(talk', calls)
      BY <1>0, <2>1, <3>1, <3>2, <3>5, GroupsFollowed
    <3>7. AskedIn(talk') = AskedIn(talk) \o calls
      BY <1>0, <3>1, <3>2, AskedAppend DEF AskedIn
    <3>8. AskedIn(talk) = DoneIn(journal)
      BY <1>0, <2>1, <2>2 DEF Exchange
    <3>9. AskedIn(talk') = DoneIn(journal) \o calls
      BY <3>7, <3>8
    <3>10. IsPrefix(DoneIn(journal), AskedIn(talk'))
      BY <1>0, <2>1, <3>9, PrefixOfConcat
    <3>11. \A r \in DOMAIN journal : journal[r].id <= step
      BY <2>1 DEF Exchange
    <3> QED
      BY <2>1, <3>3, <3>4, <3>6, <3>9, <3>10, <3>11 DEF Exchange
  <2>4. CASE ~WellFormed(calls)
    <3>1. UNCHANGED <<talk, queued>> /\ action' = Malformed /\ pc' = "act"
      BY <1>7, <2>4 DEF PostAnswers
    <3>2. Waiting' = Waiting /\ Due' = Due
      BY <2>1, <2>2, <3>1, Names DEF Waiting, Due
    <3> QED
      BY <1>0, <2>1, <3>1, <3>2, QuietExchange
  <2> QED
    BY <2>3, <2>4
<1>8. ASSUME NEW ok \in BOOLEAN, NEW compress \in BOOLEAN, NEW v \in Versions, Execute(ok, v, compress)
      PROVE  Exchange'
  <2>1. PICK x : x = [id |-> step + 1, command |-> action]
    OBVIOUS
  <2>2. /\ pc = "act" /\ action \in Commands /\ pending = action /\ pc' = "sync" /\ step' = step + 1
        /\ journal' = Append(journal, x) /\ UNCHANGED <<talk, seen, queued, pending>>
        /\ step \in Nat /\ step + 1 \in 0 .. MaxSteps
    BY <1>8, <2>1 DEF Execute, NextStep, teacher, Typing, Control, TypeOK
  <2>3. x \in Receipts /\ x.command = action /\ x.command # Inventory /\ x.id = step + 1
    BY <2>1, <2>2, Names DEF Receipts
  <2>4. \A r \in DOMAIN journal : journal[r].id <= step /\ journal[r].id \in Int
    <3>1. \A r \in DOMAIN journal : journal[r] \in Receipts
      BY <1>0
    <3> QED
      BY <2>2, <3>1, NativeTeacherAssumption DEF Exchange, Receipts
  <2>5. x.id \notin seen
    <3>1. seen \subseteq {journal[n].id : n \in DOMAIN journal}
      BY DEF Typing, TypeOK
    <3> QED
      BY <2>2, <2>3, <2>4, <3>1
  <2>6. Backlog(journal, seen) = {}
    BY <2>2 DEF Exchange
  <2>7. PICK l : l = Len(journal) + 1 /\ l = Len(journal') /\ journal'[l] = x /\ DOMAIN journal' = 1 .. l
                 /\ \A r \in 1 .. l : r # l => r \in DOMAIN journal /\ journal'[r] = journal[r]
    BY <1>0, <2>2
  <2>8. Receipted(talk, journal', seen) /\ Backlog(journal', seen) = {l}
    <3>1. Receipted(talk, journal, seen)
      BY DEF Exchange
    <3>2. journal \in Seq(Receipts) /\ x \in Receipts
      BY <1>0, <2>3
    <3>3. Receipted(talk, journal', seen)
      BY <2>2, <3>1, <3>2, ReceiptAdded, Zenon
    <3>4. l \in 1 .. l
      BY <1>0, <2>7
    <3>5. Backlog(journal', seen) = {l}
      BY <2>3, <2>5, <2>6, <2>7, <3>4 DEF Backlog, Agents
    <3> QED
      BY <3>3, <3>5
  <2>9. action # Finish /\ action # None
    BY <2>2, Names
  <2>10. Waiting = <<action>> \o queued /\ Waiting' = <<action>> \o queued /\ Due = Waiting /\ Due' = queued
    BY <2>2, <2>8, <2>9 DEF Waiting, Due
  <2>11. DoneIn(journal') = DoneIn(journal) \o <<action>>
    BY <1>0, <2>2, <2>3, DoneAppend DEF DoneIn
  <2>12. AskedIn(talk) = DoneIn(journal') \o queued
    <3>1. AskedIn(talk) = DoneIn(journal) \o (<<action>> \o queued)
      BY <2>2, <2>10 DEF Exchange
    <3>2. <<action>> \in Seq(Asks)
      BY <2>2 DEF Asks
    <3>3. DoneIn(journal) \o (<<action>> \o queued) = (DoneIn(journal) \o <<action>>) \o queued
      BY <1>0, <3>2, ConcatAssociative
    <3> QED
      BY <2>11, <3>1, <3>3
  <2>13. IsPrefix(DoneIn(journal'), AskedIn(talk))
    <3>1. DoneIn(journal') \in Seq(Asks)
      <4>1. <<action>> \in Seq(Asks)
        BY <2>2 DEF Asks
      <4> QED
        BY <1>0, <2>11, <4>1
    <3> QED
      BY <1>0, <2>12, <3>1, PrefixOfConcat
  <2>14. \A r \in DOMAIN journal' : journal'[r].id <= step + 1
    BY <2>2, <2>3, <2>4, <2>7
  <2>15. Groups(talk, Waiting')
    BY <2>2, <2>10 DEF Exchange
  <2>16. \A r \in Backlog(journal', seen) : pending # None /\ r = Len(journal') /\ journal'[r].command = pending
    BY <2>2, <2>3, <2>7, <2>8, <2>9
  <2> QED
    BY <2>2, <2>8, <2>10, <2>12, <2>13, <2>14, <2>15, <2>16 DEF Exchange
<1>9. CASE RefuseRepetition
  <2>1. pc = "act" /\ action \in Commands /\ UNCHANGED <<talk, journal, seen, queued, pending>> /\ step \in Nat
    BY <1>9 DEF RefuseRepetition, teacher, Typing, TypeOK
  <2>2. CASE pc' = "end"
    BY <2>1, <2>2, EndExchange
  <2>3. CASE pc' # "end"
    <3>1. pc' = "sync" /\ step' = step + 1
      BY <1>9, <2>3 DEF RefuseRepetition, End, NextStep
    <3>2. action # Finish /\ Backlog(journal, seen) = {}
      BY <2>1, Names DEF Exchange
    <3>3. Waiting' = Waiting /\ Due' = Due
      BY <2>1, <3>1, <3>2 DEF Waiting, Due
    <3> QED
      BY <1>0, <2>1, <3>1, <3>2, <3>3, QuietExchange
  <2> QED
    BY <2>2, <2>3
<1>10. CASE RejectProtocol
  <2>1. pc = "act" /\ action = Malformed /\ UNCHANGED <<talk, journal, seen, queued, pending>> /\ step \in Nat
    BY <1>10 DEF RejectProtocol, teacher, Typing, TypeOK
  <2>2. CASE pc' = "end"
    BY <2>1, <2>2, EndExchange
  <2>3. CASE pc' # "end"
    <3>1. pc' = "sync" /\ step' = step + 1
      BY <1>10, <2>3 DEF RejectProtocol, End, NextStep
    <3>2. action # Finish /\ Backlog(journal, seen) = {}
      BY <2>1, Names DEF Exchange
    <3>3. Waiting' = Waiting /\ Due' = Due
      BY <2>1, <3>1, <3>2 DEF Waiting, Due
    <3> QED
      BY <1>0, <2>1, <3>1, <3>2, <3>3, QuietExchange
  <2> QED
    BY <2>2, <2>3
<1>11. CASE Complete
  BY <1>11, EndExchange DEF Complete, End, teacher
<1>12. CASE UNCHANGED vars
  BY <1>12 DEF vars, runtime, teacher, Exchange, Waiting, Due
<1> QED
  BY <1>1, <1>2, <1>3, <1>4, <1>5, <1>6, <1>7, <1>8, <1>9, <1>10, <1>11, <1>12 DEF Next

-----------------------------------------------------------------------------
(* Warnings.                                                               *)

\* The warnings the provider was told.
Told(t) == UNION {t[n].texts : n \in Said(t, "reminders")}

ToldOnce(t) ==
  \A m, n \in Said(t, "reminders") : m # n => t[m].texts \cap t[n].texts = {}

\* What was heard of the runtime is told or buffered and not both; nothing is
\* held back when a request goes out.
Warned ==
  /\ heard = Told(talk) \cup buffered /\ Told(talk) \cap buffered = {}
  /\ ToldOnce(talk)
  /\ pc = "post" => buffered = {} /\ said \subseteq heard

\* A message that is no reminder tells no warning.
LEMMA NothingTold ==
  ASSUME NEW t \in Seq(Messages), NEW m \in Messages, m.kind # "reminders", NEW u, u = Append(t, m)
  PROVE  Told(u) = Told(t) /\ (ToldOnce(t) => ToldOnce(u))
<1>1. Said(u, "reminders") = Said(t, "reminders") /\ \A n \in Said(t, "reminders") : u[n] = t[n]
  BY SaidAppend DEF Said
<1>2. {u[n].texts : n \in Said(u, "reminders")} = {t[n].texts : n \in Said(t, "reminders")}
  BY <1>1
<1> QED
  BY <1>1, <1>2 DEF Told, ToldOnce

\* New warnings are told once.
LEMMA WarningsTold ==
  ASSUME NEW t \in Seq(Messages), NEW ws, Reminders(ws) \in Messages, ws \cap Told(t) = {}, ToldOnce(t),
         NEW u, u = Append(t, Reminders(ws))
  PROVE  Told(u) = Told(t) \cup ws /\ ToldOnce(u)
<1>0. PICK l : l = Len(t)
  OBVIOUS
<1>1. /\ l \in Nat /\ u[l + 1].texts = ws /\ Said(u, "reminders") = Said(t, "reminders") \cup {l + 1}
      /\ \A n \in Said(t, "reminders") : n \in 1 .. l /\ u[n] = t[n]
  <2>1. Reminders(ws).kind = "reminders" /\ Reminders(ws).texts = ws
    BY DEF Reminders
  <2> QED
    BY <1>0, <2>1, SaidAppend DEF Said
<1>2. {u[n].texts : n \in Said(u, "reminders")} = {t[n].texts : n \in Said(t, "reminders")} \cup {ws}
  BY <1>1, ZenonT(60)
<1>3. Told(u) = Told(t) \cup ws
  BY <1>2 DEF Told
<1>4. ASSUME NEW m \in Said(u, "reminders"), NEW n \in Said(u, "reminders"), m # n
      PROVE  u[m].texts \cap u[n].texts = {}
  <2>1. \A k \in Said(t, "reminders") : t[k].texts \cap ws = {}
    BY DEF Told
  <2>2. CASE m = l + 1 /\ n \in Said(t, "reminders")
    BY <1>1, <2>1, <2>2
  <2>3. CASE n = l + 1 /\ m \in Said(t, "reminders")
    BY <1>1, <2>1, <2>3
  <2>4. CASE n \in Said(t, "reminders") /\ m \in Said(t, "reminders")
    BY <1>1, <1>4, <2>4 DEF ToldOnce
  <2> QED
    BY <1>1, <1>4, <2>2, <2>3, <2>4
<1> QED
  BY <1>3, <1>4 DEF ToldOnce

LEMMA InitWarned == Init => Warned
<1> SUFFICES ASSUME Init PROVE Warned
  OBVIOUS
<1>1. Said(talk, "reminders") = {}
  BY DEF Init, Said
<1> QED
  BY <1>1 DEF Init, Warned, Told, ToldOnce

LEMMA StepWarned ==
  ASSUME Typing, Warned, [Next]_vars
  PROVE  Warned'
<1>0. talk \in Seq(Messages) /\ journal \in Seq(Receipts)
  BY SequencesTyping
<1>1. ASSUME UNCHANGED <<talk, heard, buffered>>, pc' # "post"
      PROVE  Warned'
  BY <1>1 DEF Warned
<1>2. CASE Observe
  BY <1>1, <1>2 DEF Observe, teacher
<1>3. CASE Stop
  BY <1>1, <1>3 DEF Stop, End, teacher
<1>4. CASE SyncRefuses
  BY <1>1, <1>4 DEF SyncRefuses, End, teacher
<1>5. CASE Sync
  <2>1. PICK t : t = Answered
    OBVIOUS
  <2>2. t \in Seq(Messages) /\ Told(t) = Told(talk) /\ ToldOnce(t)
    <3>1. CASE pending = None
      BY <1>0, <2>1, <3>1 DEF Answered, Warned
    <3>2. CASE pending # None
      <4>1. PICK m : m = Result(pending, Last(journal).id)
        OBVIOUS
      <4>2. \E n \in DOMAIN journal : TRUE
        BY <1>5, <3>2 DEF Sync, Acknowledged, Unseen
      <4>3. Len(journal) \in DOMAIN journal /\ Last(journal) = journal[Len(journal)]
        BY <1>0, <4>2 DEF Last
      <4>4. Last(journal) \in Receipts
        <5>1. \A n \in DOMAIN journal : journal[n] \in Receipts
          BY <1>0
        <5> QED
          BY <4>3, <5>1
      <4>5. m \in Messages /\ m.kind = "result"
        BY <3>2, <4>1, <4>4 DEF Typing, TypeOK, Result, Messages, Receipts
      <4>6. t = Append(talk, m)
        BY <2>1, <3>2, <4>1 DEF Answered
      <4>7. Told(t) = Told(talk) /\ (ToldOnce(talk) => ToldOnce(t))
        BY <1>0, <4>5, <4>6, NothingTold
      <4> QED
        BY <1>0, <4>5, <4>6, <4>7 DEF Warned
    <3> QED
      BY <3>1, <3>2
  <2>3. PICK new : new = buffered \cup NewlySaid
    OBVIOUS
  <2>4. new \cap Told(talk) = {} /\ heard \cup said = Told(talk) \cup new
    BY <2>3 DEF Warned, NewlySaid
  <2>5. /\ heard' = heard \cup said /\ said' = said
        /\ queued = <<>> /\ new # {} => talk' = Append(t, Reminders(new)) /\ buffered' = {}
        /\ ~(queued = <<>> /\ new # {}) => talk' = t /\ buffered' = IF queued = <<>> THEN {} ELSE new
        /\ pc' = "post" => queued = <<>>
    BY <1>5, <2>1, <2>3 DEF Sync, MayRemind, runtime
  <2>6. CASE queued = <<>> /\ new # {}
    <3>1. Reminders(new) \in Messages
      BY <2>3 DEF Typing, TypeOK, NewlySaid, Reminders, Messages
    <3>2. Told(talk') = Told(t) \cup new /\ ToldOnce(talk')
      BY <2>2, <2>4, <2>5, <2>6, <3>1, WarningsTold
    <3> QED
      BY <2>2, <2>4, <2>5, <2>6, <3>2 DEF Warned
  <2>7. CASE ~(queued = <<>> /\ new # {})
    BY <2>2, <2>4, <2>5, <2>7 DEF Warned
  <2> QED
    BY <2>6, <2>7
<1>6. CASE Deal
  BY <1>1, <1>6 DEF Deal, runtime
<1>7. CASE PostFails
  BY <1>1, <1>7 DEF PostFails, End, teacher
<1>8. ASSUME NEW calls \in SeqOf(Commands \cup {Finish}, MaxCalls + 1), PostAnswers(calls)
      PROVE  Warned'
  <2>1. pc' # "post" /\ UNCHANGED <<heard, buffered, said>>
    BY <1>8 DEF PostAnswers, runtime
  <2>2. CASE talk' = talk
    BY <1>1, <2>1, <2>2
  <2>3. CASE talk' = Append(talk, Calls(calls))
    <3>1. Calls(calls) \in Messages /\ Calls(calls).kind # "reminders"
      BY NativeTeacherAssumption DEF SeqOf, Asks, Calls, Messages
    <3>2. Told(talk') = Told(talk) /\ (ToldOnce(talk) => ToldOnce(talk'))
      BY <1>0, <2>3, <3>1, NothingTold
    <3> QED
      BY <2>1, <3>2 DEF Warned
  <2> QED
    BY <1>8, <2>2, <2>3 DEF PostAnswers
<1>9. ASSUME NEW ok \in BOOLEAN, NEW compress \in BOOLEAN, NEW v \in Versions, Execute(ok, v, compress)
      PROVE  Warned'
  BY <1>1, <1>9 DEF Execute, NextStep, teacher
<1>10. CASE RefuseRepetition
  BY <1>1, <1>10 DEF RefuseRepetition, NextStep, End, teacher
<1>11. CASE RejectProtocol
  BY <1>1, <1>11 DEF RejectProtocol, NextStep, End, teacher
<1>12. CASE Complete
  BY <1>1, <1>12 DEF Complete, End, teacher
<1>13. CASE UNCHANGED vars
  BY <1>13 DEF vars, runtime, teacher, Warned
<1> QED
  BY <1>2, <1>3, <1>4, <1>5, <1>6, <1>7, <1>8, <1>9, <1>10, <1>11, <1>12, <1>13 DEF Next

-----------------------------------------------------------------------------
\* Every state of the teacher and its runtime is well typed, for any commands,
\* group sizes and steps.
THEOREM TeacherTyping == Spec => []TypeOK
<1>1. Typing => TypeOK
  BY DEF Typing
<1> QED
  BY <1>1, InitTyping, StepTyping, PTL DEF Spec

THEOREM ExchangeInvariant == Spec => [](Typing /\ Exchange /\ Warned)
<1>1. Init => Typing /\ Exchange /\ Warned
  BY InitTyping, InitExchange, InitWarned
<1>2. Typing /\ Exchange /\ Warned /\ [Next]_vars => (Typing /\ Exchange /\ Warned)'
  BY StepTyping, StepExchange, StepWarned
<1> QED
  BY <1>1, <1>2, PTL DEF Spec

\* The provider is shown receipts of commands that ran, under their calls, in
\* order and without a gap (_sync), for any answers, repetitions and failures.
THEOREM ShownResultsAreReceipts == Spec => []ResultsAreReceipts
<1>1. Typing /\ Exchange => ResultsAreReceipts
  <2> SUFFICES ASSUME Typing, Exchange, NEW n \in At("result")
               PROVE  \E r \in AgentReceipts :
                        /\ journal[r] = [id |-> talk[n].receipt, command |-> talk[n].command]
                        /\ {talk[m].receipt : m \in {k \in At("result") : k < n}}
                             = {journal[q].id : q \in {k \in AgentReceipts : k < r}}
    BY DEF ResultsAreReceipts
  <2>1. At("result") = Said(talk, "result") /\ AgentReceipts = Agents(journal)
    BY DEF At, Said, AgentReceipts, Agents
  <2>2. PICK r \in Agents(journal) : Shows(talk, n, journal, r)
    BY <2>1 DEF Exchange, Receipted
  <2>3. journal[r] \in Receipts
    BY <2>2, SequencesTyping DEF Agents
  <2>4. journal[r].id = talk[n].receipt /\ journal[r].command = talk[n].command
    BY <2>2 DEF Shows
  <2>5. journal[r] = [id |-> talk[n].receipt, command |-> talk[n].command]
    BY <2>3, <2>4 DEF Receipts
  <2> QED
    BY <2>1, <2>2, <2>5 DEF Shows
<1> QED
  BY <1>1, ExchangeInvariant, PTL

\* Every paid request carries each group of calls with all its results behind it.
THEOREM GroupsAreWhole == Spec => []RequestsCarryWholeGroups
<1>1. Typing /\ Exchange => RequestsCarryWholeGroups
  <2> SUFFICES ASSUME Typing, Exchange, pc = "post", NEW n \in At("calls"), NEW k \in DOMAIN talk[n].calls
               PROVE  n + k \in At("result") /\ talk[n + k].command = talk[n].calls[k]
    BY DEF RequestsCarryWholeGroups
  <2>1. n \in Said(talk, "calls") /\ talk \in Seq(Messages)
    BY SequencesTyping DEF At, Said
  <2>2. Waiting = <<>>
    BY DEF Waiting, Typing, Control
  <2>3. Served(talk, n, k, <<>>)
    BY <2>1, <2>2 DEF Exchange, Groups
  <2>4. n \in 1 .. Len(talk) /\ k \in Nat \ {0}
    BY <2>1, CallsTyping
  <2>5. n + k <= Len(talk) /\ talk[n + k].kind = "result" /\ talk[n + k].command = talk[n].calls[k]
    BY <2>3 DEF Served
  <2>6. n + k \in DOMAIN talk
    BY <2>1, <2>4, <2>5
  <2> QED
    BY <2>5, <2>6 DEF At
<1> QED
  BY <1>1, ExchangeInvariant, PTL

\* The commands that ran are a prefix of the calls of all responses: the serial
\* queue loses none, adds none and runs none twice.
THEOREM CallsRunOnceInOrder == Spec => []KnownCallsRunOnce
<1>1. Exchange => KnownCallsRunOnce
  BY AskedAndDone DEF Exchange, KnownCallsRunOnce
<1> QED
  BY <1>1, ExchangeInvariant, PTL

\* A warning the harness still shows is in the next request, and none is told
\* twice, however often the runtime compresses its messages.
THEOREM WarningsReachTheProviderOnce == Spec => []WarningsAreToldOnce
<1>1. Warned => WarningsAreToldOnce
  BY DEF Warned, WarningsAreToldOnce, Told, ToldOnce, Said, At
<1> QED
  BY <1>1, ExchangeInvariant, PTL
=============================================================================

--------------------------- MODULE RolloutProofs ---------------------------
(***************************************************************************)
(* For every number of candidates, every budget and every bound: a group   *)
(* stays within its ledger, charges what it spends and reports it, asks    *)
(* nothing after an unknown outcome and selects what has the best visible  *)
(* evidence.                                                               *)
(*                                                                         *)
(* The totals of the summary are a fold over the candidates.  There are    *)
(* four of them at most (K), so the fold is determined by its equation,    *)
(* which the sum of four parts satisfies (FoldIsTotal).                    *)
(***************************************************************************)
EXTENDS RolloutSafety, FiniteSetTheorems, TLAPS

Ledgers == [tokens : 0 .. TokenLimit, seconds : 0 .. SecondsLimit, calls : 0 .. CallLimit]

Candidates ==
  [diff    : {NoPatch} \cup {e.diff : e \in Evidence},
   visible : BOOLEAN,
   files   : Nat,
   status  : {"blocked", "failed"} \cup {e.status : e \in Evidence},
   tokens  : Int,
   seconds : Nat]

Requests == [attempt : Nat, empty : BOOLEAN, usage : Nat]

Verdicts == {"passed", "failed", "blocked"}

\* Types; the ledger is within the limits and has not shrunk since the
\* candidate began.
Typing ==
  /\ phase \in Phases
  /\ ledger \in Ledgers
  /\ before \in [tokens : 0 .. ledger.tokens, seconds : 0 .. ledger.seconds]
  /\ request \in Requests
  /\ cands \in Seq(Candidates) /\ verdicts \in Seq(Verdicts)
  /\ paid \in Nat /\ clock \in Nat /\ mark \in Nat /\ unpaid \in Nat /\ mark <= clock

\* A candidate that ended with what its run left is a candidate.
LEMMA CandidateTyping ==
  ASSUME NEW e \in Evidence \cup {Nothing}, NEW s \in {"blocked", "failed"} \cup {f.status : f \in Evidence},
         NEW t \in Int, NEW d \in Nat
  PROVE  Candidate(e, s, t, d) \in Candidates
<1>1. e.diff \in {NoPatch} \cup {f.diff : f \in Evidence}
  BY DEF Nothing
<1>2. e.visible \in BOOLEAN
  <2>1. CASE e \in Evidence
    BY <2>1, RolloutAssumption
  <2>2. CASE e = Nothing
    <3>1. Nothing.visible = FALSE
      BY DEF Nothing
    <3> QED
      BY <2>2, <3>1
  <2> QED
    BY <2>1, <2>2
<1>3. e.files \in Nat
  BY RolloutAssumption DEF Nothing
<1> QED
  BY <1>1, <1>2, <1>3 DEF Candidate, Candidates

\* Time does not run backwards.
LEMMA ElapsedTyping == Typing => Elapsed \in Nat
BY DEF Typing, Elapsed

\* What the ledger grants stays within the limits.
LEMMA ConsumedTyping ==
  ASSUME Typing, NEW t \in Nat, NEW s \in Nat, NEW c \in Nat
  PROVE  /\ Consumed(t, s, c) \in Ledgers
         /\ Consumed(t, s, c).tokens >= ledger.tokens /\ Consumed(t, s, c).seconds >= ledger.seconds
         /\ CanSpend(t, s, c) => /\ Consumed(t, s, c).tokens = ledger.tokens + t
                                 /\ Consumed(t, s, c).seconds = ledger.seconds + s
BY RolloutAssumption, SMTT(30) DEF Typing, Ledgers, Consumed, Charged, CanSpend

\* A run that returns adds a candidate to the group.
LEMMA ReturnTyping ==
  ASSUME Typing, NEW e \in Evidence, NEW s \in {"blocked", "failed"} \cup {f.status : f \in Evidence},
         NEW l \in Ledgers, l.seconds >= ledger.seconds, Returns(e, s, l)
  PROVE  cands' \in Seq(Candidates) /\ phase' \in Phases
<1> DEFINE c == Candidate(e, s, l.tokens - before.tokens, l.seconds - before.seconds)
<1>1. l.tokens - before.tokens \in Int /\ l.seconds - before.seconds \in Nat
  BY RolloutAssumption DEF Typing, Ledgers
<1>2. c \in Candidates
  BY <1>1, CandidateTyping
<1> QED
  BY <1>2 DEF Typing, Returns, Phases

\* So does one that does not.
LEMMA FailureTyping ==
  ASSUME Typing, RunFails
  PROVE  cands' \in Seq(Candidates) /\ phase' \in Phases
<1>1. Blocked \in Candidates
  BY CandidateTyping DEF Blocked
<1> QED
  BY <1>1 DEF Typing, RunFails, AfterFailure, Phases

\* A new request, and one that goes on, is a request.
LEMMA RequestTyping ==
  ASSUME Typing, NEW u \in Nat
  PROVE  /\ [request EXCEPT !.attempt = @ + 1] \in Requests
         /\ WithUsage(u) \in Requests
         /\ [WithUsage(u) EXCEPT !.empty = TRUE, !.attempt = 0] \in Requests
<1>1. [request EXCEPT !.attempt = @ + 1] \in Requests
  <2>1. request \in Requests
    BY DEF Typing
  <2>2. \A r \in Requests : [r EXCEPT !.attempt = @ + 1] \in Requests
    BY DEF Requests
  <2> QED
    BY <2>1, <2>2
<1>2. WithUsage(u) \in Requests
  <2>1. request \in Requests
    BY DEF Typing
  <2>2. \A r \in Requests : [r EXCEPT !.usage = @ + u] \in Requests
    BY DEF Requests
  <2> QED
    BY <2>1, <2>2 DEF WithUsage
<1>3. \A r \in Requests : [r EXCEPT !.empty = TRUE, !.attempt = 0] \in Requests
  BY DEF Requests
<1> QED
  BY <1>1, <1>2, <1>3

\* So is the first of a turn.
LEMMA IdleTyping == Idle \in Requests
<1>1. FALSE \in BOOLEAN /\ 0 \in Nat
  OBVIOUS
<1> QED
  BY <1>1 DEF Idle, Requests

\* The first state is well typed.
LEMMA InitTyped == Init => Typing
<1> SUFFICES ASSUME Init PROVE Typing
  OBVIOUS
<1>1. ledger \in Ledgers /\ ledger.tokens = 0 /\ ledger.seconds = 0
  BY RolloutAssumption DEF Init, Ledgers
<1>2. before \in [tokens : 0 .. ledger.tokens, seconds : 0 .. ledger.seconds]
  BY <1>1 DEF Init
<1> QED
  BY <1>1, <1>2, IdleTyping DEF Init, Typing, Phases

\* Every step of the group keeps the types and the limits.
LEMMA StepTyping == Typing /\ [Next]_vars => Typing'
<1> SUFFICES ASSUME Typing, [Next]_vars
             PROVE  Typing'
  OBVIOUS
<1> USE RolloutAssumption DEF Typing, Phases, Keep, spending, time
<1>1. CASE Exhausted
  BY <1>1, FailureTyping DEF Exhausted
<1>2. ASSUME NEW p \in Pauses, BeginCandidate(p)
      PROVE  Typing'
  <2>1. cands' \in Seq(Candidates) /\ phase' \in Phases
    BY <1>2, FailureTyping DEF BeginCandidate, GroupDies
  <2>2. /\ clock' = clock + p /\ mark' = clock' /\ unpaid' = unpaid + p
        /\ UNCHANGED <<ledger, request, verdicts, paid, unknown>>
    BY <1>2 DEF BeginCandidate, Unpaid
  <2>3. before' \in [tokens : 0 .. ledger'.tokens, seconds : 0 .. ledger'.seconds]
    BY <1>2, <2>2 DEF BeginCandidate, Ledgers
  <2>4. p \in Nat
    OBVIOUS
  <2> QED
    BY <2>1, <2>2, <2>3, <2>4
<1>3. CASE Select
  BY <1>3 DEF Select
<1>4. CASE EvaluatesNothing
  <2>1. verdicts' \in Seq(Verdicts)
    BY <1>4 DEF EvaluatesNothing, Verdicts
  <2> QED
    BY <1>4, <2>1 DEF EvaluatesNothing
<1>5. CASE Summarise
  BY <1>5 DEF Summarise
<1>6. ASSUME NEW p \in Pauses, Ask(p)
      PROVE  Typing'
  <2> DEFINE l == Consumed(0, Elapsed, 0)
  <2>1. request' \in Requests
    BY <1>6, IdleTyping DEF Ask
  <2>2. l \in Ledgers /\ l.tokens >= ledger.tokens /\ l.seconds >= ledger.seconds
    BY ConsumedTyping, ElapsedTyping
  <2>3. ledger' = l /\ UNCHANGED <<before, paid, verdicts, unknown>>
    BY <1>6 DEF Ask
  <2>4. cands' \in Seq(Candidates) /\ phase' \in Phases
    <3>1. CASE phase' = "post" /\ UNCHANGED cands
      BY <3>1
    <3>2. CASE \E e \in Evidence : Returns(e, "blocked", ledger')
      <4>1. ledger' \in Ledgers /\ ledger'.seconds >= ledger.seconds
        BY <2>2, <2>3
      <4> QED
        BY <3>2, <4>1, ReturnTyping
    <3> QED
      BY <1>6, <3>1, <3>2 DEF Ask
  <2>5. clock' \in Nat /\ mark' \in Nat /\ unpaid' \in Nat /\ mark' <= clock'
    BY <1>6 DEF Ask, Unpaid
  <2>6. before' \in [tokens : 0 .. ledger'.tokens, seconds : 0 .. ledger'.seconds]
    <3> HIDE DEF l
    <3> QED
      BY <2>2, <2>3 DEF Ledgers
  <2> HIDE DEF l
  <2> QED
    BY <2>1, <2>2, <2>3, <2>4, <2>5, <2>6
<1>7. ASSUME NEW s \in Durations, Settle(s)
      PROVE  Typing'
  <2> DEFINE l == Consumed(request.usage, Elapsed + s, 0)
  <2>1. l \in Ledgers /\ l.tokens >= ledger.tokens /\ l.seconds >= ledger.seconds
    <3>1. request.usage \in Nat /\ Elapsed + s \in Nat /\ 0 \in Nat
      BY ElapsedTyping DEF Requests
    <3> QED
      BY <3>1, ConsumedTyping
  <2>2. /\ ledger' = l /\ clock' = clock + s /\ mark' = clock'
        /\ UNCHANGED <<before, request, paid, unpaid, verdicts, unknown>>
    BY <1>7 DEF Settle
  <2>3. cands' \in Seq(Candidates) /\ phase' \in Phases
    <3>1. CASE phase' = "acts" /\ UNCHANGED cands
      BY <3>1
    <3>2. CASE \E e \in Evidence : Returns(e, "blocked", ledger)
      BY <3>2, ReturnTyping DEF Ledgers
    <3> QED
      BY <1>7, <3>1, <3>2 DEF Settle
  <2>4. clock' \in Nat /\ mark' \in Nat /\ mark' <= clock'
    BY <2>2
  <2> HIDE DEF l
  <2>5. before' \in [tokens : 0 .. ledger'.tokens, seconds : 0 .. ledger'.seconds]
    BY <2>1, <2>2 DEF Ledgers
  <2> QED
    BY <2>1, <2>2, <2>3, <2>4, <2>5
<1>8. ASSUME NEW s \in Durations, NEW p \in Pauses, RunTool(s, p)
      PROVE  Typing'
  <2> DEFINE l == Consumed(0, Elapsed + s, 1)
  <2>1. l \in Ledgers /\ l.tokens >= ledger.tokens /\ l.seconds >= ledger.seconds
    <3>1. Elapsed + s \in Nat /\ 0 \in Nat /\ 1 \in Nat
      BY ElapsedTyping
    <3> QED
      BY <3>1, ConsumedTyping
  <2>2. /\ ledger' = l /\ mark' = clock + s /\ clock' = mark' + p
        /\ UNCHANGED <<before, request, paid, unpaid, verdicts, unknown>>
    BY <1>8 DEF RunTool
  <2>3. cands' \in Seq(Candidates) /\ phase' \in Phases
    <3>1. CASE phase' = "turn" /\ UNCHANGED cands
      BY <3>1
    <3>2. CASE \E e \in Evidence : Returns(e, "blocked", ledger)
      BY <3>2, ReturnTyping DEF Ledgers
    <3> QED
      BY <1>8, <3>1, <3>2 DEF RunTool
  <2>4. clock' \in Nat /\ mark' \in Nat /\ mark' <= clock'
    BY <2>2
  <2> HIDE DEF l
  <2>5. before' \in [tokens : 0 .. ledger'.tokens, seconds : 0 .. ledger'.seconds]
    BY <2>1, <2>2 DEF Ledgers
  <2> QED
    BY <2>1, <2>2, <2>3, <2>4, <2>5
<1>9. CASE NoTool
  <2>1. cands' \in Seq(Candidates) /\ phase' \in Phases
    BY <1>9, ReturnTyping DEF NoTool, Ledgers
  <2> QED
    BY <1>9, <2>1 DEF NoTool
<1>10. ASSUME NEW p \in Pauses, Finish(p)
       PROVE  Typing'
  <2>1. PICK e \in Evidence, s \in {"failed"} \cup {f.status : f \in Evidence} : Returns(e, s, ledger)
    BY <1>10 DEF Finish
  <2>2. /\ clock' = clock + p /\ unpaid' = unpaid + (Elapsed + p)
        /\ UNCHANGED <<ledger, paid, mark, before, request, verdicts, unknown>>
    BY <1>10 DEF Finish, Unpaid
  <2>3. cands' \in Seq(Candidates) /\ phase' \in Phases
    BY <2>1, ReturnTyping DEF Ledgers
  <2>4. Elapsed \in Nat /\ p \in Nat
    BY ElapsedTyping
  <2> QED
    BY <2>2, <2>3, <2>4
<1>17. ASSUME NEW p \in Pauses, Refuse(p)
       PROVE  Typing'
  BY <1>17 DEF Refuse
<1>11. CASE BalanceRefuses
  BY <1>11, FailureTyping DEF BalanceRefuses, GroupDies
<1>12. CASE RateLimited
  <2>1. request' \in Requests /\ phase' \in Phases /\ UNCHANGED cands
    BY <1>12, RequestTyping DEF RateLimited, GroupDies, Posting
  <2> QED
    BY <1>12, <2>1 DEF RateLimited
<1>13. ASSUME NEW u \in Usages \union {0}, Lost(u) \/ ServerError(u)
       PROVE  Typing'
  <2>1. cands' \in Seq(Candidates) /\ phase' \in Phases
    BY <1>13, FailureTyping DEF Lost, ServerError, GroupDies
  <2> QED
    BY <1>13, <2>1 DEF Lost, ServerError, Charge
<1>14. ASSUME NEW u \in Usages, Answers(u) \/ AnswersNothing(u) \/ AnswersInvalidUsage(u)
       PROVE  Typing'
  <2>1. request' \in Requests
    BY <1>14, RequestTyping, ZenonT(60) DEF Answers, AnswersNothing, AnswersInvalidUsage
  <2>2. paid' \in Nat
    BY <1>14 DEF Answers, AnswersNothing, AnswersInvalidUsage, Charge
  <2>3. /\ phase' \in Phases
        /\ UNCHANGED <<ledger, time, before, cands, verdicts, unknown>>
    BY <1>14 DEF Answers, AnswersNothing, AnswersInvalidUsage, GroupDies
  <2> QED
    BY <2>1, <2>2, <2>3
<1>15. ASSUME NEW e \in Evaluations, NEW s \in Durations, Evaluate(e, s)
       PROVE  Typing'
  <2> DEFINE l == Consumed(0, s, 1)
  <2>1. /\ l \in Ledgers /\ l.tokens >= ledger.tokens /\ l.seconds >= ledger.seconds
        /\ clock + s \in Nat
    BY ConsumedTyping
  <2>2. ledger' = l /\ clock' = clock + s /\ UNCHANGED <<mark, unpaid>>
    BY <1>15 DEF Evaluate
  <2>3. verdicts' \in Seq(Verdicts)
    <3>1. Verdict(e) \in Verdicts
      BY DEF Verdict, Verdicts
    <3>2. (IF CanSpend(0, s, 1) THEN Verdict(e) ELSE "blocked") \in Verdicts
      BY <3>1 DEF Verdicts
    <3> QED
      BY <1>15, <3>2 DEF Evaluate
  <2> HIDE DEF l
  <2> QED
    BY <1>15, <2>1, <2>2, <2>3 DEF Evaluate, Ledgers
<1>16. CASE UNCHANGED vars
  BY <1>16 DEF vars
<1> QED
  BY <1>1, <1>2, <1>3, <1>4, <1>5, <1>6, <1>7, <1>8, <1>9, <1>10, <1>11, <1>12, <1>13, <1>14, <1>15, <1>16, <1>17
  DEF Next, Coordinate


-----------------------------------------------------------------------------
\* Candidates, verdicts and an unknown outcome stay; so does an exception.
LEMMA StepGrows ==
  ASSUME Typing, [Next]_vars
  PROVE  /\ cands' = cands \/ (phase \notin {"evaluate", "done"} /\ \E c : cands' = Append(cands, c))
         /\ verdicts' = verdicts \/ \E v : verdicts' = Append(verdicts, v)
         /\ unknown => unknown'
         /\ phase = "raised" => phase' = "raised"
<1> USE DEF Keep, spending, time
<1>1. CASE Exhausted
  BY <1>1 DEF Exhausted, RunFails
<1>2. ASSUME NEW p \in Pauses, BeginCandidate(p)
      PROVE  /\ cands' = cands \/ \E c : cands' = Append(cands, c)
             /\ UNCHANGED <<verdicts, unknown>> /\ phase = "next"
  BY <1>2 DEF BeginCandidate, RunFails, GroupDies
<1>3. CASE Select
  BY <1>3 DEF Select
<1>4. CASE EvaluatesNothing
  BY <1>4 DEF EvaluatesNothing
<1>5. CASE Summarise
  BY <1>5 DEF Summarise
<1>6. ASSUME NEW p \in Pauses, Ask(p) \/ Refuse(p) \/ Finish(p)
      PROVE  /\ cands' = cands \/ \E c : cands' = Append(cands, c)
             /\ UNCHANGED <<verdicts, unknown>> /\ phase \in {"turn", "acts"}
  BY <1>6 DEF Ask, Refuse, Finish, Returns
<1>7. ASSUME NEW s \in Durations, Settle(s) \/ \E p \in Pauses : RunTool(s, p)
      PROVE  /\ cands' = cands \/ \E c : cands' = Append(cands, c)
             /\ UNCHANGED <<verdicts, unknown>> /\ phase \in {"answered", "acts"}
  BY <1>7 DEF Settle, RunTool, Returns
<1>8. CASE NoTool
  BY <1>8 DEF NoTool, Returns
<1>10. CASE BalanceRefuses \/ RateLimited
  BY <1>10 DEF BalanceRefuses, RateLimited, Posting, RunFails, GroupDies
<1>11. ASSUME NEW u \in Usages \union {0}, Lost(u) \/ ServerError(u)
       PROVE  /\ cands' = cands \/ \E c : cands' = Append(cands, c)
              /\ UNCHANGED verdicts /\ unknown' /\ phase = "post"
  BY <1>11 DEF Lost, ServerError, Posting, RunFails, GroupDies
<1>12. ASSUME NEW u \in Usages, Answers(u) \/ AnswersNothing(u) \/ AnswersInvalidUsage(u)
       PROVE  UNCHANGED <<cands, verdicts, unknown>> /\ phase = "post"
  BY <1>12 DEF Answers, AnswersNothing, AnswersInvalidUsage, Posting, GroupDies
<1>13. ASSUME NEW e \in Evaluations, NEW s \in Durations, Evaluate(e, s)
       PROVE  /\ UNCHANGED <<cands, unknown>> /\ phase = "evaluate"
              /\ \E v : verdicts' = Append(verdicts, v)
  BY <1>13 DEF Evaluate
<1>14. CASE UNCHANGED vars
  BY <1>14 DEF vars
<1> QED
  BY <1>1, <1>2, <1>3, <1>4, <1>5, <1>6, <1>7, <1>8, <1>10, <1>11, <1>12, <1>13, <1>14
  DEF Next, Coordinate


\* A group that is clean was clean before.
LEMMA CleanBefore ==
  ASSUME Typing, [Next]_vars, Clean'
  PROVE  Clean
<1>1. phase # "raised" /\ ~unknown
  BY StepGrows DEF Clean
<1>2. \A i \in DOMAIN cands : cands[i].status # "blocked"
  <2>1. CASE cands' = cands
    BY <2>1 DEF Clean
  <2>2. ASSUME NEW c, cands' = Append(cands, c)
        PROVE  \A i \in DOMAIN cands : i \in DOMAIN cands' /\ cands'[i] = cands[i]
    BY <2>2 DEF Typing
  <2> QED
    BY <2>1, <2>2, StepGrows DEF Clean
<1>3. \A i \in DOMAIN verdicts : verdicts[i] # "blocked"
  <2>1. CASE verdicts' = verdicts
    BY <2>1 DEF Clean
  <2>2. ASSUME NEW v, verdicts' = Append(verdicts, v)
        PROVE  \A i \in DOMAIN verdicts : i \in DOMAIN verdicts' /\ verdicts'[i] = verdicts[i]
    BY <2>2 DEF Typing
  <2> QED
    BY <2>1, <2>2, StepGrows DEF Clean
<1> QED
  BY <1>1, <1>2, <1>3 DEF Clean

\* A run that is blocked, or does not return, leaves the group unclean.
LEMMA BlockedIsUnclean ==
  ASSUME Typing, RunFails \/ \E e \in Evidence : \E l : Returns(e, "blocked", l)
  PROVE  ~Clean'
<1>1. \E c : cands' = Append(cands, c) /\ c.status = "blocked"
  <2>1. CASE RunFails
    <3>1. Blocked.status = "blocked"
      BY DEF Blocked, Candidate
    <3> QED
      BY <2>1, <3>1 DEF RunFails
  <2>2. ASSUME NEW e \in Evidence, NEW l, Returns(e, "blocked", l)
        PROVE  \E c : cands' = Append(cands, c) /\ c.status = "blocked"
    <3> DEFINE c == Candidate(e, "blocked", l.tokens - before.tokens, l.seconds - before.seconds)
    <3>1. c.status = "blocked"
      BY DEF Candidate
    <3>2. cands' = Append(cands, c)
      BY <2>2 DEF Returns
    <3> QED
      BY <3>1, <3>2
  <2> QED
    BY <2>1, <2>2
<1>2. PICK c : cands' = Append(cands, c) /\ c.status = "blocked"
  BY <1>1
<1>3. Len(cands) + 1 \in DOMAIN cands' /\ cands'[Len(cands) + 1] = c
  BY <1>2 DEF Typing
<1> QED
  BY <1>2, <1>3 DEF Clean

\* The ledger of SpendingIsCharged, without the totals of the summary.
Exact == Clean => LedgerIsExact

\* Every step charges what it spends, or leaves the group unclean.
LEMMA StepExact == Typing /\ Exact /\ [Next]_vars => Exact'
<1> SUFFICES ASSUME Typing, Exact, [Next]_vars, Clean'
             PROVE  LedgerIsExact'
  BY DEF Exact
<1>0. LedgerIsExact
  BY CleanBefore DEF Exact
<1> USE RolloutAssumption, <1>0 DEF LedgerIsExact, Pending, Outstanding, Elapsed, Keep, spending, time
<1>1. CASE Exhausted \/ BalanceRefuses
  BY <1>1, BlockedIsUnclean DEF Exhausted, BalanceRefuses, GroupDies, Clean
<1>2. CASE Select \/ EvaluatesNothing \/ Summarise
  BY <1>2 DEF Select, EvaluatesNothing, Summarise
<1>12. ASSUME NEW p \in Pauses, BeginCandidate(p)
       PROVE  LedgerIsExact'
  <2>1. phase' = "turn"
    BY <1>12, BlockedIsUnclean DEF BeginCandidate, GroupDies, Clean
  <2>2. /\ phase = "next" /\ clock' = clock + p /\ mark' = clock' /\ unpaid' = unpaid + p
        /\ UNCHANGED <<ledger, paid>>
    BY <1>12 DEF BeginCandidate, Unpaid
  <2> QED
    BY <2>1, <2>2 DEF Typing, Ledgers
<1>3. ASSUME NEW p \in Pauses, Ask(p)
      PROVE  LedgerIsExact'
  <2>1. /\ CanSpend(Bound, Elapsed, 0) /\ ledger'.seconds < SecondsLimit
        /\ phase' = "post" /\ request' = Idle
    BY <1>3, BlockedIsUnclean DEF Ask
  <2>2. ledger.seconds + Elapsed <= SecondsLimit /\ ledger.tokens + 0 <= TokenLimit /\ ledger.calls + 0 <= CallLimit
    BY <2>1 DEF CanSpend, Typing, Ledgers
  <2>3. ledger'.tokens = ledger.tokens + 0 /\ ledger'.seconds = ledger.seconds + Elapsed
    BY <1>3, <2>2 DEF Ask, Consumed, Charged, CanSpend
  <2>4. phase = "turn" /\ clock' = clock + p /\ mark' = clock' /\ unpaid' = unpaid + p /\ paid' = paid
    BY <1>3, <2>1 DEF Ask, Unpaid
  <2>5. Outstanding = Elapsed /\ Outstanding' = 0 /\ Pending = 0 /\ Pending' = 0
    BY <2>1, <2>4 DEF Idle, Typing
  <2>6. /\ clock \in Int /\ mark \in Int /\ unpaid \in Int /\ paid \in Int /\ p \in Int
        /\ ledger.tokens \in Int /\ ledger.seconds \in Int
    BY DEF Typing, Ledgers
  <2> HIDE DEF Outstanding, Pending
  <2> QED
    BY <2>3, <2>4, <2>5, <2>6
<1>4. ASSUME NEW s \in Durations, Settle(s)
      PROVE  LedgerIsExact'
  <2>1. CanSpend(request.usage, Elapsed + s, 0)
    BY <1>4, BlockedIsUnclean DEF Settle
  <2>2. ledger'.tokens = ledger.tokens + request.usage /\ ledger'.seconds = ledger.seconds + (Elapsed + s)
    BY <1>4, <2>1 DEF Settle, Consumed, Charged
  <2>3. /\ phase = "answered" /\ phase' = "acts" /\ clock' = clock + s /\ mark' = clock'
        /\ UNCHANGED <<paid, unpaid>>
    BY <1>4, <2>1 DEF Settle
  <2>4. Outstanding = Elapsed /\ Outstanding' = 0 /\ Pending = request.usage /\ Pending' = 0
    BY <2>3 DEF Typing
  <2>5. /\ clock \in Int /\ mark \in Int /\ unpaid \in Int /\ paid \in Int /\ s \in Int
        /\ ledger.tokens \in Int /\ ledger.seconds \in Int /\ request.usage \in Int
    BY DEF Typing, Ledgers, Requests
  <2> HIDE DEF Outstanding, Pending
  <2> QED
    BY <2>2, <2>3, <2>4, <2>5
<1>5. ASSUME NEW s \in Durations, NEW p \in Pauses, RunTool(s, p)
      PROVE  LedgerIsExact'
  <2>1. CanSpend(0, Elapsed + s, 1)
    BY <1>5, BlockedIsUnclean DEF RunTool
  <2>2. ledger'.tokens = ledger.tokens + 0 /\ ledger'.seconds = ledger.seconds + (Elapsed + s)
    BY <1>5, <2>1 DEF RunTool, Consumed, Charged
  <2>3. /\ phase = "acts" /\ phase' = "turn" /\ mark' = clock + s /\ clock' = mark' + p
        /\ UNCHANGED <<paid, unpaid>>
    BY <1>5, <2>1 DEF RunTool
  <2>4. Outstanding = Elapsed /\ Outstanding' = p /\ Pending = 0 /\ Pending' = 0
    <3>1. mark' \in Int /\ p \in Int
      BY <2>3 DEF Typing
    <3> QED
      BY <2>3, <3>1
  <2>5. /\ clock \in Int /\ mark \in Int /\ unpaid \in Int /\ paid \in Int /\ s \in Int /\ p \in Int
        /\ ledger.tokens \in Int /\ ledger.seconds \in Int
    BY DEF Typing, Ledgers
  <2> HIDE DEF Outstanding, Pending
  <2> QED
    BY <2>2, <2>3, <2>4, <2>5
<1>6. CASE NoTool
  BY <1>6, BlockedIsUnclean DEF NoTool
<1>13. ASSUME NEW p \in Pauses, Finish(p)
       PROVE  LedgerIsExact'
  <2>1. /\ phase \in {"acts", "turn"} /\ phase' \in {"next", "select"}
        /\ clock' = clock + p /\ unpaid' = unpaid + (Elapsed + p) /\ UNCHANGED <<ledger, paid>>
    BY <1>13 DEF Finish, Returns, Unpaid
  <2>2. Outstanding = Elapsed /\ Outstanding' = 0 /\ Pending = 0 /\ Pending' = 0
    BY <2>1
  <2>3. /\ clock \in Int /\ mark \in Int /\ unpaid \in Int /\ p \in Int
        /\ ledger.tokens \in Int /\ ledger.seconds \in Int
    BY DEF Typing, Ledgers
  <2> HIDE DEF Outstanding, Pending
  <2> QED
    BY <2>1, <2>2, <2>3
<1>14. ASSUME NEW p \in Pauses, Refuse(p)
       PROVE  LedgerIsExact'
  <2>1. /\ phase = "acts" /\ phase' = "turn" /\ clock' = clock + p
        /\ UNCHANGED <<ledger, paid, mark, unpaid>>
    BY <1>14 DEF Refuse
  <2>2. Outstanding = Elapsed /\ Outstanding' = Elapsed + p /\ Pending = 0 /\ Pending' = 0
    <3>1. clock \in Int /\ mark \in Int /\ p \in Int
      BY DEF Typing
    <3> QED
      BY <2>1, <3>1
  <2>3. /\ clock \in Int /\ mark \in Int /\ unpaid \in Int /\ p \in Int
        /\ ledger.tokens \in Int /\ ledger.seconds \in Int
    BY DEF Typing, Ledgers
  <2> HIDE DEF Outstanding, Pending
  <2> QED
    BY <2>1, <2>2, <2>3
<1>7. CASE RateLimited
  BY <1>7 DEF RateLimited, Posting, GroupDies, Clean, Typing, Requests
<1>8. ASSUME NEW u \in Usages \union {0}, Lost(u) \/ ServerError(u)
      PROVE  LedgerIsExact'
  BY <1>8 DEF Lost, ServerError, Clean
<1>9. ASSUME NEW u \in Usages, Answers(u) \/ AnswersNothing(u) \/ AnswersInvalidUsage(u)
      PROVE  LedgerIsExact'
  <2>1. Answers(u) \/ AnswersNothing(u)
    BY <1>9 DEF AnswersInvalidUsage, GroupDies, Clean
  <2>2. WithUsage(u).usage = request.usage + u
    BY DEF WithUsage, Typing, Requests
  <2>3. request'.usage = request.usage + u
    BY <2>1, <2>2, RequestTyping DEF Answers, AnswersNothing, Requests
  <2>4. /\ phase = "post" /\ phase' \in {"post", "answered"}
        /\ paid' = paid + u /\ UNCHANGED <<ledger, time>>
    BY <2>1 DEF Answers, AnswersNothing, Posting, Charge
  <2> QED
    BY <2>3, <2>4, SMTT(30) DEF Typing, Requests, Ledgers
<1>10. ASSUME NEW e \in Evaluations, NEW s \in Durations, Evaluate(e, s)
       PROVE  LedgerIsExact'
  <2>1. CanSpend(0, s, 1)
    <3> SUFFICES ASSUME ~CanSpend(0, s, 1) PROVE FALSE
      OBVIOUS
    <3>1. verdicts' = Append(verdicts, "blocked")
      BY <1>10 DEF Evaluate
    <3>2. Len(verdicts) + 1 \in DOMAIN verdicts' /\ verdicts'[Len(verdicts) + 1] = "blocked"
      BY <3>1 DEF Typing, Verdicts
    <3> QED
      BY <3>2 DEF Clean
  <2>2. ledger'.tokens = ledger.tokens + 0 /\ ledger'.seconds = ledger.seconds + s
    BY <1>10, <2>1 DEF Evaluate, Consumed, Charged
  <2>3. /\ phase = "evaluate" /\ phase' = "evaluate" /\ clock' = clock + s
        /\ UNCHANGED <<paid, unpaid>>
    BY <1>10 DEF Evaluate
  <2> QED
    BY <2>2, <2>3 DEF Typing, Ledgers
<1>11. CASE UNCHANGED vars
  BY <1>11 DEF vars
<1> QED
  BY <1>1, <1>2, <1>3, <1>4, <1>5, <1>6, <1>7, <1>8, <1>9, <1>10, <1>11, <1>12, <1>13, <1>14
  DEF Next, Coordinate

-----------------------------------------------------------------------------
\* No step asks anything after an unknown outcome.
LEMMA StepStops == UnknownOutcomesStopTheGroup /\ [Next]_vars => UnknownOutcomesStopTheGroup'
<1> SUFFICES ASSUME UnknownOutcomesStopTheGroup, [Next]_vars, unknown'
             PROVE  phase' \in {"select", "evaluate", "done", "raised"}
  BY DEF UnknownOutcomesStopTheGroup
<1> USE DEF UnknownOutcomesStopTheGroup, Keep
<1>1. CASE Exhausted
  BY <1>1 DEF Exhausted
<1>2. ASSUME NEW p \in Pauses, BeginCandidate(p) \/ Ask(p) \/ Refuse(p) \/ Finish(p)
      PROVE  FALSE
  BY <1>2 DEF BeginCandidate, Ask, Refuse, Finish
<1>3. CASE Select
  BY <1>3 DEF Select
<1>4. CASE EvaluatesNothing
  BY <1>4 DEF EvaluatesNothing
<1>5. CASE Summarise
  BY <1>5 DEF Summarise
<1>6. CASE NoTool
  BY <1>6 DEF NoTool
<1>7. ASSUME NEW s \in Durations, Settle(s) \/ \E p \in Pauses : RunTool(s, p)
      PROVE  FALSE
  BY <1>7 DEF Settle, RunTool
<1>8. CASE BalanceRefuses \/ RateLimited
  BY <1>8 DEF BalanceRefuses, RateLimited, Posting
<1>9. ASSUME NEW u \in Usages \union {0}, Lost(u) \/ ServerError(u)
      PROVE  phase' \in {"select", "raised"}
  BY <1>9 DEF Lost, ServerError, RunFails, AfterFailure, GroupDies
<1>10. ASSUME NEW u \in Usages, Answers(u) \/ AnswersNothing(u) \/ AnswersInvalidUsage(u)
       PROVE  FALSE
  BY <1>10 DEF Answers, AnswersNothing, AnswersInvalidUsage, Posting
<1>11. ASSUME NEW e \in Evaluations, NEW s \in Durations, Evaluate(e, s)
       PROVE  phase' = "evaluate"
  BY <1>11 DEF Evaluate
<1>12. CASE UNCHANGED vars
  BY <1>12 DEF vars
<1> QED
  BY <1>1, <1>2, <1>3, <1>4, <1>5, <1>6, <1>7, <1>8, <1>9, <1>10, <1>11, <1>12
  DEF Next, Coordinate

-----------------------------------------------------------------------------
\* The smaller of two numbers.
LEMMA MinOfTwo ==
  ASSUME NEW m \in Nat, NEW n \in Nat
  PROVE  Min({m, n}) \in {m, n} /\ Min({m, n}) <= m /\ Min({m, n}) <= n
<1>1. \E x \in {m, n} : \A y \in {m, n} : x <= y
  <2>1. CASE m <= n
    BY <2>1
  <2>2. CASE ~(m <= n)
    BY <2>2
  <2> QED
    BY <2>1, <2>2
<1>2. Min({m, n}) \in {m, n} /\ \A y \in {m, n} : Min({m, n}) <= y
  BY <1>1 DEF Min
<1> QED
  BY <1>2

\* The penalties of a candidate are smaller than its smallest evidence.
LEMMA PenaltyTyping ==
  ASSUME NEW c \in Candidates
  PROVE  FilePenalty(c.files) \in 0 .. 30 /\ 8 * Min({c.seconds, 1}) \in 0 .. 8
<1>1. c.files \in Nat /\ c.seconds \in Nat
  BY DEF Candidates
<1>2. Min({c.files, 10}) \in 0 .. 10 /\ Min({c.seconds, 1}) \in 0 .. 1
  BY <1>1, MinOfTwo
<1> QED
  BY <1>2 DEF FilePenalty

\* What outdoes a candidate has a higher score, whatever the penalties are.
LEMMA EvidenceDecides ==
  ASSUME NEW c \in Candidates, NEW d \in Candidates, Outdoes(c, d)
  PROVE  Score(c) > Score(d)
<1> DEFINE patch(x)     == IF x.diff # NoPatch THEN 60 ELSE 0
           completed(x) == IF x.status = "completed" THEN 80 ELSE 0
           visible(x)   == IF x.visible THEN 200 ELSE 0
           penalty(x)   == FilePenalty(x.files) + 8 * Min({x.seconds, 1})
<1>2. ASSUME NEW x \in Candidates
      PROVE  /\ Score(x) = completed(x) + patch(x) + visible(x) - penalty(x)
             /\ penalty(x) \in 0 .. 38
  <2>2. FilePenalty(x.files) \in 0 .. 30 /\ 8 * Min({x.seconds, 1}) \in 0 .. 8
    BY PenaltyTyping
  <2>4. penalty(x) \in 0 .. 38
    BY <2>2
  <2>5. /\ completed(x) \in {0, 80} /\ patch(x) \in {0, 60} /\ visible(x) \in {0, 200}
    OBVIOUS
  <2>6. Score(x) = completed(x) + patch(x) + visible(x) - FilePenalty(x.files) - 8 * Min({x.seconds, 1})
    BY DEF Score
  <2> HIDE DEF completed, patch, visible
  <2>7. \A a, b, v, f, g \in Int : a + b + v - f - g = a + b + v - (f + g)
    OBVIOUS
  <2>8. /\ completed(x) \in Int /\ patch(x) \in Int /\ visible(x) \in Int
        /\ FilePenalty(x.files) \in Int /\ 8 * Min({x.seconds, 1}) \in Int
    BY <2>2, <2>5
  <2>9. Score(x) = completed(x) + patch(x) + visible(x) - penalty(x)
    BY <2>6, <2>7, <2>8
  <2> QED
    BY <2>4, <2>9
<1>3. Score(c) = completed(c) + patch(c) + visible(c) - penalty(c) /\ penalty(c) \in 0 .. 38
  BY <1>2
<1>4. Score(d) = completed(d) + patch(d) + visible(d) - penalty(d) /\ penalty(d) \in 0 .. 38
  BY <1>2
<1>5. CASE c.visible /\ ~d.visible
  <2>1. completed(c) >= 0 /\ patch(c) >= 0 /\ completed(d) <= 80 /\ patch(d) <= 60
    OBVIOUS
  <2>2. visible(c) = 200 /\ visible(d) = 0
    BY <1>5
  <2>3. completed(c) \in Int /\ patch(c) \in Int /\ completed(d) \in Int /\ patch(d) \in Int
    OBVIOUS
  <2> HIDE DEF completed, patch, visible, penalty
  <2> QED
    BY <2>1, <2>2, <2>3, <1>3, <1>4
<1>6. CASE EvidenceOf(d) \subseteq EvidenceOf(c) /\ EvidenceOf(d) # EvidenceOf(c)
  <2>1. PICK e \in {"visible", "completed", "patch"} : e \in EvidenceOf(c) /\ e \notin EvidenceOf(d)
    BY <1>6 DEF EvidenceOf
  <2>2. /\ d.visible => c.visible
        /\ d.status = "completed" => c.status = "completed"
        /\ d.diff # NoPatch => c.diff # NoPatch
    BY <1>6 DEF EvidenceOf
  <2>3. /\ completed(c) \in {0, 80} /\ completed(d) \in {0, 80} /\ completed(c) >= completed(d)
        /\ patch(c) \in {0, 60} /\ patch(d) \in {0, 60} /\ patch(c) >= patch(d)
        /\ visible(c) \in {0, 200} /\ visible(d) \in {0, 200} /\ visible(c) >= visible(d)
    BY <2>2
  <2>4. \/ visible(c) = 200 /\ visible(d) = 0
        \/ completed(c) = 80 /\ completed(d) = 0
        \/ patch(c) = 60 /\ patch(d) = 0
    BY <2>1 DEF EvidenceOf
  <2> HIDE DEF completed, patch, visible, penalty
  <2> QED
    BY <2>3, <2>4, <1>3, <1>4
<1> QED
  BY <1>5, <1>6 DEF Outdoes

\* A score is a number.
LEMMA ScoreTyping ==
  ASSUME NEW c \in Candidates
  PROVE  Score(c) \in Int
BY PenaltyTyping DEF Score

\* The one that is selected has the highest score, and no candidate follows it.
Settled == selection # 0 => phase \in {"evaluate", "done"} /\ selection \in Best

\* No step unsettles the selection.
LEMMA StepSettled == Typing /\ Settled /\ [Next]_vars => Settled'
<1> SUFFICES ASSUME Typing, Settled, [Next]_vars
             PROVE  Settled'
  OBVIOUS
<1> USE DEF Keep
<1>1. CASE Select
  <2> SUFFICES ASSUME selection' # 0
               PROVE  selection' \in Best
    BY <1>1 DEF Select, Settled, Best, Unique
  <2>1. Cardinality(Best) = 1 /\ selection' = CHOOSE i \in Best : TRUE
    BY <1>1 DEF Select
  <2>2. Best # {}
    BY <2>1, FS_EmptySet
  <2> QED
    BY <2>1, <2>2
<1>2. \/ selection' = selection /\ (phase \in {"evaluate", "done"} => phase' \in {"evaluate", "done"})
      \/ Select
  <2>1. CASE Exhausted \/ EvaluatesNothing \/ Summarise
    BY <2>1 DEF Exhausted, EvaluatesNothing, Summarise
  <2>2. CASE NoTool \/ BalanceRefuses \/ RateLimited
    BY <2>2 DEF NoTool, BalanceRefuses, RateLimited, Posting
  <2>8. ASSUME NEW p \in Pauses, BeginCandidate(p) \/ Ask(p) \/ Refuse(p) \/ Finish(p)
        PROVE  selection' = selection /\ phase \in {"next", "turn", "acts"}
    BY <2>8 DEF BeginCandidate, Ask, Refuse, Finish
  <2>3. ASSUME NEW s \in Durations, Settle(s) \/ \E p \in Pauses : RunTool(s, p)
        PROVE  selection' = selection /\ phase \in {"answered", "acts"}
    BY <2>3 DEF Settle, RunTool
  <2>4. ASSUME NEW u \in Usages \union {0}, Lost(u) \/ ServerError(u)
        PROVE  selection' = selection /\ phase = "post"
    BY <2>4 DEF Lost, ServerError, Posting
  <2>5. ASSUME NEW u \in Usages, Answers(u) \/ AnswersNothing(u) \/ AnswersInvalidUsage(u)
        PROVE  selection' = selection /\ phase = "post"
    BY <2>5 DEF Answers, AnswersNothing, AnswersInvalidUsage, Posting
  <2>6. ASSUME NEW e \in Evaluations, NEW s \in Durations, Evaluate(e, s)
        PROVE  selection' = selection /\ phase' = "evaluate"
    BY <2>6 DEF Evaluate
  <2>7. CASE UNCHANGED vars
    BY <2>7 DEF vars
  <2> QED
    BY <2>1, <2>2, <2>3, <2>4, <2>5, <2>6, <2>7, <2>8 DEF Next, Coordinate
<1>3. CASE selection' = selection /\ (phase \in {"evaluate", "done"} => phase' \in {"evaluate", "done"})
  <2> SUFFICES ASSUME selection # 0
               PROVE  phase' \in {"evaluate", "done"} /\ selection \in Best'
    BY <1>3 DEF Settled
  <2>1. cands' = cands
    BY StepGrows DEF Settled
  <2> QED
    BY <1>3, <2>1 DEF Settled, Best, Unique
<1> QED
  BY <1>1, <1>2, <1>3

\* The highest score has the best evidence.
LEMMA HighestHasEvidence == Typing /\ Settled => SelectionHasEvidence
<1> SUFFICES ASSUME Typing, Settled, selection # 0, NEW i \in Unique, Outdoes(cands[i], cands[selection])
             PROVE  FALSE
  BY DEF SelectionHasEvidence
<1>1. i \in DOMAIN cands /\ selection \in DOMAIN cands
  BY DEF Settled, Best, Unique
<1>2. cands[i] \in Candidates /\ cands[selection] \in Candidates
  BY <1>1 DEF Typing
<1>3. Score(cands[i]) > Score(cands[selection])
  BY <1>2, EvidenceDecides
<1>4. Score(cands[selection]) >= Score(cands[i])
  BY DEF Settled, Best
<1>5. Score(cands[i]) \in Int /\ Score(cands[selection]) \in Int
  BY <1>2, ScoreTyping
<1> QED
  BY <1>3, <1>4, <1>5

-----------------------------------------------------------------------------
\* The group stays within the limits of its ledger.
THEOREM GroupIsTyped == Spec => []Typing
<1> QED
  BY InitTyped, StepTyping, PTL DEF Spec

\* After a request whose outcome is unknown the group asks nothing any more.
THEOREM UnknownStops == Spec => []UnknownOutcomesStopTheGroup
<1>1. Init => UnknownOutcomesStopTheGroup
  BY DEF Init, UnknownOutcomesStopTheGroup
<1> QED
  BY <1>1, StepStops, PTL DEF Spec

\* While nothing was blocked or died, the ledger has every token, and every
\* second but those of new workspaces, prepared requests and the ends of runs.
THEOREM SpendingIsExact == Spec => []Exact
<1>1. Init => Exact
  BY RolloutAssumption DEF Init, Exact, LedgerIsExact, Pending, Outstanding
<1> QED
  BY <1>1, GroupIsTyped, StepExact, PTL DEF Spec

\* The selected candidate has the best visible evidence.
THEOREM SelectionIsBest == Spec => []SelectionHasEvidence
<1>1. Init => Settled
  BY DEF Init, Settled
<1> QED
  BY <1>1, GroupIsTyped, StepSettled, HighestHasEvidence, PTL DEF Spec

-----------------------------------------------------------------------------
\* The tokens of a group, which has four candidates at most.
Part(s, c, i)   == IF i \in s THEN c[i].tokens ELSE 0
PartsOf(s, c)   == Part(s, c, 1) + Part(s, c, 2) + Part(s, c, 3) + Part(s, c, 4)
TotalOf(c)      == PartsOf(DOMAIN c, c)
SumOf(c)        == FoldSeq(LAMBDA d, sum : d.tokens + sum, 0, c)

\* An equation that determines what the fold computes.
IsFold(h, c) ==
  h = [s \in SUBSET (DOMAIN c) |->
         IF s = {} THEN 0
         ELSE c[CHOOSE x \in s : TRUE].tokens + h[s \ {CHOOSE x \in s : TRUE}]]

LEMMA FoldUnfolds ==
  ASSUME NEW c
  PROVE  SumOf(c) = (CHOOSE h : IsFold(h, c))[DOMAIN c]
BY DEF SumOf, FoldSeq, FoldFunction, FoldFunctionOnSet, MapThenFoldSet, IsFold

\* At most four candidates with numbers of tokens.
Short(c) == \E n \in 0 .. 4 : DOMAIN c = 1 .. n /\ \A i \in 1 .. n : c[i].tokens \in Int

\* The parts of a set without one of its elements.
LEMMA PartsSplit ==
  ASSUME NEW c, Short(c), NEW s \in SUBSET (DOMAIN c), NEW x \in s
  PROVE  PartsOf(s, c) = c[x].tokens + PartsOf(s \ {x}, c)
<1>1. PICK n \in 0 .. 4 : DOMAIN c = 1 .. n /\ \A i \in 1 .. n : c[i].tokens \in Int
  BY DEF Short
<1>2. x \in 1 .. 4 /\ c[x].tokens \in Int
  BY <1>1
<1>3. \A i \in 1 .. 4 : Part(s, c, i) \in Int /\ Part(s \ {x}, c, i) \in Int
  BY <1>1 DEF Part
<1>4. Part(s, c, x) = c[x].tokens /\ Part(s \ {x}, c, x) = 0
  BY DEF Part
<1>5. \A i \in 1 .. 4 : i # x => Part(s \ {x}, c, i) = Part(s, c, i)
  BY DEF Part
<1> QED
  BY <1>2, <1>3, <1>4, <1>5 DEF PartsOf

\* The fold adds the tokens up.
LEMMA FoldIsTotal ==
  ASSUME NEW c, Short(c)
  PROVE  SumOf(c) = TotalOf(c)
<1> DEFINE D == DOMAIN c
           g == [s \in SUBSET D |-> PartsOf(s, c)]
           least(s) == CHOOSE x \in s : TRUE
<1>1. \A s \in SUBSET D : s # {} => least(s) \in s
  OBVIOUS
<1>2. PartsOf({}, c) = 0
  BY DEF PartsOf, Part
<1>3. IsFold(g, c)
  <2>1. ASSUME NEW s \in SUBSET D
        PROVE  PartsOf(s, c) = IF s = {} THEN 0 ELSE c[least(s)].tokens + g[s \ {least(s)}]
    <3>1. CASE s = {}
      BY <1>2, <3>1
    <3>2. CASE s # {}
      <4>1. PartsOf(s, c) = c[least(s)].tokens + PartsOf(s \ {least(s)}, c)
        BY <1>1, <3>2, PartsSplit
      <4>2. g[s \ {least(s)}] = PartsOf(s \ {least(s)}, c)
        OBVIOUS
      <4> QED
        BY <3>2, <4>1, <4>2
    <3> QED
      BY <3>1, <3>2
  <2> QED
    BY <2>1 DEF IsFold
<1>4. PICK h : h = (CHOOSE e : IsFold(e, c)) /\ IsFold(h, c)
  BY <1>3
<1> HIDE DEF g
<1>5. \A s \in SUBSET D : h[s] = IF s = {} THEN 0 ELSE c[least(s)].tokens + h[s \ {least(s)}]
  BY <1>4 DEF IsFold
<1> DEFINE Up(k) == \A s \in SUBSET D : IsFiniteSet(s) /\ Cardinality(s) <= k => h[s] = PartsOf(s, c)
<1>6. Up(0)
  <2> SUFFICES ASSUME NEW s \in SUBSET D, IsFiniteSet(s), Cardinality(s) <= 0
               PROVE  h[s] = PartsOf(s, c)
    OBVIOUS
  <2>1. s = {}
    BY FS_CardinalityType, FS_EmptySet
  <2> QED
    BY <1>2, <1>5, <2>1
<1>7. ASSUME NEW k \in Nat, Up(k)
      PROVE  Up(k + 1)
  <2> SUFFICES ASSUME NEW s \in SUBSET D, IsFiniteSet(s), Cardinality(s) <= k + 1
               PROVE  h[s] = PartsOf(s, c)
    OBVIOUS
  <2>1. CASE s = {}
    BY <1>2, <1>5, <2>1
  <2>2. CASE s # {}
    <3>1. PICK x : x = least(s) /\ x \in s
      BY <1>1, <2>2
    <3>2. /\ IsFiniteSet(s \ {x}) /\ Cardinality(s \ {x}) = Cardinality(s) - 1
          /\ Cardinality(s) \in Nat
      BY <3>1, FS_RemoveElement, FS_CardinalityType
    <3>3. h[s \ {x}] = PartsOf(s \ {x}, c)
      BY <1>7, <3>2
    <3>4. h[s] = c[x].tokens + h[s \ {x}]
      BY <1>5, <2>2, <3>1
    <3>5. PartsOf(s, c) = c[x].tokens + PartsOf(s \ {x}, c)
      BY <3>1, PartsSplit
    <3> QED
      BY <3>3, <3>4, <3>5
  <2> QED
    BY <2>1, <2>2
<1>8. IsFiniteSet(D) /\ Cardinality(D) <= 4
  <2>1. PICK n \in 0 .. 4 : D = 1 .. n
    BY DEF Short
  <2>2. \A a, b \in Int : /\ IsFiniteSet(a .. b)
                          /\ Cardinality(a .. b) = IF a > b THEN 0 ELSE b - a + 1
    BY FS_Interval
  <2>3. IsFiniteSet(1 .. n) /\ Cardinality(1 .. n) <= 4
    BY <2>2
  <2> QED
    BY <2>1, <2>3
<1>9. Up(4)
  <2> HIDE DEF Up
  <2>1. Up(0 + 1)
    BY <1>6, <1>7
  <2>2. Up(1 + 1)
    BY <1>7, <2>1
  <2>3. Up(2 + 1)
    BY <1>7, <2>2
  <2>4. Up(3 + 1)
    BY <1>7, <2>3
  <2> QED
    BY <2>4
<1>10. h[D] = PartsOf(D, c)
  BY <1>8, <1>9
<1> QED
  BY <1>4, <1>10, FoldUnfolds DEF TotalOf

\* A candidate that is added adds its tokens.
LEMMA TotalOfAppend ==
  ASSUME NEW c \in Seq(Candidates), Len(c) < 4, NEW d \in Candidates
  PROVE  TotalOf(Append(c, d)) = TotalOf(c) + d.tokens
<1>0. PICK n, e : n = Len(c) /\ e = Append(c, d)
  OBVIOUS
<1>1. n \in 0 .. 3 /\ DOMAIN c = 1 .. n
  BY <1>0
<1>2. DOMAIN e = 1 .. n + 1 /\ e[n + 1] = d /\ \A i \in 1 .. n : e[i] = c[i]
  BY <1>0
<1>3. d.tokens \in Int /\ \A i \in 1 .. n : c[i].tokens \in Int
  <2>1. \A i \in 1 .. n : c[i] \in Candidates
    BY <1>1
  <2> QED
    BY <2>1 DEF Candidates
<1>4. \A i \in 1 .. 4 : /\ Part(DOMAIN c, c, i) \in Int
                        /\ i # n + 1 => Part(DOMAIN e, e, i) = Part(DOMAIN c, c, i)
                        /\ i = n + 1 => Part(DOMAIN e, e, i) = d.tokens /\ Part(DOMAIN c, c, i) = 0
  BY <1>1, <1>2, <1>3 DEF Part
<1>5. \A i \in 1 .. 4 : Part(DOMAIN e, e, i) \in Int
  BY <1>1, <1>3, <1>4
<1>6. TotalOf(e) = TotalOf(c) + d.tokens
  <2>1. n = 0 \/ n = 1 \/ n = 2 \/ n = 3
    BY <1>1
  <2> HIDE DEF Part
  <2>2. CASE n = 0
    BY <2>2, <1>3, <1>4, <1>5 DEF TotalOf, PartsOf
  <2>3. CASE n = 1
    BY <2>3, <1>3, <1>4, <1>5 DEF TotalOf, PartsOf
  <2>4. CASE n = 2
    BY <2>4, <1>3, <1>4, <1>5 DEF TotalOf, PartsOf
  <2>5. CASE n = 3
    BY <2>5, <1>3, <1>4, <1>5 DEF TotalOf, PartsOf
  <2> QED
    BY <2>1, <2>2, <2>3, <2>4, <2>5
<1> QED
  BY <1>0, <1>6

-----------------------------------------------------------------------------
InCandidate == {"turn", "post", "answered", "acts"}

\* The candidates are not too many, and their tokens are the ledger's, up to
\* those of the candidate that runs.
Accounted ==
  /\ Len(cands) <= K
  /\ phase \in InCandidate \cup {"next"} => Len(cands) < K
  /\ Clean =>
       /\ phase \in {"next", "select", "evaluate"} => TotalOf(cands) = ledger.tokens
       /\ phase \in InCandidate => TotalOf(cands) = before.tokens
       /\ phase = "done" => metrics.tokens = ledger.tokens

\* There are one to four candidates.
LEMMA CountTyping == K \in 1 .. 4
BY RolloutAssumption DEF K

\* A candidate that returns is accounted for.
LEMMA ReturnAccounts ==
  ASSUME Typing, Accounted, phase \in InCandidate, Clean,
         NEW e \in Evidence, NEW s \in {"blocked", "failed"} \cup {f.status : f \in Evidence},
         Returns(e, s, ledger)
  PROVE  /\ TotalOf(cands') = ledger.tokens
         /\ Len(cands') <= K /\ (phase' = "next" => Len(cands') < K) /\ phase' \in {"next", "select"}
<1> DEFINE c == Candidate(e, s, ledger.tokens - before.tokens, ledger.seconds - before.seconds)
<1>1. ledger.tokens - before.tokens \in Int /\ ledger.seconds - before.seconds \in Nat
  BY RolloutAssumption DEF Typing, Ledgers
<1>2. c \in Candidates /\ c.tokens = ledger.tokens - before.tokens
  BY <1>1, CandidateTyping DEF Candidate
<1>3. cands' = Append(cands, c) /\ phase' = IF Len(cands) + 1 < K THEN "next" ELSE "select"
  BY DEF Returns
<1>4. Len(cands) < K /\ Len(cands) \in Nat /\ cands \in Seq(Candidates)
  BY DEF Accounted, Typing
<1> HIDE DEF c
<1>5. TotalOf(cands') = TotalOf(cands) + c.tokens
  BY <1>2, <1>3, <1>4, TotalOfAppend, CountTyping
<1>6. Len(cands') = Len(cands) + 1
  BY <1>2, <1>3, <1>4
<1>7. TotalOf(cands') = ledger.tokens
  BY <1>1, <1>2, <1>5 DEF Accounted, Typing, Ledgers
<1> QED
  BY <1>3, <1>4, <1>6, <1>7, CountTyping

\* The number of candidates, whatever becomes of them.
LEMMA CandidatesCounted ==
  ASSUME Typing, Accounted, phase \in InCandidate \cup {"next"},
         RunFails \/ \E e \in Evidence : \E s : \E l : Returns(e, s, l)
  PROVE  Len(cands') <= K /\ (phase' \in InCandidate \cup {"next"} => Len(cands') < K)
<1>1. PICK c : cands' = Append(cands, c) /\ (phase' = "select" \/ phase' = IF Len(cands) + 1 < K THEN "next" ELSE "select")
  BY DEF RunFails, AfterFailure, Returns
<1>2. Len(cands') = Len(cands) + 1
  BY <1>1 DEF Typing
<1>3. Len(cands) < K /\ Len(cands) \in Nat
  BY DEF Accounted, Typing
<1> QED
  BY <1>1, <1>2, <1>3, CountTyping DEF InCandidate

\* The totals of the summary are those of its candidates.
LEMMA SummaryTotals ==
  ASSUME Typing, Accounted, Summarise, Clean
  PROVE  metrics'.tokens = ledger.tokens
<1>1. metrics'.tokens = SumOf(cands)
  BY DEF Summarise, SumOf
<1>2. Short(cands)
  <2>1. cands \in Seq(Candidates) /\ Len(cands) <= K /\ Len(cands) \in Nat
    BY DEF Typing, Accounted
  <2>4. PICK m : m = Len(cands)
    OBVIOUS
  <2>6. m \in Nat /\ m <= K /\ K \in Int /\ K <= 4
    BY <2>1, <2>4, CountTyping
  <2>5. Len(cands) \in 0 .. 4
    BY <2>4, <2>6
  <2>2. Len(cands) \in 0 .. 4 /\ DOMAIN cands = 1 .. Len(cands)
    BY <2>1, <2>5
  <2>3. \A i \in 1 .. Len(cands) : cands[i] \in Candidates
    BY <2>1
  <2> QED
    BY <2>2, <2>3 DEF Short, Candidates
<1>3. TotalOf(cands) = ledger.tokens
  BY DEF Accounted, Summarise
<1> QED
  BY <1>1, <1>2, <1>3, FoldIsTotal

\* Every step accounts for what it spends.
LEMMA StepAccounted == Typing /\ Accounted /\ [Next]_vars => Accounted'
<1> SUFFICES ASSUME Typing, Accounted, [Next]_vars
             PROVE  Accounted'
  OBVIOUS
<1>0. Clean' => Clean
  BY CleanBefore
<1> USE DEF Keep, spending, time, InCandidate
<1>1. ASSUME RunFails \/ \E e \in Evidence : \E s : \E l : Returns(e, s, l),
             phase \in InCandidate \cup {"next"}, ~Clean'
      PROVE  Accounted'
  BY <1>1, CandidatesCounted DEF Accounted
<1>2. CASE Exhausted
  BY <1>1, <1>2, BlockedIsUnclean DEF Exhausted
<1>3. ASSUME NEW p \in Pauses, BeginCandidate(p)
      PROVE  Accounted'
  <2>1. CASE RunFails
    BY <1>1, <1>3, <2>1, BlockedIsUnclean DEF BeginCandidate
  <2>2. CASE phase' = "turn" /\ UNCHANGED cands
    BY <1>0, <1>3, <2>2 DEF BeginCandidate, Accounted
  <2>3. CASE GroupDies
    BY <1>3, <2>3 DEF GroupDies, Accounted, Clean
  <2> QED
    BY <1>3, <2>1, <2>2, <2>3 DEF BeginCandidate
<1>4. CASE Select
  BY <1>0, <1>4 DEF Select, Accounted
<1>5. CASE EvaluatesNothing
  BY <1>0, <1>5 DEF EvaluatesNothing, Accounted
<1>6. CASE Summarise
  BY <1>0, <1>6, SummaryTotals DEF Summarise, Accounted
<1>7. ASSUME NEW p \in Pauses, Ask(p)
      PROVE  Accounted'
  <2>1. CASE phase' = "post" /\ UNCHANGED cands
    BY <1>0, <1>7, <2>1 DEF Ask, Accounted
  <2>2. CASE \E e \in Evidence : Returns(e, "blocked", ledger')
    BY <1>1, <1>7, <2>2, BlockedIsUnclean DEF Ask
  <2> QED
    BY <1>7, <2>1, <2>2 DEF Ask
<1>8. ASSUME NEW s \in Durations, Settle(s) \/ \E p \in Pauses : RunTool(s, p)
      PROVE  Accounted'
  <2>1. phase \in {"answered", "acts"} /\ before' = before
    BY <1>8 DEF Settle, RunTool
  <2>2. CASE phase' \in {"acts", "turn"} /\ UNCHANGED cands
    BY <1>0, <2>1, <2>2 DEF Accounted
  <2>3. CASE \E e \in Evidence : Returns(e, "blocked", ledger)
    BY <1>1, <2>1, <2>3, BlockedIsUnclean
  <2> QED
    BY <1>8, <2>2, <2>3 DEF Settle, RunTool
<1>9. CASE NoTool
  BY <1>1, <1>9, BlockedIsUnclean DEF NoTool
<1>17. ASSUME NEW p \in Pauses, Refuse(p)
       PROVE  Accounted'
  BY <1>0, <1>17 DEF Refuse, Accounted
<1>10. ASSUME NEW p \in Pauses, Finish(p)
       PROVE  Accounted'
  <2>1. PICK e \in Evidence, s \in {"failed"} \cup {f.status : f \in Evidence} : Returns(e, s, ledger)
    BY <1>10 DEF Finish
  <2>2. phase \in InCandidate /\ ledger' = ledger
    BY <1>10 DEF Finish
  <2>3. CASE Clean'
    <3>1. /\ TotalOf(cands') = ledger.tokens
          /\ Len(cands') <= K /\ (phase' = "next" => Len(cands') < K) /\ phase' \in {"next", "select"}
      BY <1>0, <2>1, <2>2, <2>3, ReturnAccounts
    <3> QED
      BY <2>2, <3>1 DEF Accounted, TotalOf, PartsOf, Part
  <2>4. CASE ~Clean'
    BY <1>1, <2>1, <2>2, <2>4
  <2> QED
    BY <2>3, <2>4
<1>11. CASE BalanceRefuses
  BY <1>1, <1>11, BlockedIsUnclean DEF BalanceRefuses, GroupDies, Accounted, Clean
<1>12. CASE RateLimited
  BY <1>0, <1>12 DEF RateLimited, Posting, GroupDies, Accounted, Clean
<1>13. ASSUME NEW u \in Usages \union {0}, Lost(u) \/ ServerError(u)
       PROVE  Accounted'
  BY <1>1, <1>13, BlockedIsUnclean DEF Lost, ServerError, Posting, GroupDies, Accounted, Clean
<1>14. ASSUME NEW u \in Usages, Answers(u) \/ AnswersNothing(u) \/ AnswersInvalidUsage(u)
       PROVE  Accounted'
  BY <1>0, <1>14 DEF Answers, AnswersNothing, AnswersInvalidUsage, Posting, GroupDies, Accounted, Clean
<1>15. ASSUME NEW e \in Evaluations, NEW s \in Durations, Evaluate(e, s)
       PROVE  Accounted'
  <2>1. ledger'.tokens = ledger.tokens
    BY <1>15, RolloutAssumption DEF Evaluate, Consumed, Charged, Typing, Ledgers
  <2> QED
    BY <1>0, <1>15, <2>1 DEF Evaluate, Accounted
<1>16. CASE UNCHANGED vars
  BY <1>0, <1>16 DEF vars, Accounted
<1> QED
  BY <1>2, <1>3, <1>4, <1>5, <1>6, <1>7, <1>8, <1>9, <1>10, <1>11, <1>12, <1>13, <1>14, <1>15, <1>16, <1>17
  DEF Next, Coordinate

\* There are no candidates at first.
LEMMA InitAccounted == Init => Accounted
<1> SUFFICES ASSUME Init PROVE Accounted
  OBVIOUS
<1>1. TotalOf(cands) = 0
  <2>1. DOMAIN cands = {}
    BY DEF Init
  <2> QED
    BY <2>1 DEF TotalOf, PartsOf, Part
<1> QED
  BY <1>1, CountTyping DEF Init, Accounted, InCandidate

\* As long as nothing was blocked, lost or died, every token is on the ledger
\* and the total of the summary is the ledger's; every second is too, once, but
\* those of making a workspace, preparing a request and ending a run.
THEOREM EverySpendingIsCharged == Spec => []SpendingIsCharged
<1>1. Init => Exact
  BY RolloutAssumption DEF Init, Exact, LedgerIsExact, Pending, Outstanding
<1>2. Typing /\ Exact /\ Accounted => SpendingIsCharged
  BY DEF Typing, Ledgers, Exact, Accounted, SpendingIsCharged, LedgerIsExact, Pending, Outstanding
<1> QED
  BY <1>1, <1>2, GroupIsTyped, StepExact, InitAccounted, StepAccounted, PTL DEF Spec
=============================================================================

------------------------------ MODULE Rollout ------------------------------
(***************************************************************************)
(* A group of candidates on one shared budget (rollout/coordinator.py):    *)
(* each candidate is a run of the agent (AgentRuntime, here only what it   *)
(* asks, spends and leaves), its requests go through the paid client       *)
(* (adapters/model.py) to a provider that may limit, fail, lose or empty   *)
(* them; then one candidate is selected by what was visible, and all are   *)
(* formally evaluated on what is left of the budget.                       *)
(*                                                                         *)
(* A unit of time stands for ten minutes, the time a penalty is capped at. *)
(***************************************************************************)
EXTENDS Integers, Sequences, FiniteSets, SequencesExt

CONSTANTS
  Count,        \* candidate_count, capped by 4 in run
  TokenLimit, SecondsLimit, CallLimit,  \* the budget of the task
  Usages,       \* bound: the tokens of one answered request
  Durations,    \* bound: the time of one request, tool or evaluation
  Pauses,       \* bound: the time of anything else the group does
  Evidence,     \* bound: what a run may leave: diff, visible, files, status
  MaxTurns,     \* bound: the requests of one candidate that are answered
  MaxLimited,   \* 4: the attempts of a request that is limited
  NoPatch       \* the empty diff

ASSUME RolloutAssumption ==
  /\ Count \in Nat /\ MaxTurns \in Nat /\ MaxLimited \in Nat \ {0}
  /\ TokenLimit \in Nat /\ SecondsLimit \in Nat /\ CallLimit \in Nat
  /\ Usages \subseteq Nat /\ Durations \subseteq Nat /\ Pauses \subseteq Nat
  /\ \A e \in Evidence : e.files \in Nat /\ e.visible \in BOOLEAN

VARIABLES
  phase,     \* where the coordinator is, see Phases
  ledger,    \* the tokens, seconds and tool calls of the group
  before,    \* the tokens and seconds of the ledger when the candidate began
  turns,     \* the answers of the candidate
  request,   \* the request being made: attempt, empty (the second one), usage
  cands,     \* the candidates
  selection, \* the place of the selected one, 0 for none
  verdicts,  \* the verdicts of the first candidates
  metrics,   \* the summary of the group
  clock,     \* time.monotonic
  mark,      \* the time the next charge counts from: clock_at, or model_started
  paid,      \* ghost: the tokens the provider has charged
  unpaid,    \* ghost: the time no charge will count, see Unpaid
  unknown    \* ghost: the outcome of a request is not known

time == <<clock, mark, unpaid>>
spending == <<ledger, paid, time>>
vars == <<phase, ledger, before, turns, request, cands, selection, verdicts, metrics, clock, mark, paid, unpaid, unknown>>

Phases == {"next", "turn", "post", "answered", "acts", "select", "evaluate", "done", "raised"}

K == IF Count > 4 THEN 4 ELSE IF Count < 1 THEN 1 ELSE Count

Idle == [attempt |-> 0, empty |-> FALSE, usage |-> 0]

Init ==
  /\ phase = "next"
  /\ ledger = [tokens |-> 0, seconds |-> 0, calls |-> 0]
  /\ before = [tokens |-> 0, seconds |-> 0]
  /\ turns = 0 /\ request = Idle
  /\ cands = <<>> /\ selection = 0 /\ verdicts = <<>>
  /\ metrics = [tokens |-> 0, passed |-> 0, selected |-> FALSE, oracle |-> FALSE]
  /\ clock = 0 /\ mark = 0
  /\ paid = 0 /\ unpaid = 0 /\ unknown = FALSE
-----------------------------------------------------------------------------
(* The ledger. *)

CanSpend(t, s, c) ==
  /\ ledger.tokens + t <= TokenLimit
  /\ ledger.seconds + s <= SecondsLimit
  /\ ledger.calls + c <= CallLimit

Charged(t, s, c) ==
  [tokens |-> ledger.tokens + t, seconds |-> ledger.seconds + s, calls |-> ledger.calls + c]

\* consume: all or nothing.
Consumed(t, s, c) == IF CanSpend(t, s, c) THEN Charged(t, s, c) ELSE ledger

TimeLeft  == ledger.seconds < SecondsLimit
CallsLeft == ledger.calls < CallLimit

\* What the next charge will count.
Elapsed == clock - mark

\* Time passes that no charge will count.
Unpaid(p) == unpaid' = unpaid + p

\* request_token_bound: twice the largest request.
Bound == 2 * Max(Usages)

\* Everything but what a step of the group changes.
Keep(v) == UNCHANGED <<selection, verdicts, metrics>> /\ UNCHANGED v
-----------------------------------------------------------------------------
(* The coordinator's loop over the candidates. *)

\* A candidate with what its run left, or nothing when the run did not return.
Candidate(e, s, tokens, seconds) ==
  [diff |-> e.diff, visible |-> e.visible, files |-> e.files, status |-> s,
   tokens |-> tokens, seconds |-> seconds]

Nothing == [diff |-> NoPatch, visible |-> FALSE, files |-> 0]

Blocked == Candidate(Nothing, "blocked", 0, 0)

\* A run that did not return ends the loop.
AfterFailure_NextCandidate == IF Len(cands) + 1 < K THEN "next" ELSE "select"
AfterFailure == "select"

RunFails ==
  /\ cands' = Append(cands, Blocked)
  /\ phase' = AfterFailure

\* The group dies of an exception that is not a RuntimeError or an OSError.
GroupDies == phase' = "raised" /\ UNCHANGED cands

Exhausted ==
  /\ phase = "next"
  /\ ledger.tokens >= TokenLimit \/ ~TimeLeft \/ ~CallsLeft
  /\ RunFails
  /\ Keep(<<spending, before, turns, request, unknown>>)

\* The workspace is made, or not (RuntimeError), or its clone times out.  The
\* time this takes is not charged: clock_at is set when the run begins.
BeginCandidate(p) ==
  /\ phase = "next" /\ ledger.tokens < TokenLimit /\ TimeLeft /\ CallsLeft
  /\ before' = [tokens |-> ledger.tokens, seconds |-> ledger.seconds]
  /\ turns' = 0
  /\ \/ phase' = "turn" /\ UNCHANGED cands
     \/ RunFails
     \/ GroupDies
  /\ clock' = clock + p /\ Unpaid(p)
  /\ mark' = clock'
  /\ Keep(<<ledger, paid, request, unknown>>)

\* The run returns; what it spent is the difference of the ledgers.
Returns(e, s, l) ==
  /\ cands' = Append(cands, Candidate(e, s, l.tokens - before.tokens, l.seconds - before.seconds))
  /\ phase' = IF Len(cands) + 1 < K THEN "next" ELSE "select"
-----------------------------------------------------------------------------
(* A turn of the agent. *)

\* A step charges what passed since the last charge, and a request is made if
\* the budget allows it; to prepare it takes time that is not charged.
Ask(p) ==
  /\ phase = "turn" /\ turns < MaxTurns
  /\ ledger' = Consumed(0, Elapsed, 0)
  /\ IF CanSpend(Bound, Elapsed, 0) /\ ledger'.seconds < SecondsLimit
     THEN /\ phase' = "post" /\ request' = Idle /\ UNCHANGED cands
          /\ clock' = clock + p /\ Unpaid(p)
          /\ mark' = clock'
     ELSE /\ \E e \in Evidence : Returns(e, "blocked", ledger')
          /\ UNCHANGED <<request, time>>
  /\ Keep(<<paid, before, turns, unknown>>)

\* consume after the answer: a request that took too long blocks the run.
Settle(s) ==
  /\ phase = "answered"
  /\ clock' = clock + s /\ mark' = clock'
  /\ ledger' = Consumed(request.usage, Elapsed + s, 0)
  /\ turns' = turns + 1
  /\ IF CanSpend(request.usage, Elapsed + s, 0)
     THEN phase' = "acts" /\ UNCHANGED cands
     ELSE \E e \in Evidence : Returns(e, "blocked", ledger)
  /\ Keep(<<before, request, paid, unpaid, unknown>>)

\* The action is a tool; what follows its receipt in the step is charged later.
RunTool(s, p) ==
  /\ phase = "acts" /\ CanSpend(0, 0, 1) /\ TimeLeft
  /\ mark' = clock + s /\ clock' = mark' + p
  /\ ledger' = Consumed(0, Elapsed + s, 1)
  /\ IF CanSpend(0, Elapsed + s, 1)
     THEN phase' = "turn" /\ UNCHANGED cands
     ELSE \E e \in Evidence : Returns(e, "blocked", ledger)
  /\ Keep(<<before, turns, request, paid, unpaid, unknown>>)

NoTool ==
  /\ phase = "acts" /\ ~(CanSpend(0, 0, 1) /\ TimeLeft)
  /\ \E e \in Evidence : Returns(e, "blocked", ledger)
  /\ Keep(<<spending, before, turns, request, unknown>>)

Refuse_Restarts(p) ==
  /\ phase = "acts" /\ phase' = "turn"
  /\ clock' = clock + p /\ mark' = clock'
  /\ Keep(<<ledger, paid, unpaid, before, turns, request, cands, unknown>>)

\* Or it is refused, with a message, and the model is asked again: a malformed
\* answer, an unverified finish, one read too many or a repeated command.
Refuse(p) ==
  /\ phase = "acts" /\ phase' = "turn"
  /\ clock' = clock + p
  /\ Keep(<<ledger, paid, mark, unpaid, before, turns, request, cands, unknown>>)

\* Or the run ends: the action is a last one, was refused once too often, or
\* was the last tool (two edits failed, no step is left).  What passed since the
\* last charge is never charged.
Finish(p) ==
  /\ phase = "acts" \/ (phase = "turn" /\ turns > 0)
  /\ \E e \in Evidence : Returns(e, IF phase = "acts" THEN e.status ELSE "failed", ledger)
  /\ clock' = clock + p /\ Unpaid(Elapsed + p)
  /\ Keep(<<ledger, paid, mark, before, turns, request, unknown>>)
-----------------------------------------------------------------------------
(* The paid client: DeepSeekModel.complete. *)

\* Before each attempt the balance must be well above its floor, if one is set.
BalanceRefuses ==
  /\ phase = "post"
  /\ RunFails \/ GroupDies
  /\ Keep(<<spending, before, turns, request, unknown>>)

Posting == phase = "post"
Charge(u) == paid' = paid + u

RateLimited ==
  /\ Posting
  /\ IF request.attempt + 1 < MaxLimited
     THEN request' = [request EXCEPT !.attempt = @ + 1] /\ UNCHANGED <<phase, cands>>
     ELSE GroupDies /\ UNCHANGED request
  /\ Keep(<<spending, before, turns, unknown>>)

\* No answer came; the provider may have worked on the request.
Lost(u) ==
  /\ Posting /\ Charge(u)
  /\ unknown' = TRUE
  /\ RunFails
  /\ Keep(<<ledger, time, before, turns, request>>)

ServerError(u) ==
  /\ Posting /\ Charge(u)
  /\ unknown' = TRUE
  /\ GroupDies
  /\ Keep(<<ledger, time, before, turns, request>>)

WithUsage(u) == [request EXCEPT !.usage = @ + u]

Answers(u) ==
  /\ Posting /\ Charge(u)
  /\ request' = WithUsage(u)
  /\ phase' = "answered"
  /\ Keep(<<ledger, time, before, turns, cands, unknown>>)

\* The first empty answer is asked for again, and both are paid.
AnswersNothing(u) ==
  /\ Posting /\ Charge(u) /\ ~request.empty
  /\ request' = [WithUsage(u) EXCEPT !.empty = TRUE, !.attempt = 0]
  /\ Keep(<<phase, ledger, time, before, turns, cands, unknown>>)

\* Cache counters that do not add up: ValueError, after the tokens were paid.
AnswersInvalidUsage(u) ==
  /\ Posting /\ Charge(u)
  /\ GroupDies
  /\ Keep(<<ledger, time, before, turns, request, unknown>>)
-----------------------------------------------------------------------------
(* Selection and evaluation. *)

FilePenalty_Uncapped(n) == 3 * n
FilePenalty(n) == 3 * Min({n, 10})

\* Four times the score of the code: its smallest weight is 0.75.  The tool
\* errors it also counts are 0 in every candidate that run makes.
Score(c) ==
  (IF c.status = "completed" THEN 80 ELSE 0) + (IF c.diff # NoPatch THEN 60 ELSE 0)
  + (IF c.visible THEN 200 ELSE 0) - FilePenalty(c.files) - 8 * Min({c.seconds, 1})

\* The first candidate of each diff; the ids are their places.
Unique == {i \in DOMAIN cands : \A j \in 1 .. i - 1 : cands[j].diff # cands[i].diff}

Best == {i \in Unique : \A j \in Unique : Score(cands[i]) >= Score(cands[j])}

\* The highest score, unless two share it.
Select ==
  /\ phase = "select"
  /\ selection' = IF Cardinality(Best) = 1 THEN CHOOSE i \in Best : TRUE ELSE 0
  /\ phase' = "evaluate"
  /\ UNCHANGED <<spending, before, turns, request, cands, verdicts, metrics, unknown>>

Judged == Len(verdicts) + 1

\* The evaluation of a diff in a fresh workspace: what cannot be judged is
\* blocked; a diff that does not apply, or whose tests do not exit with 0, fails.
Verdict(e) ==
  CASE ~e.prepared                     -> "blocked"
    [] e.prepared /\ ~e.applies        -> "failed"
    [] e.prepared /\ e.applies /\ e.tests = "unavailable" -> "blocked"
    [] OTHER                           -> IF e.tests = "exit 0" THEN "passed" ELSE "failed"

Evaluations == [prepared : BOOLEAN, applies : BOOLEAN, tests : {"exit 0", "exit 1", "unavailable"}]

\* An evaluation that exceeds the budget is not charged, and does not count.
Evaluate(e, s) ==
  /\ phase = "evaluate" /\ Judged <= Len(cands)
  /\ cands[Judged].diff = NoPatch => e.applies
  /\ TimeLeft /\ CallsLeft
  /\ clock' = clock + s
  /\ ledger' = Consumed(0, s, 1)
  /\ verdicts' = Append(verdicts, IF CanSpend(0, s, 1) THEN Verdict(e) ELSE "blocked")
  /\ UNCHANGED <<phase, before, turns, request, cands, selection, metrics, mark, paid, unpaid, unknown>>

EvaluatesNothing ==
  /\ phase = "evaluate" /\ Judged <= Len(cands)
  /\ ~TimeLeft \/ ~CallsLeft
  /\ verdicts' = Append(verdicts, "blocked")
  /\ UNCHANGED <<phase, spending, before, turns, request, cands, selection, metrics, unknown>>

\* aggregate_results and save_summary.
Summarise ==
  /\ phase = "evaluate" /\ Judged > Len(cands)
  /\ metrics' = [tokens   |-> FoldSeq(LAMBDA c, sum : c.tokens + sum, 0, cands),
                 passed   |-> Cardinality({i \in DOMAIN verdicts : verdicts[i] = "passed"}),
                 selected |-> selection # 0 /\ verdicts[selection] = "passed",
                 oracle   |-> "passed" \in Range(verdicts)]
  /\ phase' = "done"
  /\ UNCHANGED <<spending, before, turns, request, cands, selection, verdicts, unknown>>
-----------------------------------------------------------------------------
Coordinate == Exhausted \/ Select \/ EvaluatesNothing \/ Summarise

Next ==
  \/ Coordinate
  \/ NoTool
  \/ \E p \in Pauses : BeginCandidate(p) \/ Ask(p) \/ Refuse(p) \/ Finish(p)
  \/ \E s \in Durations : Settle(s)
  \/ \E s \in Durations, p \in Pauses : RunTool(s, p)
  \/ BalanceRefuses \/ RateLimited
  \/ \E u \in Usages \union {0} : Lost(u) \/ ServerError(u)
  \/ \E u \in Usages : Answers(u) \/ AnswersNothing(u) \/ AnswersInvalidUsage(u)
  \/ \E e \in Evaluations, s \in Durations : Evaluate(e, s)

Spec == Init /\ [][Next]_vars
=============================================================================

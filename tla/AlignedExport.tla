---------------------------- MODULE AlignedExport ----------------------------
(***************************************************************************)
(* From the events of a run to next-action training examples: the export   *)
(* of one row (training/export.py, sft.py), the choice of seeds            *)
(* (accelerate_campaign.py), the conversion (prepare_aligned_sft.py) and   *)
(* the readiness audit (training/readiness.py).  The run passed its        *)
(* evaluation.                                                             *)
(***************************************************************************)
EXTENDS Conversation

ModelEvent(t) == [type |-> "model", response |-> t.answer, context |-> t.context, policy |-> policy]
ToolEvent(t)  == [type |-> "tool", action |-> t.action, expected |-> t.expected, receipt |-> t.receipt]

EventsOf_Silent(t) ==
  <<ModelEvent(t)>> \o IF t.outcome = "ran" THEN <<ToolEvent(t)>> ELSE <<>>

\* What the loop appends to events.jsonl for one turn.  A refused finish has no
\* event of its own.
EventsOf(t) ==
  <<ModelEvent(t)>> \o
  CASE t.outcome = "ran" -> <<ToolEvent(t)>>
    [] t.outcome = "rejected" -> <<[type |-> "protocol_rejection"]>>
    [] t.outcome = "repeated" -> <<[type |-> "no_progress"]>>
    [] t.outcome = "navigation" -> <<[type |-> "source_navigation_blocked"]>>
    [] OTHER -> <<>>

Events == FlattenSeq([n \in DOMAIN turns |-> EventsOf(turns[n])])

ModelTexts == [n \in DOMAIN turns |-> turns[n].answer]

\* The assistant messages of the row: malformed answers are dropped.
Parses(r) == ParseAction(r) # Invalid
RowTexts  == Picked(ModelTexts, {n \in DOMAIN turns : Parses(ModelTexts[n])})

SeedOk == status = "completed" /\ RowTexts # <<>> /\ ParseAction(Last(RowTexts)) = Done

-----------------------------------------------------------------------------
(* examples: a fold over the events.                                       *)

\* An answer whose receipt has not been met yet, or none.
Refused == [ok |-> FALSE, pending |-> <<>>, observations |-> <<>>, out |-> <<>>]

Example(pending) == [messages |-> pending.context, target |-> pending.action]

\* The warning of a refused finish is the last message of the next request.
ObservedFinishRejection(previous, event) ==
  /\ Last(event.context) = Warning("unverified")
  /\ ~Contains(previous, Warning("unverified"))

Asked(x, e) ==
  IF /\ x.pending = <<>> \/ (x.pending[1].action = Done /\ ObservedFinishRejection(x.pending[1].context, e))
     /\ Len(e.context) >= 2 /\ e.context[1] = System /\ e.context[2] = Task
  THEN [x EXCEPT !.pending = <<[action |-> ParseAction(e.response), context |-> e.context]>>]
  ELSE Refused

Received(x, e) ==
  IF /\ x.pending # <<>>
     /\ x.pending[1].action = e.action /\ Executable(e.action)
     /\ Grounded(e.action, x.observations)
     /\ e.action.kind = "edit" => e.expected = ExpectedVersion(e.action, x.observations)
     /\ Observable(e.action, e.receipt)
  THEN [x EXCEPT !.pending = <<>>, !.out = Append(@, Example(x.pending[1])),
                 !.observations = ObserveSource(@, e.action, e.receipt)]
  ELSE Refused

WasRefused(x, e) ==
  LET action == x.pending[1].action IN
  IF /\ x.pending # <<>>
     /\ CASE e.type = "protocol_rejection" -> action = Invalid \/ ~Grounded(action, x.observations)
          [] e.type = "no_progress" -> Executable(action)
          [] OTHER -> action.kind = "read"
  THEN [x EXCEPT !.pending = <<>>] ELSE Refused

Convert(x, e) ==
  IF ~x.ok THEN x ELSE
  CASE e.type = "model" -> Asked(x, e)
    [] e.type = "tool" -> Received(x, e)
    [] OTHER -> WasRefused(x, e)

Start == [ok |-> TRUE, pending |-> <<>>, observations |-> <<>>, out |-> <<>>]

\* What is known after each event.
Fold == LET after[n \in 0 .. Len(Events)] == IF n = 0 THEN Start ELSE Convert(after[n - 1], Events[n])
        IN  after

\* The examples of the run, or nothing: then the whole preparation fails.
Converted ==
  LET end == Fold[Len(Events)] IN
  IF /\ ModelTexts = RowTexts
     /\ end.ok /\ end.pending # <<>> /\ end.pending[1].action = Done
  THEN <<Append(end.out, Example(end.pending[1]))>> ELSE <<>>

-----------------------------------------------------------------------------
(* Readiness.                                                              *)

ChangedAfterRejection_Nearby(ms, target) ==
  \E i \in DOMAIN ms : ms[i].role = "rejection" /\ Executable(target)

\* A changed action after an explicit refusal, judged from the messages only.
ChangedAfterRejection(ms, target) ==
  LET rejections == {i \in DOMAIN ms : ms[i].role = "rejection"}
      last == Max(rejections)
  IN  /\ Executable(target) /\ rejections # {}
      /\ \A i \in last + 1 .. Len(ms) : ms[i].role # "assistant"
      /\ ms[last - 1].role = "assistant"
      /\ ActionOf(ms[last - 1]) # target

RequiredTargets == {"search", "read", "edit", "done"}

Ready_Coverage(examples) == RequiredTargets \subseteq {examples[n].target.kind : n \in DOMAIN examples}

\* The audit of the examples of one run.
Ready(examples) ==
  /\ RequiredTargets \subseteq {examples[n].target.kind : n \in DOMAIN examples}
  /\ \E n \in DOMAIN examples : ChangedAfterRejection(examples[n].messages, examples[n].target)
=============================================================================

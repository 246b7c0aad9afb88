---------------------------- MODULE Conversation ----------------------------
(***************************************************************************)
(* The loop of one run (runtime.py): ask for an action, refuse it or let   *)
(* its tool run on the files, tell the model.  What a crash leaves is the  *)
(* subject of AgentRuntime; here the answers, files and messages matter.   *)
(*                                                                         *)
(* The counters of the loop (rejections in a row, reads of a file, refused *)
(* finishes, failed edits) and the commands that ran are computed from the *)
(* turns, as events.jsonl and the journal hold them.  A visible test is    *)
(* required before done and the task names its command, as in the          *)
(* collections of training data.                                           *)
(***************************************************************************)
EXTENDS ContextHistory

CONSTANTS
  Responses,      \* what the model may answer
  Original,       \* the content of each path in the base checkout
  Rewritten,      \* contents a writing command may leave in a file
  Test,           \* the allowed test command
  Writers,        \* commands that may write to the files
  MaxSteps,       \* config.max_steps
  ReadLimit,      \* reads of a file without a search or a change: 3
  NativeChars,    \* characters of messages that are not compressed: 16000
  CheckpointStep  \* first step with a warning about a missing patch: 5

ASSUME ConversationAssumption ==
  /\ Responses \subseteq Answers
  /\ Original \in [Paths -> Seq(Lines)] /\ Rewritten \subseteq Seq(Lines)
  /\ Test \in Commands /\ Writers \subseteq Commands \ {Test}
  /\ {MaxSteps, ReadLimit} \subseteq Nat \ {0} /\ {CheckpointStep, NativeChars} \subseteq Nat

VARIABLES
  policy,       \* prompt_policy of the model
  files,        \* content of each path
  tested,       \* the patched files the visible test passed on, or Original
  messages,     \* messages of the runtime
  observations, \* state.source_observations
  answer,       \* <<>> or the pending response
  turns,        \* the answers so far, and what became of them
  status        \* running, completed, failed or interrupted

vars == <<policy, files, tested, messages, observations, answer, turns, status>>

Patched       == files # Original
VisiblePassed == tested # Original /\ tested = files

-----------------------------------------------------------------------------
(* Reading the turns.                                                      *)

\* The turns after the last one that satisfies Resets.
Since(Resets(_)) ==
  SubSeq(turns, Max({n \in DOMAIN turns : Resets(turns[n])} \cup {0}) + 1, Len(turns))

Number(Is(_), s) == Cardinality({n \in DOMAIN s : Is(s[n])})

RanWell(t)  == t.outcome = "ran" /\ t.receipt.ok
Rejected(t) == t.outcome = "rejected"

Streak == Number(Rejected, Since(RanWell))

\* A change of the checkout or a search that found something.
StartsNavigation(t, p) ==
  /\ t.outcome = "ran"
  /\ \/ t.after # t.before
     \/ RanWell(t) /\ t.action.kind = "search" /\ t.action.path = p /\ t.receipt.out > 0

Navigation(p) == LET Resets(t) == StartsNavigation(t, p) IN Since(Resets)

Reads(t, p) == t.action.kind = "read" /\ t.action.path = p

ReadCount(p) == LET Is(t) == RanWell(t) /\ Reads(t, p) IN Number(Is, Navigation(p))

Warned(p) == \E n \in DOMAIN Navigation(p) :
               Navigation(p)[n].outcome = "navigation" /\ Reads(Navigation(p)[n], p)

\* The command that runs, and the version of the checkout it runs on.
Signature(t) == <<t.action, t.expected, t.before>>

Had(outcome, signature) ==
  \E n \in DOMAIN turns : turns[n].outcome = outcome /\ Signature(turns[n]) = signature

FailedEdits == LET Is(t) == t.outcome = "ran" /\ t.action.kind = "edit" /\ ~t.receipt.ok IN Number(Is, turns)

-----------------------------------------------------------------------------
Action   == ParseAction(answer[1])
Expected == IF Action.kind = "edit" THEN ExpectedVersion(Action, observations) ELSE <<>>

\* The context the answer was given to: the messages before it.
Turn(outcome) ==
  [answer |-> answer[1], action |-> Action, outcome |-> outcome, context |-> Front(messages),
   before |-> files, after |-> files, expected |-> <<>>, receipt |-> <<>>]

\* Whatever refuses an action tells the model why, and the next step begins.
Refuse(turn, told, fails) ==
  /\ turns' = Append(turns, turn)
  /\ messages' = messages \o told
  /\ answer' = <<>>
  /\ status' = IF fails \/ Len(turns) + 1 = MaxSteps THEN "failed" ELSE "running"
  /\ UNCHANGED <<policy, files, tested, observations>>

End(turn, how) ==
  /\ turns' = Append(turns, turn)
  /\ answer' = <<>>
  /\ status' = how
  /\ UNCHANGED <<policy, files, tested, messages, observations>>

Init ==
  /\ policy \in Policies
  /\ files = Original /\ tested = Original
  /\ messages = <<System, Task>>
  /\ observations = <<>> /\ answer = <<>> /\ turns = <<>>
  /\ status = "running"

\* A context that cannot be built is an exception: the run is interrupted.
Ask ==
  LET context == PrepareContext(messages, policy) IN
  /\ status = "running" /\ answer = <<>>
  /\ IF context = NoContext
     THEN status' = "interrupted" /\ UNCHANGED <<messages, answer>>
     ELSE \E r \in Responses :
            /\ answer' = <<r>>
            /\ messages' = Append(context, Assistant(r))
            /\ UNCHANGED status
  /\ UNCHANGED <<policy, files, tested, observations, turns>>

Answered == status = "running" /\ answer # <<>>

Valid == Action # Invalid /\ Grounded(Action, observations)

\* A malformed follow-up does not lose a patch whose test passed.
RejectAnswer ==
  /\ Answered /\ ~Valid
  /\ IF VisiblePassed /\ Patched THEN End(Turn("unparsed"), "completed")
     ELSE Refuse(Turn("rejected"), <<Rejection("invalid"), Warning("invalid")>>, Streak >= 1)

UnverifiedFinish == Action.kind = "done" /\ Patched /\ ~VisiblePassed

RefusedFinish(t) == t.outcome = "unverified"

RefuseFinish ==
  /\ Answered /\ Valid /\ UnverifiedFinish
  /\ Refuse(Turn("unverified"), <<Warning("unverified")>>, Number(RefusedFinish, turns) >= 1)

Finish ==
  /\ Answered /\ Valid /\ Action.kind = "done" /\ ~UnverifiedFinish
  /\ End(Turn("finished"), "completed")

TooManyReads == Action.kind = "read" /\ ReadCount(Action.path) >= ReadLimit

RefuseRead ==
  /\ Answered /\ Valid /\ TooManyReads
  /\ Refuse(Turn("navigation"), <<Rejection("navigation"), Warning("navigation")>>, Warned(Action.path))

Runs == Answered /\ Valid /\ Action.kind # "done" /\ ~TooManyReads

RefuseRepeat ==
  LET turn == [Turn("repeated") EXCEPT !.expected = Expected] IN
  /\ Runs /\ Had("ran", Signature(turn))
  /\ Refuse(turn, <<Rejection("repeated"), Warning("repeated")>>, Had("repeated", Signature(turn)))

\* What a tool may answer, and leave in the files.  A command prints more than
\* a context keeps.
ToolOutcomes ==
  CASE Action.kind = "edit" ->
         {IF Applies(files[Action.path], Action, Expected)
          THEN [receipt |-> Receipt(TRUE, 0), files |-> [files EXCEPT ![Action.path] = Updated(@, Action)]]
          ELSE [receipt |-> Receipt(FALSE, 1), files |-> files]}
    [] Action.kind = "read" -> {[receipt |-> ReadReceipt(files[Action.path], Action), files |-> files]}
    [] Action.kind = "search" -> {[receipt |-> SearchReceipt(files[Action.path], Action), files |-> files]}
    [] Action.kind = "command" /\ Action.command \in Writers ->
         UNION {{[receipt |-> Receipt(TRUE, LatestChars + 1), files |-> [files EXCEPT ![p] = c]] :
                   c \in Rewritten} : p \in Paths}
    [] OTHER -> {[receipt |-> Receipt(ok, LatestChars + 1), files |-> files] : ok \in BOOLEAN}

Checkpoint(turn) ==
  IF Len(turns) >= CheckpointStep /\ turn.after = Original THEN <<Warning("checkpoint")>> ELSE <<>>

Observed(turn) ==
  <<Result(ToolObservation(turn.action, turn.receipt))>>
  \o (IF turn.receipt.ok THEN <<>> ELSE <<Warning("failed")>>)

Told(turn) == Observed(turn) \o Checkpoint(turn)

\* Native messages that have grown too long are replaced by a summary of the
\* evidence.
Outgrown(ms) == policy = "native" /\ Characters(ms) > NativeChars

RunTool ==
  /\ Runs
  /\ \E o \in ToolOutcomes :
       LET turn == [Turn("ran") EXCEPT !.expected = Expected, !.receipt = o.receipt, !.after = o.files]
           rejectedEdit == turn.action.kind = "edit" /\ ~o.receipt.ok
           passed == o.receipt.ok /\ turn.action = Shell(Test) /\ Patched
       IN
       /\ ~Had("ran", Signature(turn))
       /\ files' = o.files
       /\ tested' = IF passed /\ o.files = files THEN files ELSE tested
       /\ observations' = ObserveSource(observations, turn.action, o.receipt)
       /\ messages' = IF Outgrown(messages \o Observed(turn))
                      THEN <<System, Task, Summary>> \o Checkpoint(turn) ELSE messages \o Told(turn)
       /\ turns' = Append(turns, turn)
       /\ status' = IF (rejectedEdit /\ FailedEdits >= 1) \/ Len(turns) + 1 = MaxSteps
                    THEN "failed" ELSE "running"
  /\ answer' = <<>>
  /\ UNCHANGED policy

Ended == status # "running" /\ UNCHANGED vars

Next ==
  \/ Ask \/ RejectAnswer \/ RefuseFinish \/ Finish
  \/ RefuseRead \/ RefuseRepeat \/ RunTool
  \/ Ended

Spec == Init /\ [][Next]_vars
=============================================================================

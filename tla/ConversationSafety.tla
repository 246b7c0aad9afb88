------------------------- MODULE ConversationSafety -------------------------
(***************************************************************************)
(* What the loop promises the model, and the data made of a run.           *)
(***************************************************************************)
EXTENDS TrainingData

\* An edit that applied changed one place of a version of the file that was
\* read earlier in the run, through a read that showed the line, with no edit of
\* the file in between: whatever commands did to the file since, and however
\* many reads and refusals lie between (source_evidence.py:9, text_edit.py:43).
EditsAreGrounded ==
  \A n \in DOMAIN turns :
    LET t == turns[n] IN
    (RanWell(t) /\ t.action.kind = "edit") =>
      /\ \E r \in 1 .. n - 1 :
           /\ RanWell(turns[r]) /\ Reads(turns[r], t.action.path)
           /\ turns[r].receipt.packet[1].sha = t.before[t.action.path]
           /\ Contains(turns[r].receipt.packet[1].text, t.action.before)
           /\ \A e \in r + 1 .. n - 1 :
                ~(RanWell(turns[e]) /\ turns[e].action.kind = "edit" /\ turns[e].action.path = t.action.path)
      /\ \E k \in DOMAIN t.before[t.action.path] :
           t.after = [t.before EXCEPT ![t.action.path] = [@ EXCEPT ![k] = t.action.after]]

-----------------------------------------------------------------------------
\* What the model was told at a turn, besides its result.
InterventionOf(t) ==
  CASE t.outcome = "rejected" -> <<Warning("invalid")>>
    [] t.outcome = "unverified" -> <<Warning("unverified")>>
    [] t.outcome = "navigation" -> <<Warning("navigation")>>
    [] t.outcome = "repeated" -> <<Warning("repeated")>>
    [] OTHER -> <<>>

HasReceipt(t) == t.outcome \in {"ran", "rejected", "navigation", "repeated"}

\* One interaction as a context shows it: canonical if it ran, verbatim if not.
Shown(t, limit) ==
  IF t.outcome = "ran"
  THEN <<Assistant(Plain(t.action)), Result(Truncated(ToolObservation(t.action, t.receipt), limit))>>
  ELSE <<Assistant(t.answer), Rejection(IF t.outcome = "rejected" THEN "invalid" ELSE t.outcome)>>

\* The context of request n, from the turns before it and not from messages.
Recent(n) ==
  LET history  == Picked([r \in 1 .. n - 1 |-> r], {r \in 1 .. n - 1 : HasReceipt(turns[r])})
      selected == LastOf(history, HistoryTurns)
      latest   == Last(selected)
      pairs    == [k \in DOMAIN selected |->
                     Shown(turns[selected[k]], IF k = Len(selected) THEN LatestChars ELSE OlderChars)]
      told     == (IF turns[latest].outcome = "ran"
                   THEN (IF turns[latest].receipt.ok THEN <<>> ELSE <<Warning("failed")>>)
                        \o (IF latest > CheckpointStep /\ turns[latest].after = Original
                            THEN <<Warning("checkpoint")>> ELSE <<>>)
                   ELSE <<>>)
                  \o FlattenSeq([k \in 1 .. n - latest |-> InterventionOf(turns[latest + k - 1])])
  IN  <<System, Task>> \o IF selected = <<>> THEN <<>> ELSE FlattenSeq(pairs) \o told

\* Under recent-history-v3 each request carries the task, the last interactions
\* that have a real receipt or an explicit refusal, each with its own answer, and
\* every intervention since the last of them, although the policy is applied to
\* what it returned before (context_history.py:17-24, "idempotent").
ContextIsRecent ==
  (policy = "recent-history-v3" /\ turns # <<>>) => Last(turns).context = Recent(Len(turns))

-----------------------------------------------------------------------------
MalformedAnswers == \E n \in DOMAIN turns : ~Parses(turns[n].answer)

Supervised == Picked(turns, {n \in DOMAIN turns : turns[n].outcome \in {"ran", "finished"}})

RealActions ==
  [n \in DOMAIN Supervised |-> [messages |-> Supervised[n].context, target |-> Supervised[n].action]]

\* Data have one example for each action that ran and the accepted finish, in
\* their order, each under the context the model saw; no refused action becomes a
\* target.  A seed without a malformed answer is converted unless an example is
\* too long; but the old policy forgets the warning of a refused finish, and a
\* seed under it must have none of these (prepare_aligned_sft.py:41).
ExportIsFaithful ==
  /\ training = "prepared" => data = RealActions
  /\ (/\ training = "failed" /\ entry = "none" /\ SeedOk /\ ~MalformedAnswers
      /\ policy # "last-action-v2" \/ \A n \in DOMAIN turns : turns[n].outcome # "unverified")
     => \E x \in ToSet(RealActions) : Len(Tokens(Messages(x))) > SequenceLimit

\* Readiness counts an example as a recovery exactly if the last answer with a
\* receipt was refused and the target is another action that ran, although the
\* count is made of the messages alone, after they were compacted.  An answer
\* in between, which can only be a refused finish, takes the credit away under
\* the native policy; the bounded ones do not show it (readiness.py:33-61).
RecoveriesAreReal ==
  training = "prepared" =>
    \A n \in DOMAIN turns :
      LET t      == turns[n]
          before == {r \in 1 .. n - 1 : HasReceipt(turns[r])}
      IN  t.outcome \in {"ran", "finished"} =>
            (ChangedAfterRejection(t.context, t.action)
             <=> /\ t.outcome = "ran" /\ before # {}
                 /\ turns[Max(before)].outcome # "ran"
                 /\ turns[Max(before)].action # t.action
                 /\ policy \in BoundedPolicies \/ Max(before) = n - 1)

\* A run whose examples alone pass the readiness gate of training searched, read, edited
\* and finished, each with a real receipt or an accepted finish, and went on
\* with another action after a refusal: coverage is not an artefact of the
\* conversion (readiness.py:64, ADR 0012).
ReadinessIsEarned ==
  (training = "running" /\ entry = "aligned") =>
    /\ \A k \in {"search", "read", "edit"} : \E n \in DOMAIN turns : turns[n].outcome = "ran" /\ turns[n].action.kind = k
    /\ \E n, r \in DOMAIN turns :
         /\ r < n /\ turns[n].outcome = "ran" /\ turns[n].action # turns[r].action
         /\ turns[r].outcome \in {"rejected", "repeated", "navigation"}

Supervision(e) == {e.ids[n] : n \in {k \in DOMAIN e.ids : e.labels[k]}}

\* Training through the deployed entry point learns the next action and nothing
\* else: of every example the body of its last message, an action that ran or the
\* accepted finish, under the whole context; refused answers and earlier turns
\* are masked, and coverage sampling leaves no action out.  The bare trainer
\* learns assistant turns only, and cuts a record only if the config lets it.
\* A smaller rung after an out-of-memory error changes none of this
\* (action_context.py:60, train_sft.py:85, sft_sampling.py:44).
TrainsOnRealActions ==
  training = "completed" =>
    /\ entry = "aligned" =>
         /\ Len(trained) = Len(data)
         /\ \A n \in DOMAIN trained :
              /\ trained[n].ids = Tokens(Messages(data[n]))
              /\ Supervision(trained[n]) = {[message |-> Len(Messages(data[n])), header |-> FALSE]}
         /\ config.sampling = "coverage_plus_weighted" =>
              \A t \in ToSet(turns) :
                t.outcome \in {"ran", "finished"} => \E n \in drawn : data[n].messages = t.context /\ data[n].target = t.action
    /\ entry = "direct" =>
         \A e \in ToSet(trained) :
           \E x \in ToSet(data) :
             /\ ToSet(e.ids) \subseteq ToSet(Tokens(Messages(x)))
             /\ \A t \in Supervision(e) : Messages(x)[t.message].role = "assistant"
             /\ config.rejects => e.ids = Tokens(Messages(x))

\* The parser promises an "action needs a non-empty command unless done=true"
\* (action.py:212), so that what ran can always be shown again and no run ends
\* between two requests because its own history is refused.
HistoryIsAccepted == status # "interrupted"
=============================================================================

--------------------------- MODULE NativeTeacher ---------------------------
(***************************************************************************)
(* The native-tool teacher (scripts/collect_native_reliable.py) under the  *)
(* agent runtime (runtime.py).  The runtime asks for one action at a time  *)
(* and knows nothing of tool calls; the teacher keeps the provider's       *)
(* conversation, deals the calls of one response out one by one, and reads *)
(* the results of those that ran from the action journal.                  *)
(*                                                                         *)
(* The two alternate in one process, which is never resumed.  What varies  *)
(* is the provider's answer, what becomes of a command, and when the       *)
(* runtime compresses its messages.  Warnings are the harness's own texts, *)
(* told apart as _sync tells them apart; a group of calls has distinct ids *)
(* (a response without is one of the malformed ones).                      *)
(***************************************************************************)
EXTENDS Naturals, Sequences, FiniteSets, SequencesExt

CONSTANTS
  Commands,       \* shell commands the provider may call for
  Inventory,      \* the runtime's own first observation
  Finish,         \* the call of finish_task
  Malformed,      \* an answer that parses to no action
  None,           \* no call is pending
  Versions,       \* versions of the workspace
  Base,           \* the version checked out, whose diff is empty
  MaxCalls,       \* calls of one response that are accepted: 8
  MaxSteps,       \* --max-steps: 48
  CheckpointFrom  \* the first step with a progress checkpoint: 5

ASSUME NativeTeacherAssumption ==
  /\ {Inventory, Finish, Malformed, None} \cap Commands = {}
  /\ Cardinality({Inventory, Finish, Malformed, None}) = 4
  /\ Base \in Versions
  /\ MaxCalls \in Nat \ {0} /\ MaxSteps \in Nat /\ CheckpointFrom \in Nat

VARIABLES
  pc,        \* where the process is
  status,    \* how the run ended
  step,      \* the step of the runtime
  action,    \* the action the teacher returned
  journal,   \* the receipts of actions.jsonl
  said,      \* the harness warnings among the runtime's messages
  version,   \* the workspace
  ran,       \* signatures: which command ran on which version
  blocked,   \* the signatures refused once
  streak,    \* protocol corrections since the last successful tool
  talk,      \* the provider's conversation after the task
  pending,   \* the call whose receipt is awaited
  queued,    \* the calls of the last response not dealt out yet
  seen,      \* receipts reported to the provider
  heard,     \* warnings taken from the runtime ...
  buffered   \* ... and those of them not yet in the conversation

runtime == <<status, step, journal, said, version, ran, blocked, streak>>
teacher == <<talk, pending, queued, seen, heard, buffered>>
vars    == <<pc, action, runtime, teacher>>

Init ==
  /\ pc \in {"observe", "sync"}  \* repository_inventory is on or off
  /\ status = "running" /\ step = 0 /\ action = None
  /\ journal = <<>> /\ said = {} /\ version = Base
  /\ ran = {} /\ blocked = {} /\ streak = 0
  /\ talk = <<>> /\ pending = None /\ queued = <<>>
  /\ seen = {} /\ heard = {} /\ buffered = {}

Calls(cs)      == [kind |-> "calls", calls |-> cs]
Result(c, id)  == [kind |-> "result", command |-> c, receipt |-> id]
Reminders(ws)  == [kind |-> "reminders", texts |-> ws]

End(s) == pc' = "end" /\ status' = s

-----------------------------------------------------------------------------
(* The runtime, before it asks. *)

\* attach_inventory runs the observation and journals it as any other action.
Observe ==
  /\ pc = "observe"
  /\ journal' = Append(journal, [id |-> 0, command |-> Inventory])
  /\ pc' = "sync"
  /\ UNCHANGED <<status, step, said, version, ran, blocked, streak, action, teacher>>

\* A cancellation, an exhausted budget or the last step ends the loop.
Stop ==
  /\ \/ End("failed") /\ pc = "sync" /\ step = MaxSteps
     \/ End("stopped") /\ pc # "end"
  /\ UNCHANGED <<step, journal, said, version, ran, blocked, streak, action, teacher>>

-----------------------------------------------------------------------------
(* The teacher: _sync, complete and _next_action. *)

Unseen == {n \in DOMAIN journal : journal[n].id \notin seen}

\* The receipt of the pending call must be the only new one, and match it.
Acknowledged_ByCommand ==
  pending = None \/ (journal # <<>> /\ Last(journal).command = pending)

Acknowledged ==
  pending = None \/ \E n \in Unseen : Unseen = {n} /\ journal[n].command = pending

SyncRefuses ==
  /\ pc = "sync" /\ step < MaxSteps /\ ~Acknowledged
  /\ End("interrupted")
  /\ UNCHANGED <<step, journal, said, version, ran, blocked, streak, action, teacher>>

NewlySaid_All == said
NewlySaid     == said \ heard

MayRemind_Always == TRUE
MayRemind        == queued = <<>>

Answered == IF pending = None THEN talk
            ELSE Append(talk, Result(pending, Last(journal).id))

\* The result of the pending call joins the conversation, and with the whole
\* group answered the warnings buffered meanwhile.
Sync ==
  LET reminders == buffered \cup NewlySaid
  IN  /\ pc = "sync" /\ step < MaxSteps /\ Acknowledged
      /\ seen' = IF pending = None THEN seen ELSE seen \cup {Last(journal).id}
      /\ heard' = heard \cup said
      /\ IF MayRemind /\ reminders # {}
         THEN talk' = Append(Answered, Reminders(reminders)) /\ buffered' = {}
         ELSE talk' = Answered /\ buffered' = IF MayRemind THEN {} ELSE reminders
      /\ pending' = None
      /\ pc' = IF queued = <<>> THEN "post" ELSE "deal"
      /\ UNCHANGED <<queued, action, runtime>>

\* _next_action: the next known call becomes the action of this step.
AfterDealing_Kept(q) == q
AfterDealing(q)      == Tail(q)

Deal ==
  /\ pc = "deal"
  /\ action' = Head(queued)
  /\ pending' = IF Head(queued) = Finish THEN None ELSE Head(queued)
  /\ queued' = AfterDealing(queued)
  /\ pc' = "act"
  /\ UNCHANGED <<runtime, talk, seen, heard, buffered>>

\* The balance, the transport or the status of the response.
PostFails ==
  /\ pc = "post"
  /\ End("interrupted")
  /\ UNCHANGED <<step, journal, said, version, ran, blocked, streak, action, teacher>>

\* A finish must come alone, after every observation.
WellFormed(calls) ==
  /\ Len(calls) \in 1 .. MaxCalls
  /\ Len(calls) > 1 => \A n \in DOMAIN calls : calls[n] # Finish

PostAnswers(calls) ==
  /\ pc = "post"
  /\ IF WellFormed(calls)
     THEN /\ talk' = Append(talk, Calls(calls))
          /\ queued' = calls
          /\ pc' = "deal" /\ UNCHANGED action
     ELSE /\ action' = Malformed
          /\ pc' = "act" /\ UNCHANGED <<talk, queued>>
  /\ UNCHANGED <<runtime, pending, seen, heard, buffered>>

-----------------------------------------------------------------------------
(* The runtime, with the action it was given. *)

Failed        == <<"the previous tool failed", 0>>
Unparsed      == <<"no tool ran", 0>>
Repetition    == <<"this exact command already ran", 0>>
Checkpoint(n) == <<"no patch yet", n>>

NextStep == step' = step + 1 /\ pc' = "sync" /\ UNCHANGED status

Signature == <<action, version>>

\* The command runs and is receipted.  What was said before is lost when the
\* messages are compressed; the checkpoint of an unpatched step comes after.
Execute(ok, v, compress) ==
  /\ pc = "act" /\ action \in Commands /\ Signature \notin ran
  /\ journal' = Append(journal, [id |-> step + 1, command |-> action])
  /\ version' = v
  /\ ran' = ran \cup {Signature}
  /\ said' = (IF compress THEN {} ELSE said \cup IF ok THEN {} ELSE {Failed})
               \cup IF step >= CheckpointFrom /\ v = Base THEN {Checkpoint(step)} ELSE {}
  /\ streak' = IF ok THEN 0 ELSE streak
  /\ NextStep
  /\ UNCHANGED <<blocked, action, teacher>>

\* The same command on the same version is refused, and ends the run when it
\* is asked for again.
RefuseRepetition ==
  /\ pc = "act" /\ action \in Commands /\ Signature \in ran
  /\ said' = said \cup {Repetition}
  /\ blocked' = blocked \cup {Signature}
  /\ IF Signature \in blocked THEN End("failed") /\ UNCHANGED step ELSE NextStep
  /\ UNCHANGED <<journal, version, ran, streak, action, teacher>>

\* A visible test ran on this version and it is a patch.
MayBeTested == version # Base /\ \E c \in Commands : <<c, version>> \in ran

\* No action: one correction, unless a tested patch is worth keeping.
RejectProtocol ==
  /\ pc = "act" /\ action = Malformed
  /\ \/ End("completed") /\ MayBeTested /\ UNCHANGED <<step, said, streak>>
     \/ /\ streak' = streak + 1
        /\ IF streak = 0
           THEN said' = said \cup {Unparsed} /\ NextStep
           ELSE End("failed") /\ UNCHANGED <<step, said>>
  /\ UNCHANGED <<journal, version, ran, blocked, action, teacher>>

Complete ==
  /\ pc = "act" /\ action = Finish
  /\ End("completed")
  /\ UNCHANGED <<step, journal, said, version, ran, blocked, streak, action, teacher>>

-----------------------------------------------------------------------------
Next ==
  \/ Observe \/ Stop
  \/ SyncRefuses \/ Sync \/ Deal \/ PostFails
  \/ \E calls \in SeqOf(Commands \cup {Finish}, MaxCalls + 1) : PostAnswers(calls)
  \/ \E ok, compress \in BOOLEAN, v \in Versions : Execute(ok, v, compress)
  \/ RefuseRepetition \/ RejectProtocol \/ Complete

Spec == Init /\ [][Next]_vars
=============================================================================

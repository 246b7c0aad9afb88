--------------------------- MODULE ContextHistory ---------------------------
(***************************************************************************)
(* The context of the next request: the messages of the runtime, bounded   *)
(* by a policy (harness/context_history.py, training/action_context.py).   *)
(* A bounded policy is applied to its own result, request after request;   *)
(* the native one keeps everything.                                        *)
(***************************************************************************)
EXTENDS AgentActions

CONSTANTS
  HistoryTurns, \* interactions recent_history keeps: 4
  LatestChars,  \* characters of the latest output that are kept: 4000 ...
  OlderChars    \* ... and of an older one: 1000

ASSUME ContextHistoryAssumption ==
  HistoryTurns \in Nat \ {0} /\ LatestChars \in Nat /\ OlderChars \in Nat /\ OlderChars <= LatestChars

System       == [role |-> "system"]
Task         == [role |-> "task"]
Assistant(r) == [role |-> "assistant", response |-> r]
Result(r)    == [role |-> "result", receipt |-> r]       \* Tool result
Rejection(w) == [role |-> "rejection", why |-> w]        \* Protocol result
Warning(w)   == [role |-> "warning", about |-> w]        \* Harness warning or checkpoint
Feedback     == [role |-> "feedback"]                    \* added by compact_context
Summary      == [role |-> "summary"]                     \* evidence, after a compression

\* What a policy that refuses the messages returns.
NoContext == <<>>

ActionOf(m) == ParseAction(m.response)

Truncated(receipt, limit) ==
  [receipt EXCEPT !.out = Min({@, limit}), !.cut = @ \/ receipt.out > limit]

\* The action in its canonical form, and its bounded observation.
ToolPair(a, receipt, limit) ==
  <<Assistant(Plain(a)), Result(Truncated(ToolObservation(a, receipt), limit))>>

Receipts(ms) == {i \in DOMAIN ms : ms[i].role \in {"result", "rejection"}}

\* The last receipt up to message n, or the task.
LastReceipt(ms, n) == Max({j \in Receipts(ms) : j <= n} \cup {2})

\* The answers between the previous receipt and receipt i.
ActionsBefore(ms, i) == {j \in LastReceipt(ms, i - 1) + 1 .. i : ms[j].role = "assistant"}

\* The receipts, each with the answer before it.
Interactions(ms) ==
  FlattenSeq([i \in DOMAIN ms |->
                IF i \in Receipts(ms)
                THEN <<[action |-> ms[Max(ActionsBefore(ms, i))], receipt |-> ms[i]]>> ELSE <<>>])

Warnings(ms) == {i \in DOMAIN ms : ms[i].role = "warning"}

Active_Expired(ms) == Picked(ms, Warnings(ms) \cap {Len(ms)})

\* The interventions since the last receipt, each once: those still active.
Active(ms) ==
  LET since == {i \in Warnings(ms) : i > LastReceipt(ms, Len(ms))}
  IN  Picked(ms, {i \in since : \A j \in since : j < i => ms[j] # ms[i]})

RecentHistory(ms, turns) ==
  LET selected == LastOf(Interactions(ms), turns)
      Paired == \A i \in Receipts(ms) : Cardinality(ActionsBefore(ms, i)) = 1
      Real(x) == x.receipt.role = "result" =>
                   Executable(ActionOf(x.action)) /\ Observable(ActionOf(x.action), x.receipt.receipt)
      Pair(x, limit) ==
        IF x.receipt.role = "rejection" THEN <<x.action, x.receipt>>
        ELSE ToolPair(ActionOf(x.action), x.receipt.receipt, limit)
      pairs == [n \in DOMAIN selected |->
                  Pair(selected[n], IF n = Len(selected) THEN LatestChars ELSE OlderChars)]
  IN  IF ~Paired \/ ~(\A n \in DOMAIN selected : Real(selected[n])) THEN NoContext
      ELSE IF selected = <<>> THEN ms
      ELSE <<ms[1], ms[2]>> \o FlattenSeq(pairs) \o Active(ms)

\* compact_context: the last real interaction only, unless one was rejected.
CompactContext(ms) ==
  LET results == {i \in DOMAIN ms : ms[i].role = "result"}
      actions == {j \in DOMAIN ms : ms[j].role = "assistant" /\ j < Max(results)}
      a       == ActionOf(ms[Max(actions)])
      receipt == ms[Max(results)].receipt
  IN  IF \E i \in DOMAIN ms : ms[i].role = "rejection" THEN RecentHistory(ms, 2)
      ELSE IF results = {} THEN <<ms[1], ms[2]>>
      ELSE IF actions = {} \/ ~Executable(a) THEN NoContext
      ELSE <<ms[1], ms[2], Assistant(Plain(a)), Result(Truncated(receipt, LatestChars))>>
           \o IF receipt.ok THEN <<>> ELSE <<Feedback>>

\* Every message has a character, and a result those of its output.
Characters(ms) ==
  LET Size(m) == 1 + IF m.role = "result" THEN m.receipt.out ELSE 0
  IN  FoldSeq(LAMBDA m, n : n + Size(m), 0, ms)

\* native is the default of the runtime, which compresses it, see Outgrown.
BoundedPolicies == {"recent-history-v3", "last-action-v2"}
Policies == BoundedPolicies \cup {"native"}

PrepareContext(ms, policy) ==
  CASE policy = "recent-history-v3" -> RecentHistory(ms, HistoryTurns)
    [] policy = "last-action-v2" -> CompactContext(ms)
    [] policy = "native" -> ms
=============================================================================

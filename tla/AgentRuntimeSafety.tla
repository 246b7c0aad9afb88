------------------------- MODULE AgentRuntimeSafety -------------------------
(***************************************************************************)
(* What a run of the agent promises whatever kills its processes.  Most of *)
(* the promises are about the files it leaves, which is what a resumed run *)
(* and the training data are made of.                                      *)
(***************************************************************************)
EXTENDS AgentRuntime

Texts      == Commands \cup {Done, Invalid}
ToolIds    == Steps \cup {InventoryId}
Signatures == (Commands \cup {Inventory}) \X Versions
RunStatuses == {"running", "cancelled", "failed", "completed", "blocked", "interrupted"}

Ledgers ==
  {l \in [limit : {0} \cup ToolLimits, tokens : 0 .. TokenLimit, seconds : 0 .. SecondsLimit, calls : Nat] :
     l.calls <= l.limit}

States ==
  [status : RunStatuses, step : Nat, nextStep : 0 .. MaxSteps,
   pendingModel : BOOLEAN, pendingAction : Steps \cup {NoAction},
   pendingText : Texts \cup {None}, tested : Versions \cup {None},
   previous : Signatures \cup {None}, repeated : Nat,
   streak : Nat, unverified : Nat, failedEdits : 0 .. 2,
   reads : [Paths -> 0 .. ReadLimit], warned : SUBSET Paths, inventoried : BOOLEAN]

Stages ==
  {"off", "first", "inventory", "inventoryRuns", "inventoryReceipt", "inventorySaves",
   "prompt", "loop", "ask", "act", "refused", "intent", "toolRuns", "receipt", "settled",
   "final", "summary"}

Entries ==
  [type : {"intent"}, id : ToolIds, cmd : Commands \cup {Inventory}, version : Versions]
    \cup [type : {"receipt"}, id : ToolIds, cmd : Commands \cup {Inventory}, version : Versions,
          result : {"ok", "match", "failed", "cancelled"}, secs : Durations]

\* Types, and with them the limits the loop enforces: no ledger, in memory or
\* on disk, ever exceeds the budget (budget.py consume), no more than two edits
\* are counted as rejected (runtime.py:580) and no file is read more often than
\* the navigation limit allows (runtime.py:414).
TypeOK ==
  /\ pc \in Stages
  /\ mem \in States /\ ledger \in Ledgers
  /\ loc \in [seen : SUBSET Signatures, refused : SUBSET Signatures, visible : BOOLEAN]
  /\ ws \in Versions
  /\ ckpt \in {None} \cup [state : States, ledger : Ledgers, digest : Versions]
  /\ journal \in Seq(Entries)
  /\ log \in [tools : Seq([id : ToolIds, signature : Signatures]),
              refused : SUBSET Signatures, inventories : 0 .. 1, prompts : 0 .. 1]
  /\ summary \in {None} \cup [status : RunStatuses, diff : Versions, visible : BOOLEAN, ledger : Ledgers]
  /\ starts \in 0 .. MaxStarts
  /\ hist \in [asked : Nat, answered : Nat, overran : BOOLEAN]

-----------------------------------------------------------------------------
(* The ledger refuses the cost of a tool that outlasts the budget, after   *)
(* the tool has run (runtime.py:512).  What that leaves behind is stated   *)
(* apart, below; the promises here are about all other behaviours.         *)

Regular == ~hist.overran

Receipts == {n \in DOMAIN journal : journal[n].type = "receipt"}
Intents  == {n \in DOMAIN journal : journal[n].type = "intent"}

EveryActionRunsOnce ==
  \A m, n \in Intents : journal[m].id = journal[n].id => m = n

\* "An acknowledged action is recovered without execution again", and one with
\* an unknown outcome ends the run: every intent is answered by its own receipt
\* before the next, only the last may lack one, and no action has two.
OutcomesAreKnown ==
  Regular => /\ EveryActionRunsOnce
             /\ \A n \in DOMAIN journal : n \in Receipts <=> n % 2 = 0
             /\ \A n \in Receipts : journal[n].id = journal[n - 1].id

\* Paid requests are never repeated blindly: a request goes out only when the
\* answer to every earlier one is in a checkpoint (runtime.py:219-220, 312-322).
RequestsAreAcknowledged ==
  [][hist'.asked # hist.asked => hist.asked = hist.answered]_vars

\* Progress: no command runs twice on the same version of the workspace, not
\* even when a crash lies between (runtime.py:116-152, 457).
NoCommandRunsTwiceOnAVersion ==
  Regular => \A m, n \in Intents :
    SignatureOf(journal[m]) = SignatureOf(journal[n]) => m = n

\* "Monotonic ledger; recovery and retries never reset already-spent cost": no
\* checkpoint ever records less than the one it replaces.
SpendingNeverShrinks ==
  [][ckpt # None => /\ ckpt'.ledger.tokens >= ckpt.ledger.tokens
                    /\ ckpt'.ledger.seconds >= ckpt.ledger.seconds
                    /\ ckpt'.ledger.calls >= ckpt.ledger.calls]_vars

Uncharged == {n \in Receipts : \/ journal[n].id = ckpt.state.pendingAction
                               \/ journal[n].id = InventoryId /\ ~ckpt.state.inventoried}

\* Tool calls are charged exactly once each: the checkpoint has charged every
\* receipt of the journal but the one it names as outstanding, which is the one
\* a resumed process will charge (runtime.py:229, repository_inventory.py:47).
CallsAreChargedOnce ==
  Regular /\ ckpt # None =>
    /\ ckpt.ledger.calls + Cardinality(Uncharged) = Cardinality(Receipts)
    /\ Uncharged \subseteq {Len(journal)}

Passed(d) ==
  \E n \in Receipts : /\ journal[n].cmd \in Tests /\ Succeeded(journal[n])
                      /\ Patch(journal[n].version) = d /\ Patch(journal[n - 1].version) = d

TestedPatch == summary # None /\ summary.visible => summary.diff # NoPatch /\ Passed(summary.diff)

\* "Edit after passing test invalidates visible verification": a summary that
\* claims a passing visible test is about exactly the patch that passed it, and
\* with the flag a patch is only completed with one (runtime.py:269, 380, 531).
SummaryIsAboutTheTestedPatch ==
  Regular => /\ TestedPatch
             /\ summary # None /\ RequireTest /\ summary.status = "completed" /\ summary.diff # NoPatch
                  => summary.visible

-----------------------------------------------------------------------------
(* What the documentation says of all behaviours, the tool that outlasts   *)
(* the budget included.                                                    *)

\* "The harness does not replay it just because a worker restarted."
AcknowledgedActionsAreNotReplayed == EveryActionRunsOnce
=============================================================================

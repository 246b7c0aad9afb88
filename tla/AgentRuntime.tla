---------------------------- MODULE AgentRuntime ----------------------------
(***************************************************************************)
(* One run of the agent (runtime.py) over its run directory: the step      *)
(* loop, the two-phase action journal (harness/recovery.py), the budget    *)
(* ledger (harness/budget.py), the inventory observation                   *)
(* (harness/repository_inventory.py) and the checkpoints, events and       *)
(* summary it writes (storage/artifacts.py).                               *)
(*                                                                         *)
(* A process runs from one durable write to the next in one action; it may *)
(* be killed, or raise, between any two of them, and a later process may   *)
(* resume the run.  A version stands for the content of the workspace,     *)
(* which its digest names; the diff of a version leaves untracked files    *)
(* out, so two versions may have the same one.  The money a request costs  *)
(* is accounted as its tokens are, and is not modelled apart.              *)
(***************************************************************************)
EXTENDS Integers, FiniteSets, Sequences

CONSTANTS
  Edits, Tests, Reads, Searches, \* the commands the model may ask for
  Inventory,      \* the observation program, which only the harness runs
  Paths, PathOf,  \* the source file a read or a search names
  Done, Invalid,  \* an answer that finishes, and one no tool can run
  None,           \* no checkpoint, text, version or signature
  Versions, Pristine, \* contents of the workspace; the base commit
  DiffOf,         \* what git diff says of a version
  MaxSteps, TokenLimit, SecondsLimit, \* the run configuration ...
  ToolLimits,     \* ... and the tool-call limits a run may be given
  WithInventory,  \* repository_inventory is on
  RequireTest,    \* a patch needs a passing visible test, and the task has one
  ReadLimit,      \* typed reads of a file before a search or an edit: 3
  TokenBound,     \* what a request is assumed to cost before it is sent
  Usages, Durations, \* what a request and a tool really cost
  MaxStarts       \* bound: processes that work on the run

Observations == Reads \cup Searches \cup {Inventory}
Commands     == Edits \cup Tests \cup Reads \cup Searches

ASSUME AgentRuntimeAssumption ==
  /\ Pristine \in Versions /\ DiffOf \in [Versions -> Versions]
  /\ PathOf \in [Reads \cup Searches -> Paths]
  /\ {MaxSteps, TokenLimit, SecondsLimit, TokenBound} \subseteq Nat
  /\ ToolLimits \subseteq Nat
  /\ Usages \subseteq Nat /\ Durations \subseteq Nat
  /\ ReadLimit \in Nat \ {0} /\ MaxStarts \in Nat \ {0}
  /\ {WithInventory, RequireTest} \subseteq BOOLEAN
  /\ None \notin Versions /\ Inventory \notin Commands
  /\ {Done, Invalid, None} \cap (Commands \cup {Inventory}) = {}
  /\ Cardinality({Done, Invalid, None}) = 3

Steps       == 0 .. MaxSteps - 1
InventoryId == MaxSteps
NoAction    == -1

VARIABLES
  pc,       \* where the process is; "off" when there is none
  mem,      \* its RunState
  ledger,   \* its budget ledger
  loc,      \* its other locals: signatures seen and refused, visible_test_passed
  ws,       \* the version of the workspace
  ckpt,     \* checkpoint.json
  journal,  \* actions.jsonl
  log,      \* the part of events.jsonl that the code reads back
  summary,  \* summary.json
  starts,   \* processes started; the first one wrote run.json
  hist      \* history, read by no action

process == <<pc, mem, ledger, loc>>
records == <<ckpt, journal, log, summary>>
vars    == <<process, ws, records, starts, hist>>

\* A ledger: the limit on tool calls, and what is spent.
NewLedger(limit) == [limit |-> limit, tokens |-> 0, seconds |-> 0, calls |-> 0]

NewState ==
  [status |-> "running", step |-> 0, nextStep |-> 0,
   pendingModel |-> FALSE, pendingAction |-> NoAction, pendingText |-> None,
   tested |-> None, previous |-> None, repeated |-> 0,
   streak |-> 0, unverified |-> 0, failedEdits |-> 0,
   reads |-> [p \in Paths |-> 0], warned |-> {}, inventoried |-> FALSE]

NoLocals == [seen |-> {}, refused |-> {}, visible |-> FALSE]

Init ==
  /\ pc = "off" /\ mem = NewState /\ ledger = NewLedger(0) /\ loc = NoLocals
  /\ ws = Pristine
  /\ ckpt = None /\ journal = <<>> /\ summary = None
  /\ log = [tools |-> <<>>, refused |-> {}, inventories |-> 0, prompts |-> 0]
  /\ starts = 0
  /\ hist = [asked |-> 0, answered |-> 0, overran |-> FALSE]

-----------------------------------------------------------------------------
(* The ledger, the journal and the evidence rebuilt from them.             *)

Plus(l, t, s, c) == [l EXCEPT !.tokens = @ + t, !.seconds = @ + s, !.calls = @ + c]

Fits(l) == l.tokens <= TokenLimit /\ l.seconds <= SecondsLimit /\ l.calls <= l.limit

TimeLeft(l) == l.seconds < SecondsLimit

\* restore() after a restart, when the new ledger is still empty.
Restored_Reset(l) == NewLedger(l.limit)

Restored(l) == l

Of(type, id) == {n \in DOMAIN journal : journal[n].type = type /\ journal[n].id = id}

Newest(ns) == CHOOSE n \in ns : \A m \in ns : m <= n
Eldest(ns) == CHOOSE n \in ns : \A m \in ns : n <= m

Acknowledged(id) == Of("receipt", id) # {}

Unacknowledged == {journal[n].id : n \in {m \in DOMAIN journal : ~Acknowledged(journal[m].id)}}

Intent(id, c, v) == [type |-> "intent", id |-> id, cmd |-> c, version |-> v]

Receipt(id, c, v, result, s) ==
  [type |-> "receipt", id |-> id, cmd |-> c, version |-> v, result |-> result, secs |-> s]

Succeeded(r) == r.result \in {"ok", "match"}

\* The command and the version it ran on.
Signature(c, v) == <<c, v>>

SignatureOf(i) == Signature(i.cmd, i.version)

LoadActionHistory_LastOnly(prev) == {prev} \ {None}

LoadActionHistory(prev) ==
  {log.tools[n].signature : n \in DOMAIN log.tools}
    \cup {SignatureOf(journal[Newest(Of("intent", journal[n].id))]) :
            n \in {m \in DOMAIN journal : journal[m].type = "receipt"}}
    \cup ({prev} \ {None})

Patch(v) == DiffOf[v]

NoPatch == Patch(Pristine)

\* Does the patch that was tested stand in the workspace?
Visible_AnyTest(t, v) == t # None

Visible(t, v) == t # None /\ t = Patch(v)

ToolEvent(i) == [id |-> i.id, signature |-> SignatureOf(i)]

Logged(id) == \E n \in DOMAIN log.tools : log.tools[n].id = id

\* _record_source_navigation: reads are counted until a search of the file
\* finds something or the source changes.
Navigated(s, c, r, before) ==
  LET moved == r.version # before
      reads == IF moved THEN [p \in Paths |-> 0] ELSE s.reads
      warned == IF moved THEN {} ELSE s.warned
  IN  [s EXCEPT
        !.reads = IF c \in Reads /\ Succeeded(r) THEN [reads EXCEPT ![PathOf[c]] = @ + 1]
                  ELSE IF c \in Searches /\ r.result = "match"
                  THEN [reads EXCEPT ![PathOf[c]] = 0] ELSE reads,
        !.warned = IF c \in Searches /\ r.result = "match" THEN warned \ {PathOf[c]} ELSE warned]

CountRejected(s, c, r) == IF c \in Edits /\ ~Succeeded(r) THEN s.failedEdits + 1 ELSE s.failedEdits

\* What every receipt does to the state, in the loop or in a recovery.
Counted(s, c, r, before) ==
  [Navigated(s, c, r, before) EXCEPT
     !.failedEdits = CountRejected(s, c, r),
     !.streak = IF Succeeded(r) THEN 0 ELSE @]

\* The answer has been dealt with: the next step asks for another one.
Consumed(s) == [s EXCEPT !.pendingText = None, !.nextStep = s.step + 1]

Checkpoint(s, l) == [state |-> s, ledger |-> l, digest |-> ws]

-----------------------------------------------------------------------------
(* The beginning of a process.                                             *)

Start ==
  /\ pc = "off" /\ starts = 0
  /\ starts' = 1
  /\ pc' = "first"
  /\ ledger' \in {NewLedger(limit) : limit \in ToolLimits}
  /\ UNCHANGED <<mem, loc, ws, records, hist>>

Resumable ==
  /\ pc = "off" /\ starts \in 1 .. MaxStarts - 1
  /\ ckpt # None
  /\ ckpt.state.status # "completed"
  /\ ~ckpt.state.pendingModel
  /\ Unacknowledged = {}

\* No tool was outstanding: the workspace must be the one of the checkpoint.
Resume ==
  LET s == ckpt.state
  IN  /\ Resumable /\ s.pendingAction = NoAction
      /\ ckpt.digest = ws
      /\ starts' = starts + 1
      /\ pc' = "first"
      /\ mem' = [s EXCEPT !.status = "running"]
      /\ ledger' = Restored(ckpt.ledger)
      /\ loc' = [seen |-> LoadActionHistory(s.previous), refused |-> log.refused,
                 visible |-> Visible(s.tested, ws)]
      /\ UNCHANGED <<ws, records, hist>>

AfterRecovery_SameStep(s) == [s EXCEPT !.pendingAction = NoAction, !.pendingText = None, !.tested = None]

AfterRecovery(s) == [Consumed(s) EXCEPT !.pendingAction = NoAction, !.tested = None]

LogRecovered(i) == IF Logged(i.id) THEN log.tools ELSE Append(log.tools, ToolEvent(i))

RecoveryCharge_Free(l, r) == l

RecoveryCharge(l, r) == Plus(l, 0, r.secs, 1)

\* A tool was outstanding and its receipt is there: settle it, run nothing.
Recover ==
  LET s == ckpt.state
      i == journal[Eldest(Of("intent", s.pendingAction))]
      r == journal[Newest(Of("receipt", s.pendingAction))]
  IN  /\ Resumable /\ s.pendingAction # NoAction
      /\ Acknowledged(s.pendingAction)
      /\ r.version = ws
      /\ Fits(RecoveryCharge(ckpt.ledger, r))
      /\ starts' = starts + 1
      /\ pc' = "first"
      /\ mem' = [AfterRecovery(Counted(s, i.cmd, r, i.version)) EXCEPT !.status = "running"]
      /\ ledger' = RecoveryCharge(Restored(ckpt.ledger), r)
      /\ loc' = [seen |-> LoadActionHistory(s.previous) \cup {SignatureOf(i)},
                 refused |-> log.refused, visible |-> FALSE]
      /\ log' = [log EXCEPT !.tools = LogRecovered(i)]
      /\ UNCHANGED <<ws, ckpt, journal, summary, hist>>

FirstCheckpoint ==
  /\ pc = "first"
  /\ ckpt' = Checkpoint(mem, ledger)
  /\ pc' = IF WithInventory THEN "inventory" ELSE "prompt"
  /\ UNCHANGED <<mem, ledger, loc, ws, journal, log, summary, starts, hist>>

EndWith(s, status) == pc' = "final" /\ mem' = [s EXCEPT !.status = status]

-----------------------------------------------------------------------------
(* The inventory: one observation of the harness, recovered by its receipt.*)

CanCall == Fits(Plus(ledger, 0, 0, 1)) /\ TimeLeft(ledger)

InventoryBlocked ==
  /\ pc = "inventory"
  /\ ~mem.inventoried /\ ~CanCall
  /\ EndWith(mem, "blocked")
  /\ UNCHANGED <<ledger, loc, ws, records, starts, hist>>

InventoryKnown == Acknowledged(InventoryId)

InventoryRecovered ==
  /\ pc = "inventory"
  /\ mem.inventoried \/ CanCall
  /\ InventoryKnown
  /\ pc' = "inventoryReceipt"
  /\ UNCHANGED <<mem, ledger, loc, ws, records, starts, hist>>

InventoryIntent ==
  /\ pc = "inventory"
  /\ ~mem.inventoried /\ CanCall
  /\ ~InventoryKnown
  /\ journal' = Append(journal, Intent(InventoryId, Inventory, ws))
  /\ pc' = "inventoryRuns"
  /\ UNCHANGED <<mem, ledger, loc, ws, ckpt, log, summary, starts, hist>>

\* The receipt is charged once, whichever process finds it.
InventoryAttached ==
  LET r == journal[Newest(Of("receipt", InventoryId))]
      l == IF mem.inventoried THEN ledger ELSE Plus(ledger, 0, r.secs, 1)
  IN  /\ pc = "inventoryReceipt"
      /\ mem.inventoried \/ r.version = ws
      /\ \/ /\ ~Fits(l) /\ EndWith(mem, "blocked")
            /\ UNCHANGED <<ledger, log>>
         \/ /\ Fits(l)
            /\ ledger' = l
            /\ mem' = [mem EXCEPT !.inventoried = TRUE,
                                  !.status = IF r.result = "cancelled" THEN "cancelled" ELSE @]
            /\ log' = IF log.inventories = 0 THEN [log EXCEPT !.inventories = 1] ELSE log
            /\ pc' = "inventorySaves"
      /\ UNCHANGED <<loc, ws, ckpt, journal, summary, starts, hist>>

InventorySaved ==
  /\ pc = "inventorySaves"
  /\ ckpt' = Checkpoint(mem, ledger)
  /\ pc' = "prompt"
  /\ UNCHANGED <<mem, ledger, loc, ws, journal, log, summary, starts, hist>>

\* The initial prompt is recorded once, when it is the one the model will get.
RecordPrompt ==
  /\ pc = "prompt"
  /\ log' = IF log.prompts = 0 THEN [log EXCEPT !.prompts = 1] ELSE log
  /\ pc' = "loop"
  /\ UNCHANGED <<mem, ledger, loc, ws, ckpt, journal, summary, starts, hist>>

-----------------------------------------------------------------------------
(* The head of the loop and the model request.                             *)

EditsExhausted(s) == s.failedEdits >= 2

Entering == [mem EXCEPT !.step = mem.nextStep]

InLoop == pc = "loop" /\ mem.nextStep < MaxSteps

LoopEnds ==
  /\ \/ /\ pc = "loop" /\ mem.nextStep >= MaxSteps
        /\ EndWith(mem, IF mem.status = "cancelled" THEN "cancelled" ELSE "failed")
     \/ InLoop /\ mem.status = "cancelled" /\ EndWith(mem, "cancelled")
     \/ InLoop /\ mem.status # "cancelled" /\ EditsExhausted(mem) /\ EndWith(mem, "failed")
  /\ UNCHANGED <<ledger, loc, ws, records, starts, hist>>

StepBegins == InLoop /\ mem.status # "cancelled" /\ ~EditsExhausted(mem)

CancellationSeen ==
  /\ StepBegins
  /\ EndWith(Entering, "cancelled")
  /\ UNCHANGED <<ledger, loc, ws, records, starts, hist>>

\* e: the seconds since the clock was last read.
StepBlocked(e) ==
  LET l == Plus(ledger, 0, e, 0)
      known == mem.pendingText # None
  IN  /\ StepBegins
      /\ \/ ~Fits(l) /\ ledger' = ledger
         \/ /\ Fits(l) /\ ~known
            /\ ~(Fits(Plus(l, TokenBound, 0, 0)) /\ TimeLeft(l))
            /\ ledger' = l
      /\ EndWith(Entering, "blocked")
      /\ UNCHANGED <<loc, ws, records, starts, hist>>

\* The answer of an earlier process is still to be acted on.
ReuseAnswer(e) ==
  /\ StepBegins /\ mem.pendingText # None
  /\ Fits(Plus(ledger, 0, e, 0))
  /\ ledger' = Plus(ledger, 0, e, 0)
  /\ mem' = Entering
  /\ pc' = "act"
  /\ UNCHANGED <<loc, ws, records, starts, hist>>

BeforeRequest_Unsaved(s, l) == ckpt

BeforeRequest(s, l) == Checkpoint(s, l)

AskModel(e) ==
  LET l == Plus(ledger, 0, e, 0)
  IN  /\ StepBegins /\ mem.pendingText = None
      /\ Fits(Plus(l, TokenBound, 0, 0)) /\ TimeLeft(l)
      /\ ledger' = l
      /\ mem' = [Entering EXCEPT !.pendingModel = TRUE]
      /\ ckpt' = BeforeRequest(mem', l)
      /\ pc' = "ask"
      /\ hist' = [hist EXCEPT !.asked = @ + 1]
      /\ UNCHANGED <<loc, ws, journal, log, summary, starts>>

Answered(s, text) == [s EXCEPT !.pendingModel = FALSE, !.pendingText = text]

ModelAnswers(text, t, e) ==
  LET l == Plus(ledger, t, e, 0)
  IN  /\ pc = "ask"
      /\ \/ /\ ~Fits(l) /\ EndWith(mem, "blocked")
            /\ UNCHANGED <<ledger, ckpt, hist>>
         \/ /\ Fits(l)
            /\ ledger' = l
            /\ mem' = Answered(mem, text)
            /\ ckpt' = Checkpoint(mem', l)
            /\ pc' = "act"
            /\ hist' = [hist EXCEPT !.answered = @ + 1]
      /\ UNCHANGED <<loc, ws, journal, log, summary, starts>>

-----------------------------------------------------------------------------
(* Acting on the answer: at most one tool runs.                            *)

Patched == Patch(ws) # NoPatch

NextStep(s) == pc' = "loop" /\ mem' = s /\ ckpt' = Checkpoint(s, ledger)

ActOnly == UNCHANGED <<ledger, loc, ws, journal, log, summary, starts, hist>>

\* After a tested patch a malformed answer ends the run with that patch.
InvalidAfterTest ==
  /\ pc = "act" /\ mem.pendingText = Invalid
  /\ loc.visible /\ Patched
  /\ EndWith(mem, "completed")
  /\ UNCHANGED ckpt /\ ActOnly

InvalidAnswer ==
  LET s == [Consumed(mem) EXCEPT !.streak = @ + 1]
  IN  /\ pc = "act" /\ mem.pendingText = Invalid
      /\ ~(loc.visible /\ Patched)
      /\ \/ s.streak <= 1 /\ NextStep(s)
         \/ s.streak > 1 /\ EndWith(s, "failed") /\ UNCHANGED ckpt
      /\ ActOnly

Unverified == RequireTest /\ Patched /\ ~loc.visible

DoneUnverified ==
  LET s == [mem EXCEPT !.unverified = @ + 1]
  IN  /\ pc = "act" /\ mem.pendingText = Done
      /\ Unverified
      /\ \/ s.unverified = 1 /\ NextStep(Consumed(s))
         \/ s.unverified # 1 /\ EndWith(s, "failed") /\ UNCHANGED ckpt
      /\ ActOnly

DoneAccepted ==
  /\ pc = "act" /\ mem.pendingText = Done
  /\ ~Unverified
  /\ EndWith(Consumed(mem), "completed")
  /\ UNCHANGED ckpt /\ ActOnly

AsksFor(c) == pc = "act" /\ mem.pendingText = c

TooManyReads(c) == c \in Reads /\ mem.reads[PathOf[c]] >= ReadLimit

ReadRefused(c) ==
  LET s == Consumed(mem)
      p == PathOf[c]
  IN  /\ AsksFor(c) /\ TooManyReads(c)
      /\ \/ p \notin mem.warned /\ NextStep([s EXCEPT !.warned = @ \cup {p}])
         \/ /\ p \in mem.warned /\ EndWith(s, "failed")
            /\ ckpt' = Checkpoint(mem', ledger)
      /\ ActOnly

Repeats(c) == Signature(c, ws) \in loc.seen

\* The same command on the same version: refused once, then the end.
RepeatRefused(c) ==
  LET g == Signature(c, ws)
  IN  /\ AsksFor(c) /\ ~TooManyReads(c) /\ Repeats(c)
      /\ mem' = [Consumed(mem) EXCEPT !.status = IF g \in loc.refused THEN "failed" ELSE @]
      /\ loc' = [loc EXCEPT !.refused = @ \cup {g}]
      /\ log' = [log EXCEPT !.refused = @ \cup {g}]
      /\ pc' = "refused"
      /\ UNCHANGED <<ledger, ws, ckpt, journal, summary, starts, hist>>

RefusalSaved ==
  /\ pc = "refused"
  /\ ckpt' = Checkpoint(mem, ledger)
  /\ pc' = IF mem.status = "failed" THEN "final" ELSE "loop"
  /\ UNCHANGED <<mem, ledger, loc, ws, journal, log, summary, starts, hist>>

RunsTool(c) == AsksFor(c) /\ ~TooManyReads(c) /\ ~Repeats(c)

ToolBlocked(c) ==
  /\ RunsTool(c) /\ ~CanCall
  /\ EndWith(mem, "blocked")
  /\ UNCHANGED ckpt /\ ActOnly

ToolIntent(c) ==
  /\ RunsTool(c) /\ CanCall
  /\ mem' = [mem EXCEPT !.pendingAction = mem.step]
  /\ journal' = Append(journal, Intent(mem.step, c, ws))
  /\ pc' = "intent"
  /\ UNCHANGED <<ledger, loc, ws, ckpt, log, summary, starts, hist>>

IntentSaved ==
  /\ pc = "intent"
  /\ ckpt' = Checkpoint(mem, ledger)
  /\ pc' = "toolRuns"
  /\ UNCHANGED <<mem, ledger, loc, ws, journal, log, summary, starts, hist>>

\* A command that failed, was cancelled or ran out of time may have written.
Effects(c) == IF c \in Observations THEN {ws} ELSE Versions

Results(c) == {"ok", "failed", "cancelled"} \cup (IF c \in Searches THEN {"match"} ELSE {})

Running == pc \in {"toolRuns", "inventoryRuns"}

Current == journal[Len(journal)]

\* The executor runs the command and appends its receipt.
ToolRuns(result, v, s) ==
  /\ Running
  /\ result \in Results(Current.cmd) /\ v \in Effects(Current.cmd)
  /\ ws' = v
  /\ journal' = Append(journal, Receipt(Current.id, Current.cmd, v, result, s))
  /\ pc' = IF pc = "toolRuns" THEN "receipt" ELSE "inventoryReceipt"
  /\ UNCHANGED <<mem, ledger, loc, ckpt, log, summary, starts, hist>>

\* The test passed on a patch it did not change.
PassingTest(i, r) ==
  /\ i.cmd \in Tests /\ Succeeded(r)
  /\ Patch(i.version) # NoPatch /\ Patch(r.version) = Patch(i.version)

\* e: the seconds since the step acted, the tool's own included.
ToolSettled(e) ==
  LET r == Current
      i == journal[Newest(Of("intent", mem.step))]
      l == Plus(ledger, 0, e, 1)
      g == SignatureOf(i)
      tested == IF PassingTest(i, r) THEN Patch(i.version) ELSE mem.tested
      again == IF g = mem.previous THEN mem.repeated + 1 ELSE 0
      s == [Counted(Consumed(mem), i.cmd, r, i.version) EXCEPT
              !.pendingAction = NoAction, !.tested = tested,
              !.previous = g, !.repeated = again]
  IN  /\ pc = "receipt" /\ e >= r.secs
      /\ Fits(l)
      /\ ledger' = l
      /\ mem' = [s EXCEPT !.status = IF r.result = "cancelled" THEN "cancelled"
                                     ELSE IF EditsExhausted(s) \/ again >= 2 THEN "failed" ELSE @]
      /\ loc' = [loc EXCEPT !.seen = @ \cup {g}, !.visible = Visible(tested, ws)]
      /\ log' = [log EXCEPT !.tools = Append(@, ToolEvent(i))]
      /\ pc' = "settled"
      /\ UNCHANGED <<ws, ckpt, journal, summary, starts, hist>>

\* The tool took longer than the budget had left: the ledger refuses its cost.
ToolOverran(e) ==
  /\ pc = "receipt" /\ e >= Current.secs
  /\ ~Fits(Plus(ledger, 0, e, 1))
  /\ EndWith(mem, "blocked")
  /\ hist' = [hist EXCEPT !.overran = TRUE]
  /\ UNCHANGED <<ledger, loc, ws, records, starts>>

SettlementSaved ==
  /\ pc = "settled"
  /\ \/ mem.status = "running" /\ NextStep(mem)
     \/ mem.status # "running" /\ pc' = "final" /\ UNCHANGED <<mem, ckpt>>
  /\ ActOnly

-----------------------------------------------------------------------------
(* The end of a process.                                                   *)

FinalCheckpoint ==
  /\ pc = "final"
  /\ mem' = [mem EXCEPT !.pendingAction = NoAction]
  /\ ckpt' = Checkpoint(mem', ledger)
  /\ pc' = "summary"
  /\ UNCHANGED <<ledger, loc, ws, journal, log, summary, starts, hist>>

Gone == pc' = "off" /\ mem' = NewState /\ ledger' = NewLedger(0) /\ loc' = NoLocals

SaveSummary ==
  /\ pc = "summary"
  /\ summary' = [status |-> mem.status, diff |-> Patch(ws), visible |-> loc.visible, ledger |-> ledger]
  /\ Gone
  /\ UNCHANGED <<ws, ckpt, journal, log, starts, hist>>

\* A tool that is cut short may have changed the workspace.
LeftBehind == IF Running THEN Effects(Current.cmd) ELSE {ws}

\* An exception inside the try block: the state is saved as it is.
Raise ==
  /\ pc \notin {"off", "first", "final", "summary"}
  /\ ws' \in LeftBehind
  /\ ckpt' = [state |-> [mem EXCEPT !.status = "interrupted"], ledger |-> ledger, digest |-> ws']
  /\ Gone
  /\ UNCHANGED <<journal, log, summary, starts, hist>>

\* The process is killed, or raises outside the try block.
Crash ==
  /\ pc # "off"
  /\ ws' \in LeftBehind
  /\ Gone
  /\ UNCHANGED <<records, starts, hist>>

-----------------------------------------------------------------------------
InventoryStep ==
  \/ InventoryBlocked \/ InventoryRecovered \/ InventoryIntent
  \/ InventoryAttached \/ InventorySaved

HeadStep ==
  \/ LoopEnds \/ CancellationSeen
  \/ \E e \in Durations : StepBlocked(e) \/ ReuseAnswer(e) \/ AskModel(e)

Answering ==
  \E text \in Commands \cup {Done, Invalid}, t \in Usages, e \in Durations : ModelAnswers(text, t, e)

ActStep ==
  \/ InvalidAfterTest \/ InvalidAnswer \/ DoneUnverified \/ DoneAccepted
  \/ \E c \in Commands : ReadRefused(c) \/ RepeatRefused(c) \/ ToolBlocked(c) \/ ToolIntent(c)
  \/ RefusalSaved \/ IntentSaved

ToolStep ==
  \/ \E result \in {"ok", "match", "failed", "cancelled"}, v \in Versions, s \in Durations :
       ToolRuns(result, v, s)
  \/ \E e \in Durations : ToolSettled(e) \/ ToolOverran(e)
  \/ SettlementSaved

Runtime ==
  \/ FirstCheckpoint \/ InventoryStep \/ RecordPrompt
  \/ HeadStep \/ Answering \/ ActStep \/ ToolStep
  \/ FinalCheckpoint \/ SaveSummary

Next == Start \/ Resume \/ Recover \/ Runtime \/ Raise \/ Crash

Spec == Init /\ [][Next]_vars

=============================================================================

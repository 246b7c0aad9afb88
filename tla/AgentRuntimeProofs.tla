------------------------- MODULE AgentRuntimeProofs -------------------------
(***************************************************************************)
(* For every task, budget and number of restarts: what a run has spent is  *)
(* never forgotten by a later checkpoint, no request to the model is sent  *)
(* while the answer to an earlier one is not known, and, unless a tool     *)
(* overran the budget, every action has one outcome and one charge, no     *)
(* command runs twice on a version, and a summary is about the patch that  *)
(* passed its test.                                                        *)
(***************************************************************************)
EXTENDS AgentRuntimeSafety, FiniteSetTheorems, WellFoundedInduction, TLAPS

Fields ==
  {"status", "step", "nextStep", "pendingModel", "pendingAction", "pendingText", "tested", "previous",
   "repeated", "streak", "unverified", "failedEdits", "reads", "warned", "inventoried"}

StateLike(s) == s = [f \in Fields |-> s[f]]

Spent == [limit : Nat, tokens : Nat, seconds : Nat, calls : Nat]

\* Nothing of k is missing in l.
Covers(l, k) == l.tokens >= k.tokens /\ l.seconds >= k.seconds /\ l.calls >= k.calls

\* Ledgers are typed, and no process has less on its ledger than is saved.
Money ==
  /\ ledger \in Spent
  /\ starts \in Nat /\ (starts = 0 => pc = "off" /\ ckpt = None)
  /\ ckpt # None => ckpt.ledger \in Spent
  /\ pc # "off" /\ ckpt # None => Covers(ledger, ckpt.ledger)

\* Receipts are typed, and the one of the inventory is there when it is needed.
Journalled ==
  /\ \E S : journal \in Seq(S)
  /\ \A n \in DOMAIN journal : journal[n].type = "receipt" => journal[n].secs \in Nat
  /\ pc = "inventoryRuns" => journal # <<>> /\ Current.id = InventoryId
  /\ pc = "inventoryReceipt" => Acknowledged(InventoryId)

Accounts == Money /\ Journalled

\* A nonempty set of places has a last one.
LEMMA LastExists ==
  ASSUME NEW n \in Nat, NEW S \in SUBSET (1 .. n), S # {}
  PROVE  \E l \in S : \A m \in S : m <= l
<1> DEFINE T == {l .. n : l \in S}
<1>1. T # {} /\ T \subseteq FiniteSubsetsOf(Nat)
  <2>1. \A l \in S : l .. n \subseteq Nat /\ IsFiniteSet(l .. n)
    BY FS_Interval
  <2> QED
    BY <2>1 DEF FiniteSubsetsOf
<1>2. PICK x \in T : \A y \in T : ~(<<y, x>> \in StrictSubsetOrdering(Nat))
  <2> HIDE DEF T
  <2> QED
    BY <1>1, FS_StrictSubsetOrderingWellFounded, WFMin
<1>3. PICK l \in S : x = l .. n
  OBVIOUS
<1>4. ASSUME NEW m \in S
      PROVE  m <= l
  <2> SUFFICES ASSUME m > l
               PROVE  FALSE
    BY <1>4
  <2>1. m .. n \subseteq l .. n /\ l \in l .. n /\ l \notin m .. n
    OBVIOUS
  <2>2. <<m .. n, l .. n>> \in StrictSubsetOrdering(Nat)
    BY <2>1 DEF StrictSubsetOrdering
  <2> QED
    BY <1>2, <1>3, <2>2
<1> QED
  BY <1>4

\* The newest entry of a kind is one of that kind.
LEMMA NewestIsOne ==
  ASSUME Accounts, NEW type, NEW id, Of(type, id) # {}
  PROVE  Newest(Of(type, id)) \in Of(type, id)
<1>1. \E l \in Of(type, id) : \A m \in Of(type, id) : m <= l
  <2>1. Len(journal) \in Nat /\ Of(type, id) \subseteq 1 .. Len(journal)
    BY DEF Accounts, Money, Journalled, Of
  <2> QED
    BY <2>1, LastExists
<1> QED
  BY <1>1 DEF Newest

\* Its receipt says how long a command took.
LEMMA ReceiptTyping ==
  ASSUME Accounts, NEW id, Acknowledged(id)
  PROVE  journal[Newest(Of("receipt", id))].secs \in Nat
<1>1. Newest(Of("receipt", id)) \in Of("receipt", id)
  BY NewestIsOne DEF Acknowledged
<1> QED
  BY <1>1 DEF Accounts, Money, Journalled, Of

\* What is spent is added.
LEMMA PlusTyping ==
  ASSUME NEW l \in Spent, NEW t \in Nat, NEW s \in Nat, NEW c \in Nat
  PROVE  Plus(l, t, s, c) \in Spent /\ Covers(Plus(l, t, s, c), l)
<1>1. l.limit \in Nat /\ l.tokens + t \in Nat /\ l.seconds + s \in Nat /\ l.calls + c \in Nat
  BY DEF Spent
<1>2. Plus(l, t, s, c) \in Spent
  BY <1>1 DEF Plus, Spent
<1>3. /\ Plus(l, t, s, c).tokens = l.tokens + t
      /\ Plus(l, t, s, c).seconds = l.seconds + s
      /\ Plus(l, t, s, c).calls = l.calls + c
  BY DEF Plus, Spent
<1>4. l.tokens \in Nat /\ l.seconds \in Nat /\ l.calls \in Nat
  BY DEF Spent
<1> QED
  BY <1>2, <1>3, <1>4 DEF Covers

\* An entry is appended to the journal.
LEMMA AppendTyping ==
  ASSUME Accounts, NEW x, journal' = Append(journal, x)
  PROVE  /\ \E S : journal' \in Seq(S)
         /\ journal' # <<>> /\ Current' = x
         /\ \A n \in DOMAIN journal' : \/ n \in DOMAIN journal /\ journal'[n] = journal[n]
                                       \/ journal'[n] = x
         /\ \A n \in DOMAIN journal : n \in DOMAIN journal' /\ journal'[n] = journal[n]
         /\ Len(journal') \in DOMAIN journal' /\ journal'[Len(journal')] = x
<1>1. PICK S : journal \in Seq(S)
  BY DEF Accounts, Money, Journalled
<1>2. journal \in Seq(S \union {x}) /\ x \in S \union {x}
  BY <1>1
<1>3. journal' \in Seq(S \union {x}) /\ Len(journal') = Len(journal) + 1 /\ Len(journal) \in Nat
  BY <1>2
<1>4. /\ \A n \in 1 .. Len(journal) : journal'[n] = journal[n]
      /\ journal'[Len(journal) + 1] = x
  BY <1>2
<1>5. DOMAIN journal' = 1 .. Len(journal) + 1 /\ DOMAIN journal = 1 .. Len(journal)
  BY <1>2, <1>3
<1> QED
  BY <1>3, <1>4, <1>5 DEF Current

-----------------------------------------------------------------------------
\* What a step charges and what it saves: the ledger of a process only grows,
\* and a checkpoint has the ledger of its process.
Charges ==
  /\ ledger' \in Spent /\ (pc # "off" /\ pc' # "off" => Covers(ledger', ledger))
  /\ \/ ckpt' = ckpt
     \/ pc # "off" /\ ckpt'.ledger = (IF pc' = "off" THEN ledger ELSE ledger')

\* A ledger that stays covers itself.
LEMMA CoversItself == ASSUME NEW l \in Spent PROVE Covers(l, l)
BY DEF Spent, Covers

\* A new process has the ledger that was saved, and the cost of the action it
\* recovers.
LEMMA BeginCharges ==
  ASSUME Accounts, Start \/ Resume \/ Recover
  PROVE  Charges /\ (ckpt # None => Covers(ledger', ckpt.ledger))
<1>1. CASE Start
  BY <1>1, AgentRuntimeAssumption DEF Start, NewLedger, Charges, Accounts, Money, Journalled, Spent, records
<1>2. CASE Resume
  BY <1>2, CoversItself DEF Resume, Resumable, Restored, Charges, Accounts, Money, Journalled, records
<1>3. CASE Recover
  <2> DEFINE r == journal[Newest(Of("receipt", ckpt.state.pendingAction))]
  <2>1. r.secs \in Nat
    BY <1>3, ReceiptTyping DEF Recover
  <2>2. ckpt # None /\ ckpt.ledger \in Spent /\ pc = "off"
    BY <1>3 DEF Recover, Resumable, Accounts, Money, Journalled
  <2>3. ledger' = Plus(ckpt.ledger, 0, r.secs, 1) /\ ckpt' = ckpt
    BY <1>3 DEF Recover, RecoveryCharge, Restored
  <2> HIDE DEF r
  <2>4. ledger' \in Spent /\ Covers(ledger', ckpt.ledger)
    BY <2>1, <2>2, <2>3, PlusTyping
  <2> QED
    BY <2>2, <2>3, <2>4 DEF Charges
<1> QED
  BY <1>1, <1>2, <1>3

\* The inventory is charged with its receipt.
LEMMA InventoryCharges ==
  ASSUME Accounts, InventoryStep
  PROVE  Charges
<1>1. CASE InventoryAttached
  <2> DEFINE r == journal[Newest(Of("receipt", InventoryId))]
  <2>1. pc = "inventoryReceipt" /\ r.secs \in Nat
    BY <1>1, ReceiptTyping DEF InventoryAttached, Accounts, Money, Journalled
  <2>2. ledger \in Spent /\ ckpt' = ckpt
    BY <1>1 DEF InventoryAttached, Accounts, Money, Journalled
  <2>3. ledger' = ledger \/ ledger' = Plus(ledger, 0, r.secs, 1)
    BY <1>1 DEF InventoryAttached
  <2> HIDE DEF r
  <2> QED
    BY <2>1, <2>2, <2>3, PlusTyping, CoversItself DEF Charges
<1>2. CASE InventorySaved
  BY <1>2, CoversItself DEF InventorySaved, Checkpoint, Charges, Accounts, Money, Journalled
<1>3. CASE InventoryBlocked \/ InventoryRecovered \/ InventoryIntent
  BY <1>3, CoversItself DEF InventoryBlocked, InventoryRecovered, InventoryIntent, Charges, Accounts, Money, Journalled, records
<1> QED
  BY <1>1, <1>2, <1>3 DEF InventoryStep

\* So are the time before a step and the answers of the model.
LEMMA HeadCharges ==
  ASSUME Accounts, HeadStep \/ Answering
  PROVE  Charges
<1>0. ledger \in Spent /\ 0 \in Nat /\ TokenBound \in Nat
  BY AgentRuntimeAssumption DEF Accounts, Money, Journalled
<1>1. CASE LoopEnds \/ CancellationSeen
  BY <1>0, <1>1, CoversItself DEF LoopEnds, CancellationSeen, StepBegins, InLoop, EndWith, Charges, records
<1>2. ASSUME NEW e \in Durations, StepBlocked(e) \/ ReuseAnswer(e) \/ AskModel(e)
      PROVE  Charges
  <2> DEFINE l == Plus(ledger, 0, e, 0)
  <2>1. l \in Spent /\ Covers(l, ledger) /\ Covers(ledger, ledger)
    BY <1>0, PlusTyping, CoversItself, AgentRuntimeAssumption
  <2>2. pc = "loop" /\ (ledger' = l \/ ledger' = ledger)
    BY <1>2 DEF StepBlocked, ReuseAnswer, AskModel, StepBegins, InLoop
  <2>3. pc' \in {"final", "act", "ask"}
    BY <1>2 DEF StepBlocked, ReuseAnswer, AskModel, EndWith
  <2>4. ckpt' = ckpt \/ ckpt'.ledger = ledger'
    BY <1>2 DEF StepBlocked, ReuseAnswer, AskModel, BeforeRequest, Checkpoint, records
  <2> HIDE DEF l
  <2> QED
    BY <1>0, <2>1, <2>2, <2>3, <2>4 DEF Charges
<1>3. ASSUME NEW text, NEW t \in Usages, NEW e \in Durations, ModelAnswers(text, t, e)
      PROVE  Charges
  <2> DEFINE l == Plus(ledger, t, e, 0)
  <2>1. l \in Spent /\ Covers(l, ledger) /\ Covers(ledger, ledger)
    BY <1>0, PlusTyping, CoversItself, AgentRuntimeAssumption
  <2>2. pc = "ask" /\ pc' \in {"final", "act"}
    BY <1>3 DEF ModelAnswers, EndWith
  <2>3. (ledger' = l /\ ckpt'.ledger = l) \/ (ledger' = ledger /\ ckpt' = ckpt)
    BY <1>3 DEF ModelAnswers, Checkpoint
  <2> HIDE DEF l
  <2> QED
    BY <1>0, <2>1, <2>2, <2>3 DEF Charges
<1> QED
  BY <1>1, <1>2, <1>3 DEF HeadStep, Answering

\* An answer that runs no tool costs nothing.
LEMMA ActCharges ==
  ASSUME Accounts, ActStep
  PROVE  Charges
<1>0. ledger \in Spent /\ Covers(ledger, ledger)
  BY CoversItself DEF Accounts, Money, Journalled
<1>1. pc \in {"act", "refused", "intent"} /\ ledger' = ledger
  BY DEF ActStep, InvalidAfterTest, InvalidAnswer, DoneUnverified, DoneAccepted, ReadRefused,
         RepeatRefused, ToolBlocked, ToolIntent, RunsTool, AsksFor, RefusalSaved, IntentSaved, ActOnly
<1>2. ckpt' = ckpt \/ ckpt'.ledger = ledger'
  <2>1. \A st : Checkpoint(st, ledger).ledger = ledger
    BY DEF Checkpoint
  <2> QED
    BY <1>1, <2>1 DEF ActStep, InvalidAfterTest, InvalidAnswer, DoneUnverified, DoneAccepted, ReadRefused,
           RepeatRefused, ToolBlocked, ToolIntent, RefusalSaved, IntentSaved, ActOnly, NextStep
<1>3. pc' # "off"
  BY DEF ActStep, InvalidAfterTest, InvalidAnswer, DoneUnverified, DoneAccepted, ReadRefused,
         RepeatRefused, ToolBlocked, ToolIntent, RefusalSaved, IntentSaved, NextStep, EndWith
<1> QED
  BY <1>0, <1>1, <1>2, <1>3 DEF Charges

\* A tool is charged when it is settled.
LEMMA ToolCharges ==
  ASSUME Accounts, ToolStep
  PROVE  Charges
<1>0. ledger \in Spent /\ Covers(ledger, ledger)
  BY CoversItself DEF Accounts, Money, Journalled
<1>1. ASSUME NEW result, NEW v, NEW d, ToolRuns(result, v, d)
      PROVE  Charges
  BY <1>0, <1>1 DEF ToolRuns, Running, Charges
<1>2. ASSUME NEW e \in Durations, ToolSettled(e) \/ ToolOverran(e)
      PROVE  Charges
  <2>1. Plus(ledger, 0, e, 1) \in Spent /\ Covers(Plus(ledger, 0, e, 1), ledger)
    BY <1>0, PlusTyping, AgentRuntimeAssumption
  <2>2. /\ pc = "receipt" /\ ckpt' = ckpt
        /\ ledger' = ledger \/ ledger' = Plus(ledger, 0, e, 1)
    BY <1>2 DEF ToolSettled, ToolOverran, records
  <2> QED
    BY <1>0, <2>1, <2>2 DEF Charges
<1>3. CASE SettlementSaved
  <2>1. \A st : Checkpoint(st, ledger).ledger = ledger
    BY DEF Checkpoint
  <2> QED
    BY <1>0, <1>3, <2>1 DEF SettlementSaved, NextStep, ActOnly, Charges
<1> QED
  BY <1>1, <1>2, <1>3 DEF ToolStep

\* Every step charges what it spends and saves what it has charged.
LEMMA StepCharges ==
  ASSUME Accounts, Runtime \/ Raise \/ Crash
  PROVE  Charges
<1>0. ledger \in Spent /\ Covers(ledger, ledger)
  BY CoversItself DEF Accounts, Money, Journalled
<1>1. CASE FirstCheckpoint \/ RecordPrompt
  BY <1>0, <1>1 DEF FirstCheckpoint, RecordPrompt, Checkpoint, Charges
<1>2. CASE FinalCheckpoint \/ SaveSummary
  BY <1>0, <1>2 DEF FinalCheckpoint, SaveSummary, Gone, NewLedger, Spent, Checkpoint, Charges
<1>3. CASE Raise \/ Crash
  BY <1>0, <1>3 DEF Raise, Crash, Gone, NewLedger, Spent, Charges, records
<1> QED
  BY <1>1, <1>2, <1>3, InventoryCharges, HeadCharges, ActCharges, ToolCharges DEF Runtime

\* What covers a ledger covers what that one covers.
LEMMA CoversTransitive ==
  ASSUME NEW l \in Spent, NEW k \in Spent, NEW j \in Spent, Covers(l, k), Covers(k, j)
  PROVE  Covers(l, j)
BY DEF Spent, Covers

\* Only a new process counts as a start, and every other step is of a process.
LEMMA StartsAreCounted ==
  ASSUME Runtime \/ Raise \/ Crash
  PROVE  pc # "off" /\ starts' = starts
<1>1. CASE FirstCheckpoint \/ RecordPrompt \/ FinalCheckpoint \/ SaveSummary \/ Raise \/ Crash
  BY <1>1 DEF FirstCheckpoint, RecordPrompt, FinalCheckpoint, SaveSummary, Raise, Crash
<1>2. CASE InventoryStep
  BY <1>2 DEF InventoryStep, InventoryBlocked, InventoryRecovered, InventoryIntent, InventoryAttached,
              InventorySaved
<1>3. CASE HeadStep \/ Answering
  BY <1>3 DEF HeadStep, Answering, LoopEnds, CancellationSeen, StepBlocked, ReuseAnswer, AskModel,
              ModelAnswers, StepBegins, InLoop
<1>4. CASE ActStep
  BY <1>4 DEF ActStep, InvalidAfterTest, InvalidAnswer, DoneUnverified, DoneAccepted, ReadRefused,
              RepeatRefused, ToolBlocked, ToolIntent, RefusalSaved, IntentSaved, ActOnly, AsksFor, RunsTool
<1>5. CASE ToolStep
  BY <1>5 DEF ToolStep, ToolRuns, Running, ToolSettled, ToolOverran, SettlementSaved, ActOnly
<1> QED
  BY <1>1, <1>2, <1>3, <1>4, <1>5 DEF Runtime

\* The ledgers stay in order.
LEMMA MoneyStep ==
  ASSUME Accounts, Next
  PROVE  Money'
<1>1. CASE Start \/ Resume \/ Recover
  <2>1. Charges /\ (ckpt # None => Covers(ledger', ckpt.ledger))
    BY <1>1, BeginCharges
  <2>2. /\ starts' \in Nat \ {0} /\ pc = "off" /\ ckpt' = ckpt
    BY <1>1 DEF Start, Resume, Recover, Resumable, records, Accounts, Money
  <2> QED
    BY <2>1, <2>2 DEF Accounts, Money, Charges
<1>2. CASE Runtime \/ Raise \/ Crash
  <2>1. Charges /\ pc # "off" /\ starts' = starts
    BY <1>2, StepCharges, StartsAreCounted
  <2>2. starts' \in Nat /\ starts' # 0 /\ ledger \in Spent /\ ledger' \in Spent
    BY <2>1 DEF Accounts, Money, Charges
  <2>3. CASE ckpt' = ckpt
    BY <2>1, <2>2, <2>3, CoversTransitive DEF Accounts, Money, Charges
  <2>4. CASE ckpt' # ckpt
    BY <2>1, <2>2, <2>4, CoversItself DEF Money, Charges
  <2> QED
    BY <2>3, <2>4
<1> QED
  BY <1>1, <1>2 DEF Next

\* The journal stays in order.
LEMMA JournalStep ==
  ASSUME Accounts, Next
  PROVE  Journalled'
<1>1. ASSUME journal' = journal, pc' \notin {"inventoryRuns", "inventoryReceipt"}
      PROVE  Journalled'
  BY <1>1 DEF Accounts, Journalled
<1>2. CASE InventoryIntent
  <2> DEFINE x == Intent(InventoryId, Inventory, ws)
  <2>1. journal' = Append(journal, x) /\ pc' = "inventoryRuns" /\ x.type = "intent" /\ x.id = InventoryId
    BY <1>2 DEF InventoryIntent, Intent
  <2> HIDE DEF x
  <2> QED
    BY <2>1, AppendTyping DEF Accounts, Journalled, InventoryId
<1>3. ASSUME NEW c \in Commands, ToolIntent(c)
      PROVE  Journalled'
  <2> DEFINE x == Intent(mem.step, c, ws)
  <2>1. journal' = Append(journal, x) /\ pc' = "intent" /\ x.type = "intent"
    BY <1>3 DEF ToolIntent, Intent
  <2> HIDE DEF x
  <2> QED
    BY <2>1, AppendTyping DEF Accounts, Journalled
<1>4. ASSUME NEW result, NEW v, NEW d \in Durations, ToolRuns(result, v, d)
      PROVE  Journalled'
  <2> DEFINE x == Receipt(Current.id, Current.cmd, v, result, d)
  <2>1. /\ journal' = Append(journal, x) /\ x.type = "receipt" /\ x.id = Current.id /\ x.secs \in Nat
        /\ pc' \in {"receipt", "inventoryReceipt"}
        /\ pc' = "inventoryReceipt" => pc = "inventoryRuns"
    BY <1>4, AgentRuntimeAssumption DEF ToolRuns, Receipt, Running
  <2> HIDE DEF x
  <2>2. pc' = "inventoryReceipt" => x.id = InventoryId
    BY <2>1 DEF Accounts, Journalled
  <2>3. pc' = "inventoryReceipt" => Acknowledged(InventoryId)'
    BY <2>1, <2>2, AppendTyping DEF Acknowledged, Of, InventoryId
  <2> QED
    BY <2>1, <2>3, AppendTyping DEF Accounts, Journalled
<1>5. CASE InventoryRecovered
  BY <1>5 DEF InventoryRecovered, InventoryKnown, records, Accounts, Journalled, Acknowledged, Of
<1>6. CASE Start \/ Resume \/ Recover \/ Raise \/ Crash
  BY <1>1, <1>6 DEF Start, Resume, Recover, Raise, Crash, Gone, records
<1>7. CASE FirstCheckpoint \/ RecordPrompt \/ FinalCheckpoint \/ SaveSummary
  BY <1>1, <1>7 DEF FirstCheckpoint, RecordPrompt, FinalCheckpoint, SaveSummary, Gone
<1>8. CASE InventoryBlocked \/ InventoryAttached \/ InventorySaved
  BY <1>1, <1>8 DEF InventoryBlocked, InventoryAttached, InventorySaved, EndWith, records
<1>9. CASE HeadStep \/ Answering
  BY <1>1, <1>9 DEF HeadStep, Answering, LoopEnds, CancellationSeen, StepBlocked, ReuseAnswer, AskModel,
                    ModelAnswers, EndWith, records
<1>10. CASE InvalidAfterTest \/ InvalidAnswer \/ DoneUnverified \/ DoneAccepted \/ RefusalSaved \/ IntentSaved
  BY <1>1, <1>10 DEF InvalidAfterTest, InvalidAnswer, DoneUnverified, DoneAccepted, RefusalSaved,
                     IntentSaved, EndWith, NextStep, ActOnly
<1>11. ASSUME NEW c \in Commands, ReadRefused(c) \/ RepeatRefused(c) \/ ToolBlocked(c)
       PROVE  Journalled'
  BY <1>1, <1>11 DEF ReadRefused, RepeatRefused, ToolBlocked, EndWith, NextStep, ActOnly
<1>12. ASSUME NEW e \in Durations, ToolSettled(e) \/ ToolOverran(e)
       PROVE  Journalled'
  BY <1>1, <1>12 DEF ToolSettled, ToolOverran, EndWith, records
<1>13. CASE SettlementSaved
  BY <1>1, <1>13 DEF SettlementSaved, NextStep, ActOnly
<1> QED
  BY <1>2, <1>3, <1>4, <1>5, <1>6, <1>7, <1>8, <1>9, <1>10, <1>11, <1>12, <1>13
     DEF Next, Runtime, InventoryStep, ActStep, ToolStep

\* The accounts of a run are in order in every state.
LEMMA AccountsStep ==
  ASSUME Accounts, [Next]_vars
  PROVE  Accounts'
<1>1. CASE UNCHANGED vars
  BY <1>1 DEF vars, process, records, Accounts, Money, Journalled, Current, Acknowledged, Of
<1> QED
  BY <1>1, MoneyStep, JournalStep DEF Accounts

\* Nothing is spent, saved or recorded at first.
LEMMA AccountsInit ==
  ASSUME Init
  PROVE  Accounts
BY DEF Init, Accounts, Money, Journalled, Spent, NewLedger

\* No checkpoint ever records less than the one it replaces: what was spent
\* before a crash, a recovery or a retry stays spent.
THEOREM SpendingIsMonotonic == Spec => SpendingNeverShrinks
<1>1. ASSUME Accounts, Next, ckpt # None
      PROVE  Covers(ckpt'.ledger, ckpt.ledger)
  <2>1. Charges
    BY <1>1, BeginCharges, StepCharges DEF Next
  <2>2. CASE ckpt' = ckpt
    BY <1>1, <2>2, CoversItself DEF Accounts, Money
  <2>3. CASE pc # "off" /\ ckpt'.ledger = (IF pc' = "off" THEN ledger ELSE ledger')
    BY <1>1, <2>1, <2>3, CoversTransitive DEF Accounts, Money, Charges
  <2> QED
    BY <2>1, <2>2, <2>3 DEF Charges
<1>2. ASSUME Accounts, [Next]_vars
      PROVE  [ckpt # None => /\ ckpt'.ledger.tokens >= ckpt.ledger.tokens
                             /\ ckpt'.ledger.seconds >= ckpt.ledger.seconds
                             /\ ckpt'.ledger.calls >= ckpt.ledger.calls]_vars
  BY <1>1, <1>2 DEF Covers
<1> QED
  BY <1>2, AccountsInit, AccountsStep, PTL DEF Spec, SpendingNeverShrinks

-----------------------------------------------------------------------------
\* A request is unanswered only while the process waits for the answer or
\* ends, or when the saved state says so and no later process may resume.
Asking ==
  /\ StateLike(mem) /\ (ckpt # None => StateLike(ckpt.state))
  /\ hist = [asked |-> hist.asked, answered |-> hist.answered, overran |-> hist.overran]
  /\ hist.asked \in Nat /\ hist.answered \in Nat
  /\ starts \in Nat /\ (starts = 0 => pc = "off" /\ hist.asked = hist.answered)
  /\ pc = "ask" => hist.asked # hist.answered
  /\ hist.asked # hist.answered =>
       /\ hist.asked = hist.answered + 1
       /\ ckpt # None => ckpt.state.pendingModel = TRUE
       /\ pc \in {"off", "ask", "final", "summary"}
       /\ pc \in {"ask", "final"} => mem.pendingModel = TRUE

\* Where a process is that has the answers to all its requests.
Informed == pc \notin {"off", "ask", "final", "summary"}

\* What such a step does: it asks nothing and keeps the form of the state.
Quiet ==
  /\ hist'.asked = hist.asked /\ hist'.answered = hist.answered
  /\ hist' = [asked |-> hist'.asked, answered |-> hist'.answered, overran |-> hist'.overran]
  /\ StateLike(mem')
  /\ ckpt' = ckpt \/ StateLike(ckpt'.state)
  /\ starts' = starts /\ pc' # "ask"

\* The form of the state outlives every change of a field.
LEMMA StateForms ==
  ASSUME NEW s, StateLike(s), NEW c, NEW r, NEW v
  PROVE  /\ \A x : StateLike([s EXCEPT !.status = x]) /\ StateLike([s EXCEPT !.step = x])
         /\ StateLike(Consumed(s)) /\ StateLike(Counted(s, c, r, v))
         /\ \A x : StateLike([s EXCEPT !.pendingAction = x])
<1>1. \A x : StateLike([s EXCEPT !.status = x])
  BY DEF StateLike, Fields
<1>2. \A x : StateLike([s EXCEPT !.step = x])
  BY DEF StateLike, Fields
<1>3. \A x : StateLike([s EXCEPT !.pendingAction = x])
  BY DEF StateLike, Fields
<1>4. StateLike(Consumed(s))
  BY DEF StateLike, Fields, Consumed
<1>5. StateLike(Navigated(s, c, r, v))
  <2>1. \A x, y : StateLike([s EXCEPT !.reads = x, !.warned = y])
    BY DEF StateLike, Fields
  <2> QED
    BY <2>1 DEF Navigated
<1>6. \A k, x, y : StateLike(k) => StateLike([k EXCEPT !.failedEdits = x, !.streak = y])
  BY ZenonT(60) DEF StateLike, Fields
<1>7. StateLike(Counted(s, c, r, v))
  BY <1>5, <1>6 DEF Counted
<1> QED
  BY <1>1, <1>2, <1>3, <1>4, <1>7

\* The inventory is quiet.
LEMMA InventoryIsQuiet ==
  ASSUME Asking, InventoryStep
  PROVE  Quiet /\ Informed
<1>0. StateLike(mem) /\ \A x : StateLike([mem EXCEPT !.status = x])
  BY StateForms DEF Asking
<1>1. CASE InventoryBlocked \/ InventoryRecovered \/ InventoryIntent
  BY <1>0, <1>1 DEF InventoryBlocked, InventoryRecovered, InventoryIntent, EndWith, records, Asking, Quiet, Informed
<1>2. CASE InventoryAttached
  <2>1. \/ mem' = [mem EXCEPT !.status = "blocked"]
        \/ \E x : mem' = [mem EXCEPT !.inventoried = TRUE, !.status = x]
    BY <1>2 DEF InventoryAttached, EndWith
  <2>2. StateLike(mem')
    BY <1>0, <2>1 DEF StateLike, Fields
  <2>3. hist' = hist /\ ckpt' = ckpt /\ starts' = starts /\ pc = "inventoryReceipt" /\ pc' \in {"final", "inventorySaves"}
    BY <1>2 DEF InventoryAttached, EndWith
  <2> QED
    BY <2>2, <2>3 DEF Asking, Quiet, Informed
<1>3. CASE InventorySaved
  BY <1>0, <1>3 DEF InventorySaved, Asking, Quiet, Informed, Checkpoint
<1> QED
  BY <1>1, <1>2, <1>3 DEF InventoryStep

\* So is acting on an answer.
LEMMA ActingIsQuiet ==
  ASSUME Asking, ActStep
  PROVE  Quiet /\ Informed
<1>0. /\ StateLike(mem)
      /\ hist = [asked |-> hist.asked, answered |-> hist.answered, overran |-> hist.overran]
  BY DEF Asking
<1>1. /\ pc \in {"act", "refused", "intent"} /\ hist' = hist /\ starts' = starts
      /\ pc' \in {"final", "loop", "refused", "intent", "toolRuns"}
  BY DEF ActStep, InvalidAfterTest, InvalidAnswer, DoneUnverified, DoneAccepted, ReadRefused,
         RepeatRefused, ToolBlocked, ToolIntent, RunsTool, AsksFor, RefusalSaved, IntentSaved, ActOnly,
         NextStep, EndWith
<1>2. ckpt' = ckpt \/ ckpt'.state = mem'
  <2>1. \A st : Checkpoint(st, ledger).state = st
    BY DEF Checkpoint
  <2> QED
    BY <2>1 DEF ActStep, InvalidAfterTest, InvalidAnswer, DoneUnverified, DoneAccepted, ReadRefused,
           RepeatRefused, ToolBlocked, ToolIntent, RefusalSaved, IntentSaved, ActOnly, NextStep, EndWith
<1>3. StateLike(mem')
  <2>1. StateLike(Consumed(mem)) /\ \A s, x : StateLike(s) => StateLike([s EXCEPT !.status = x])
    BY <1>0, StateForms
  <2>2. CASE InvalidAfterTest \/ InvalidAnswer
    <3>1. ASSUME NEW x
          PROVE  StateLike([Consumed(mem) EXCEPT !.streak = x])
      BY <2>1 DEF StateLike, Fields
    <3> DEFINE s == [Consumed(mem) EXCEPT !.streak = @ + 1]
    <3>2. StateLike(s)
      BY <3>1
    <3>3. \/ mem' = s \/ mem' = [s EXCEPT !.status = "failed"]
          \/ mem' = [mem EXCEPT !.status = "completed"]
      BY <2>2 DEF InvalidAfterTest, InvalidAnswer, EndWith, NextStep
    <3> HIDE DEF s
    <3> QED
      BY <1>0, <2>1, <3>2, <3>3
  <2>3. CASE DoneUnverified \/ DoneAccepted
    <3>1. ASSUME NEW x
          PROVE  StateLike([mem EXCEPT !.unverified = x])
      BY <1>0 DEF StateLike, Fields
    <3> DEFINE s == [mem EXCEPT !.unverified = @ + 1]
    <3>2. StateLike(s)
      BY <3>1
    <3>3. \/ mem' = Consumed(s) \/ mem' = [s EXCEPT !.status = "failed"]
          \/ mem' = [Consumed(mem) EXCEPT !.status = "completed"]
      BY <2>3 DEF DoneUnverified, DoneAccepted, EndWith, NextStep
    <3> HIDE DEF s
    <3> QED
      BY <2>1, <3>2, <3>3, StateForms
  <2>4. ASSUME NEW c, ReadRefused(c)
        PROVE  StateLike(mem')
    <3>1. ASSUME NEW x
          PROVE  StateLike([Consumed(mem) EXCEPT !.warned = x])
      BY <2>1 DEF StateLike, Fields
    <3>2. \/ mem' = [Consumed(mem) EXCEPT !.status = "failed"]
          \/ \E x : mem' = [Consumed(mem) EXCEPT !.warned = x]
      BY <2>4 DEF ReadRefused, EndWith, NextStep
    <3> QED
      BY <2>1, <3>1, <3>2
  <2>5. ASSUME NEW c, RepeatRefused(c) \/ ToolBlocked(c) \/ ToolIntent(c)
        PROVE  StateLike(mem')
    <3>1. \/ \E x : mem' = [Consumed(mem) EXCEPT !.status = x]
          \/ \E x : mem' = [mem EXCEPT !.status = x]
          \/ \E x : mem' = [mem EXCEPT !.pendingAction = x]
      BY <2>5 DEF RepeatRefused, ToolBlocked, ToolIntent, EndWith
    <3>2. \A x : StateLike([mem EXCEPT !.pendingAction = x])
      BY <1>0, StateForms
    <3> QED
      BY <1>0, <2>1, <3>1, <3>2
  <2>6. CASE RefusalSaved \/ IntentSaved
    BY <1>0, <2>6 DEF RefusalSaved, IntentSaved
  <2> QED
    BY <2>2, <2>3, <2>4, <2>5, <2>6 DEF ActStep
<1> QED
  BY <1>0, <1>1, <1>2, <1>3 DEF Quiet, Informed

\* And so is running a tool.
LEMMA ToolsAreQuiet ==
  ASSUME Asking, ToolStep
  PROVE  Quiet /\ Informed
<1>0. /\ StateLike(mem)
      /\ hist = [asked |-> hist.asked, answered |-> hist.answered, overran |-> hist.overran]
  BY DEF Asking
<1>1. ASSUME NEW result, NEW v, NEW d, ToolRuns(result, v, d)
      PROVE  Quiet /\ Informed
  BY <1>0, <1>1 DEF ToolRuns, Running, Quiet, Informed
<1>2. ASSUME NEW e \in Durations, ToolSettled(e)
      PROVE  Quiet /\ Informed
  <2>1. \A c, r, v : StateLike(Counted(Consumed(mem), c, r, v))
    <3>1. StateLike(Consumed(mem))
      BY <1>0, StateForms
    <3> QED
      BY <3>1, StateForms
  <2> DEFINE i == journal[Newest(Of("intent", mem.step))]
             tested == IF PassingTest(i, Current) THEN Patch(i.version) ELSE mem.tested
             again == IF SignatureOf(i) = mem.previous THEN mem.repeated + 1 ELSE 0
             counted == Counted(Consumed(mem), i.cmd, Current, i.version)
             s == [counted EXCEPT !.pendingAction = NoAction, !.tested = tested,
                                  !.previous = SignatureOf(i), !.repeated = again]
  <2>2. mem' = [s EXCEPT !.status = IF Current.result = "cancelled" THEN "cancelled"
                                    ELSE IF EditsExhausted(s) \/ again >= 2 THEN "failed" ELSE @]
    BY <1>2 DEF ToolSettled
  <2>3. StateLike(mem')
    <3>1. StateLike(counted)
      BY <2>1
    <3> HIDE DEF i, tested, again, counted
    <3>2. StateLike(s)
      BY <3>1 DEF StateLike, Fields
    <3> HIDE DEF s
    <3> QED
      BY <2>2, <3>2, StateForms
  <2>4. hist' = hist /\ ckpt' = ckpt /\ starts' = starts /\ pc = "receipt" /\ pc' = "settled"
    BY <1>2 DEF ToolSettled
  <2> QED
    BY <1>0, <2>3, <2>4 DEF Quiet, Informed
<1>3. ASSUME NEW e \in Durations, ToolOverran(e)
      PROVE  Quiet /\ Informed
  <2>1. \A x : StateLike([mem EXCEPT !.status = x])
    BY <1>0 DEF StateLike, Fields
  <2>2. \A x : [hist EXCEPT !.overran = x] = [asked |-> hist.asked, answered |-> hist.answered, overran |-> x]
    BY <1>0
  <2> QED
    BY <1>3, <2>1, <2>2 DEF ToolOverran, EndWith, records, Quiet, Informed
<1>4. CASE SettlementSaved
  BY <1>0, <1>4 DEF SettlementSaved, NextStep, ActOnly, Checkpoint, Quiet, Informed
<1> QED
  BY <1>1, <1>2, <1>3, <1>4 DEF ToolStep

\* The head of the loop is quiet too, unless it asks the model.
LEMMA HeadIsQuiet ==
  ASSUME Asking, HeadStep, \A e \in Durations : ~AskModel(e)
  PROVE  Quiet /\ Informed
<1>0. /\ StateLike(mem)
      /\ hist = [asked |-> hist.asked, answered |-> hist.answered, overran |-> hist.overran]
  BY DEF Asking
<1>1. StateLike(Entering) /\ (\A x : StateLike([mem EXCEPT !.status = x]))
  BY <1>0, StateForms DEF Entering
<1>2. \A x : StateLike([Entering EXCEPT !.status = x])
  BY <1>1, StateForms
<1>3. StateLike(mem') /\ pc = "loop" /\ pc' \in {"final", "act"}
  BY <1>1, <1>2 DEF HeadStep, LoopEnds, CancellationSeen, StepBlocked, ReuseAnswer, StepBegins, InLoop, EndWith
<1>4. hist' = hist /\ ckpt' = ckpt /\ starts' = starts
  BY DEF HeadStep, LoopEnds, CancellationSeen, StepBlocked, ReuseAnswer, records
<1> QED
  BY <1>0, <1>3, <1>4 DEF Quiet, Informed

\* What is known of the requests is kept by every step.
LEMMA AskingStep ==
  ASSUME Asking, [Next]_vars
  PROVE  Asking' /\ [hist'.asked # hist.asked => hist.asked = hist.answered]_vars
<1> DEFINE Goal == Asking' /\ [hist'.asked # hist.asked => hist.asked = hist.answered]_vars
<1>0. /\ StateLike(mem)
      /\ hist = [asked |-> hist.asked, answered |-> hist.answered, overran |-> hist.overran]
  BY DEF Asking
<1>1. ASSUME Quiet, Informed
      PROVE  Goal
  BY <1>1 DEF Asking, Quiet, Informed
<1>2. ASSUME FirstCheckpoint \/ RecordPrompt
      PROVE  Goal
  BY <1>0, <1>1, <1>2 DEF FirstCheckpoint, RecordPrompt, Checkpoint, Quiet, Informed
<1>3. ASSUME NEW e \in Durations, AskModel(e)
      PROVE  Goal
  <2>1. /\ pc = "loop" /\ pc' = "ask" /\ starts' = starts
        /\ hist' = [hist EXCEPT !.asked = @ + 1]
        /\ mem' = [Entering EXCEPT !.pendingModel = TRUE] /\ ckpt'.state = mem'
    BY <1>3 DEF AskModel, StepBegins, InLoop, BeforeRequest, Checkpoint
  <2>2. hist.asked = hist.answered
    BY <2>1 DEF Asking
  <2>3. StateLike(mem') /\ mem'.pendingModel = TRUE
    <3>1. StateLike(Entering)
      BY <1>0, StateForms DEF Entering
    <3>2. \A s : StateLike(s) => LET t == [s EXCEPT !.pendingModel = TRUE]
                                 IN  StateLike(t) /\ t.pendingModel = TRUE
      BY DEF StateLike, Fields
    <3> QED
      BY <2>1, <3>1, <3>2
  <2>4. hist' = [asked |-> hist.asked + 1, answered |-> hist.answered, overran |-> hist.overran]
    BY <1>0, <2>1
  <2> QED
    BY <2>1, <2>2, <2>3, <2>4 DEF Asking
<1>4. ASSUME NEW text, NEW t, NEW e, ModelAnswers(text, t, e)
      PROVE  Goal
  <2>1. pc = "ask" /\ hist.asked = hist.answered + 1 /\ starts' = starts /\ mem.pendingModel = TRUE
    BY <1>4 DEF ModelAnswers, Asking
  <2>2. CASE hist' = hist /\ ckpt' = ckpt /\ pc' = "final" /\ mem' = [mem EXCEPT !.status = "blocked"]
    <3>1. StateLike(mem') /\ mem'.pendingModel = TRUE
      BY <1>0, <2>1, <2>2 DEF StateLike, Fields
    <3> QED
      BY <2>1, <2>2, <3>1 DEF Asking
  <2>3. CASE /\ hist' = [hist EXCEPT !.answered = @ + 1] /\ pc' = "act"
             /\ mem' = Answered(mem, text) /\ ckpt'.state = mem'
    <3>1. StateLike(mem')
      BY <1>0, <2>3 DEF StateLike, Fields, Answered
    <3>2. hist' = [asked |-> hist.asked, answered |-> hist.answered + 1, overran |-> hist.overran]
      BY <1>0, <2>3
    <3> QED
      BY <2>1, <2>3, <3>1, <3>2 DEF Asking
  <2> QED
    BY <1>4, <2>2, <2>3 DEF ModelAnswers, EndWith, Checkpoint
<1>5. ASSUME FinalCheckpoint
      PROVE  Goal
  <2>1. /\ pc = "final" /\ pc' = "summary" /\ hist' = hist /\ starts' = starts
        /\ mem' = [mem EXCEPT !.pendingAction = NoAction] /\ ckpt'.state = mem'
    BY <1>5 DEF FinalCheckpoint, Checkpoint
  <2>2. StateLike(mem') /\ (mem.pendingModel = TRUE => mem'.pendingModel = TRUE)
    BY <1>0, <2>1 DEF StateLike, Fields
  <2> QED
    BY <2>1, <2>2 DEF Asking
<1>6. ASSUME SaveSummary \/ Crash
      PROVE  Goal
  <2>1. /\ pc # "off" /\ pc' = "off" /\ hist' = hist /\ starts' = starts
        /\ mem' = NewState /\ ckpt' = ckpt
    BY <1>6 DEF SaveSummary, Crash, Gone, records
  <2>2. StateLike(mem')
    BY <2>1 DEF StateLike, Fields, NewState
  <2> QED
    BY <2>1, <2>2 DEF Asking
<1>7. ASSUME Raise
      PROVE  Goal
  <2>1. /\ pc \notin {"off", "final", "summary"} /\ pc' = "off" /\ hist' = hist /\ starts' = starts
        /\ mem' = NewState /\ ckpt'.state = [mem EXCEPT !.status = "interrupted"]
    BY <1>7 DEF Raise, Gone
  <2>2. StateLike(mem') /\ StateLike(ckpt'.state) /\ (mem.pendingModel = TRUE => ckpt'.state.pendingModel = TRUE)
    BY <1>0, <2>1 DEF StateLike, Fields, NewState
  <2> QED
    BY <2>1, <2>2 DEF Asking
<1>8. ASSUME Start \/ Resume \/ Recover
      PROVE  Goal
  <2>1. pc = "off" /\ pc' = "first" /\ hist' = hist /\ ckpt' = ckpt /\ starts' \in Nat \ {0}
    BY <1>8 DEF Start, Resume, Recover, Resumable, records, Asking
  <2>2. hist.asked = hist.answered
    BY <1>8 DEF Start, Resume, Recover, Resumable, Asking
  <2>3. StateLike(mem')
    <3>1. CASE Start
      BY <1>0, <3>1 DEF Start
    <3>2. CASE Resume \/ Recover
      <4>1. StateLike(ckpt.state)
        BY <3>2 DEF Resume, Recover, Resumable, Asking
      <4>2. \A c, r, v : StateLike(AfterRecovery(Counted(ckpt.state, c, r, v)))
        <5>1. \A c, r, v : StateLike(Consumed(Counted(ckpt.state, c, r, v)))
          BY <4>1, StateForms
        <5>2. \A s : StateLike(s) => \A a, b : StateLike([s EXCEPT !.pendingAction = a, !.tested = b])
          BY ZenonT(60) DEF StateLike, Fields
        <5> QED
          BY <5>1, <5>2 DEF AfterRecovery
      <4>3. \A s : StateLike(s) => StateLike([s EXCEPT !.status = "running"])
        BY DEF StateLike, Fields
      <4> QED
        BY <3>2, <4>1, <4>2, <4>3 DEF Resume, Recover
    <3> QED
      BY <1>8, <3>1, <3>2
  <2> QED
    BY <2>1, <2>2, <2>3 DEF Asking
<1>9. ASSUME UNCHANGED vars
      PROVE  Goal
  BY <1>9 DEF vars, process, records, Asking
<1> HIDE DEF Goal
<1>10. ASSUME InventoryStep \/ ActStep \/ ToolStep
       PROVE  Goal
  BY <1>1, <1>10, InventoryIsQuiet, ActingIsQuiet, ToolsAreQuiet
<1>11. ASSUME HeadStep
       PROVE  Goal
  BY <1>1, <1>3, <1>11, HeadIsQuiet
<1>12. ASSUME Answering
       PROVE  Goal
  BY <1>4, <1>12 DEF Answering
<1>13. Goal
  BY <1>2, <1>5, <1>6, <1>7, <1>8, <1>9, <1>10, <1>11, <1>12 DEF Next, Runtime
<1> QED
  BY <1>13 DEF Goal

\* A request goes out only when the answer to every earlier one is saved.
THEOREM RequestsAreNeverRepeatedBlindly == Spec => RequestsAreAcknowledged
<1>1. StateLike(NewState)
  BY DEF NewState, StateLike, Fields
<1>2. Init => Asking
  BY <1>1 DEF Init, Asking
<1> QED
  BY <1>2, AskingStep, PTL DEF Spec, RequestsAreAcknowledged

-----------------------------------------------------------------------------
(* What a run knows of its actions: outcomes, signatures, charges, patches. *)

\* The receipts of a journal.
Answers(j) == {n \in DOMAIN j : j[n].type = "receipt"}

Commanded(j, n) == Signature(j[n].cmd, j[n].version)

\* A journal in order: every intent is followed by its own receipt, the last
\* one may still lack it; no action and no signature comes twice.
Paired(j) ==
  /\ \A n \in DOMAIN j : n \in Answers(j) <=> n % 2 = 0
  /\ \A n \in Answers(j) : j[n].id = j[n - 1].id /\ j[n].cmd = j[n - 1].cmd

Named(j) ==
  \A n \in DOMAIN j : /\ j[n].type \in {"intent", "receipt"}
                      /\ \/ j[n].id = InventoryId /\ j[n].cmd = Inventory /\ WithInventory
                         \/ j[n].id \in Steps /\ j[n].cmd \in Commands

Once(j) == \A m, n \in DOMAIN j \ Answers(j) : j[m].id = j[n].id => m = n

Fresh(j) == \A m, n \in DOMAIN j \ Answers(j) : Commanded(j, m) = Commanded(j, n) => m = n

Orderly(j) == (\E S : j \in Seq(S)) /\ Paired(j) /\ Named(j) /\ Once(j) /\ Fresh(j)

\* What a state s knows of a journal: its steps are over or it names the one
\* that is not.
Known(j, s, n) == j[n].id < s.nextStep \/ j[n].id \in {InventoryId, s.pendingAction}

Numbered(j, s) == \A n \in DOMAIN j : Known(j, s, n)

NumberedButLast(j, s) == \A n \in DOMAIN j : Known(j, s, n) \/ (n = Len(j) /\ n % 2 = 1)

Remembered(j, s, seen) ==
  \A n \in DOMAIN j \ Answers(j) : j[n].id \in {InventoryId, s.pendingAction} \/ Commanded(j, n) \in seen

\* The receipts it has not charged, of which there is at most the last entry.
Owed(j, s) ==
  {n \in Answers(j) : j[n].id = s.pendingAction \/ (j[n].id = InventoryId /\ ~s.inventoried)}

Balanced(j, s, l) ==
  l.calls + Cardinality(Owed(j, s)) = Cardinality(Answers(j)) /\ Owed(j, s) \subseteq {Len(j)}

\* The patch it calls tested has passed a test.
PassedIn(j, d) ==
  \E n \in Answers(j) : /\ j[n].cmd \in Tests /\ Succeeded(j[n])
                        /\ Patch(j[n].version) = d /\ Patch(j[n - 1].version) = d

Proven(j, t) == t # None => t # NoPatch /\ PassedIn(j, t)

\* Where a step has asked for a tool, and where a receipt is missing.
AtWork  == {"intent", "toolRuns", "receipt"}
Waiting == {"intent", "toolRuns", "inventoryRuns"}
Looking == {"inventory", "inventoryRuns", "inventoryReceipt"}
Looping == {"prompt", "loop", "ask", "act", "refused"}

\* A live process.
Placed ==
  /\ Len(journal) % 2 = IF pc \in Waiting THEN 1 ELSE 0
  /\ mem.step \in Nat /\ mem.nextStep \in Nat
  /\ mem.pendingAction = IF pc \in AtWork THEN mem.step ELSE NoAction
  /\ pc \in {"ask", "act"} \cup AtWork => mem.nextStep = mem.step /\ mem.step \in Steps
  /\ pc \in AtWork => journal # <<>> /\ Current.id = mem.step
  /\ pc = "inventoryRuns" => journal # <<>> /\ Current.id = InventoryId /\ ~mem.inventoried
  /\ pc \in Looking \cup {"inventorySaves"} => WithInventory
  /\ pc \in Looping \cup AtWork \cup {"settled", "inventorySaves"} /\ WithInventory => mem.inventoried

Certain ==
  /\ pc # "receipt" /\ loc.visible => mem.tested # None /\ mem.tested = Patch(ws)
  /\ pc \notin {"final", "summary"} => mem.status # "completed"
  /\ mem.status = "completed" /\ RequireTest /\ Patched => loc.visible

Alive ==
  pc # "off" =>
    /\ Placed /\ Certain
    /\ Numbered(journal, mem) /\ Remembered(journal, mem, loc.seen)
    /\ Balanced(journal, mem, ledger) /\ Proven(journal, mem.tested)

\* The checkpoint.
Sound(j, s) ==
  /\ s.step \in Nat /\ s.nextStep \in Nat
  /\ s.pendingAction # NoAction => s.pendingAction = s.step /\ s.nextStep = s.step /\ s.step \in Steps
  /\ NumberedButLast(j, s) /\ Proven(j, s.tested)

Synced ==
  /\ pc \in Looking \cup {"toolRuns", "receipt"} => ckpt.state = mem
  /\ pc \in Looping \cup {"intent"} =>
       /\ ckpt.state.pendingAction = NoAction
       /\ (WithInventory => ckpt.state.inventoried)

Saved ==
  /\ ckpt # None => Sound(journal, ckpt.state) /\ Balanced(journal, ckpt.state, ckpt.ledger)
  /\ Synced

\* The summary.
Told ==
  summary # None =>
    /\ (summary.visible => summary.diff # NoPatch /\ PassedIn(journal, summary.diff))
    /\ (RequireTest /\ summary.status = "completed" /\ summary.diff # NoPatch => summary.visible)

Begun ==
  /\ starts = 0 => pc = "off" /\ ckpt = None /\ journal = <<>>
  /\ pc = "off" => mem = NewState /\ loc = NoLocals
  /\ DOMAIN loc = {"seen", "refused", "visible"}

Honest == Orderly(journal) /\ Begun /\ Alive /\ Saved /\ Told

Record == ~hist.overran => Honest

-----------------------------------------------------------------------------
\* k is j with one more entry.
Extends(k, j, x) ==
  /\ Len(j) \in Nat /\ Len(k) = Len(j) + 1
  /\ DOMAIN j = 1 .. Len(j) /\ DOMAIN k = 1 .. Len(j) + 1
  /\ \A n \in DOMAIN j : k[n] = j[n]
  /\ k[Len(j) + 1] = x

LEMMA AppendExtends ==
  ASSUME NEW j, \E S : j \in Seq(S), NEW x, NEW k, k = Append(j, x)
  PROVE  Extends(k, j, x) /\ (\E S : k \in Seq(S))
<1>1. PICK S : j \in Seq(S)
  OBVIOUS
<1>2. j \in Seq(S \union {x}) /\ x \in S \union {x}
  BY <1>1
<1>3. k \in Seq(S \union {x}) /\ Len(k) = Len(j) + 1 /\ Len(j) \in Nat
  BY <1>2
<1>4. /\ \A n \in 1 .. Len(j) : k[n] = j[n]
      /\ k[Len(j) + 1] = x
  BY <1>2
<1>5. DOMAIN k = 1 .. Len(j) + 1 /\ DOMAIN j = 1 .. Len(j)
  BY <1>2, <1>3
<1> QED
  BY <1>3, <1>4, <1>5 DEF Extends

\* The length of a journal, and the places of its receipts.
LEMMA OrderlyLength ==
  ASSUME NEW j, Orderly(j)
  PROVE  /\ Len(j) \in Nat /\ DOMAIN j = 1 .. Len(j)
         /\ Answers(j) \subseteq 1 .. Len(j) /\ IsFiniteSet(Answers(j))
         /\ \A n \in Answers(j) : n - 1 \in DOMAIN j \ Answers(j)
<1>1. Len(j) \in Nat /\ DOMAIN j = 1 .. Len(j)
  BY DEF Orderly
<1>2. Answers(j) \subseteq 1 .. Len(j)
  BY <1>1 DEF Answers
<1>3. IsFiniteSet(Answers(j))
  <2>1. IsFiniteSet(1 .. Len(j))
    BY <1>1, FS_Interval
  <2> QED
    BY <1>2, <2>1, FS_Subset
<1>4. ASSUME NEW n \in Answers(j)
      PROVE  n - 1 \in DOMAIN j \ Answers(j)
  <2>1. n \in 1 .. Len(j) /\ n % 2 = 0
    BY <1>1, <1>2, <1>4 DEF Orderly, Paired
  <2>2. n - 1 \in 1 .. Len(j) /\ (n - 1) % 2 # 0
    BY <2>1, <1>1
  <2> QED
    BY <2>2, <1>1 DEF Orderly, Paired
<1> QED
  BY <1>1, <1>2, <1>3, <1>4

\* A passed test stays in the journal.
LEMMA PassedStays ==
  ASSUME NEW j, NEW k, NEW x, Orderly(j), Extends(k, j, x), NEW d, PassedIn(j, d)
  PROVE  PassedIn(k, d)
<1>1. PICK n \in Answers(j) : /\ j[n].cmd \in Tests /\ Succeeded(j[n])
                              /\ Patch(j[n].version) = d /\ Patch(j[n - 1].version) = d
  BY DEF PassedIn
<1>2. n \in DOMAIN j /\ n - 1 \in DOMAIN j
  BY OrderlyLength
<1>3. k[n] = j[n] /\ k[n - 1] = j[n - 1] /\ n \in DOMAIN k
  BY <1>2 DEF Extends
<1>4. n \in Answers(k)
  BY <1>3 DEF Answers
<1> QED
  BY <1>1, <1>3, <1>4 DEF PassedIn

LEMMA ProvenStays ==
  ASSUME NEW j, NEW k, NEW x, Orderly(j), Extends(k, j, x), NEW t, Proven(j, t)
  PROVE  Proven(k, t)
BY PassedStays DEF Proven

\* An intent is appended: nothing is answered by it.
LEMMA IntentAppended ==
  ASSUME NEW j, NEW k, NEW x, Orderly(j), Extends(k, j, x), \E S : k \in Seq(S), Len(j) % 2 = 0,
         x.type = "intent",
         \/ x.id = InventoryId /\ x.cmd = Inventory /\ WithInventory
         \/ x.id \in Steps /\ x.cmd \in Commands,
         \A n \in DOMAIN j \ Answers(j) : /\ j[n].id # x.id
                                          /\ Commanded(j, n) # Signature(x.cmd, x.version)
  PROVE  Orderly(k) /\ Answers(k) = Answers(j) /\ Len(k) % 2 = 1
<1>0. /\ Len(j) \in Nat /\ DOMAIN j = 1 .. Len(j) /\ DOMAIN k = 1 .. Len(j) + 1 /\ Len(k) = Len(j) + 1
      /\ (\A n \in 1 .. Len(j) : k[n] = j[n]) /\ k[Len(j) + 1] = x
  BY DEF Extends
<1>1. Answers(k) = Answers(j)
  BY <1>0 DEF Answers
<1>2. Paired(k)
  <2>1. ASSUME NEW n \in DOMAIN k
        PROVE  n \in Answers(k) <=> n % 2 = 0
    <3>1. CASE n \in DOMAIN j
      BY <1>1, <3>1 DEF Orderly, Paired
    <3>2. CASE n = Len(j) + 1
      <4>1. n \notin Answers(j) /\ n % 2 # 0
        BY <1>0, <3>2, OrderlyLength
      <4> QED
        BY <1>1, <4>1
    <3> QED
      BY <1>0, <2>1, <3>1, <3>2
  <2>2. ASSUME NEW n \in Answers(k)
        PROVE  k[n].id = k[n - 1].id /\ k[n].cmd = k[n - 1].cmd
    BY <1>0, <1>1, <2>2, OrderlyLength DEF Orderly, Paired
  <2> QED
    BY <2>1, <2>2 DEF Paired
<1>3. Named(k)
  BY <1>0 DEF Orderly, Named
<1>4. Once(k)
  BY <1>0, <1>1 DEF Orderly, Once
<1>5. Fresh(k)
  BY <1>0, <1>1 DEF Orderly, Fresh, Commanded
<1> QED
  BY <1>0, <1>1, <1>2, <1>3, <1>4, <1>5 DEF Orderly

\* A receipt is appended: it answers the last intent.
LEMMA ReceiptAppended ==
  ASSUME NEW j, NEW k, NEW x, Orderly(j), Extends(k, j, x), \E S : k \in Seq(S), Len(j) % 2 = 1,
         x.type = "receipt", x.id = j[Len(j)].id, x.cmd = j[Len(j)].cmd
  PROVE  Orderly(k) /\ Answers(k) = Answers(j) \cup {Len(k)} /\ Len(k) \notin Answers(j) /\ Len(k) % 2 = 0
<1>0. /\ Len(j) \in Nat /\ DOMAIN j = 1 .. Len(j) /\ DOMAIN k = 1 .. Len(j) + 1 /\ Len(k) = Len(j) + 1
      /\ (\A n \in 1 .. Len(j) : k[n] = j[n]) /\ k[Len(j) + 1] = x
  BY DEF Extends
<1>1. Answers(k) = Answers(j) \cup {Len(k)} /\ Len(k) \notin Answers(j)
  BY <1>0 DEF Answers
<1>2. Paired(k)
  <2>1. ASSUME NEW n \in DOMAIN k
        PROVE  n \in Answers(k) <=> n % 2 = 0
    <3>1. CASE n \in DOMAIN j
      <4>1. n # Len(k)
        BY <1>0, <3>1
      <4> QED
        BY <1>1, <3>1, <4>1 DEF Orderly, Paired
    <3>2. CASE n = Len(j) + 1
      <4>1. n \in Answers(k) /\ n % 2 = 0
        BY <1>0, <1>1, <3>2
      <4> QED
        BY <4>1
    <3> QED
      BY <1>0, <2>1, <3>1, <3>2
  <2>2. ASSUME NEW n \in Answers(k)
        PROVE  k[n].id = k[n - 1].id /\ k[n].cmd = k[n - 1].cmd
    <3>1. CASE n = Len(k)
      BY <1>0, <3>1
    <3>2. CASE n \in Answers(j)
      BY <1>0, <3>2, OrderlyLength DEF Orderly, Paired
    <3> QED
      BY <1>1, <2>2, <3>1, <3>2
  <2> QED
    BY <2>1, <2>2 DEF Paired
<1>3. Named(k)
  <2>1. Len(j) \in DOMAIN j
    BY <1>0
  <2> QED
    BY <1>0, <2>1 DEF Orderly, Named
<1>4. DOMAIN k \ Answers(k) = DOMAIN j \ Answers(j)
  BY <1>0, <1>1
<1>5. Once(k)
  BY <1>0, <1>4 DEF Orderly, Once
<1>6. Fresh(k)
  BY <1>0, <1>4 DEF Orderly, Fresh, Commanded
<1> QED
  BY <1>0, <1>1, <1>2, <1>3, <1>5, <1>6 DEF Orderly

-----------------------------------------------------------------------------
\* What the proofs need of two states of a process: s became t.
Kept(s, t) ==
  /\ t.step = s.step /\ t.nextStep = s.nextStep /\ t.pendingAction = s.pendingAction
  /\ t.tested = s.tested /\ t.inventoried = s.inventoried

LEMMA StatusKeeps ==
  ASSUME NEW s, StateLike(s), NEW x
  PROVE  Kept(s, [s EXCEPT !.status = x]) /\ [s EXCEPT !.status = x].status = x
BY DEF StateLike, Fields, Kept

\* Counting something.
LEMMA CountersKeep ==
  ASSUME NEW s, StateLike(s), NEW x
  PROVE  /\ Kept(s, [s EXCEPT !.streak = x]) /\ [s EXCEPT !.streak = x].status = s.status
         /\ Kept(s, [s EXCEPT !.unverified = x]) /\ [s EXCEPT !.unverified = x].status = s.status
         /\ Kept(s, [s EXCEPT !.warned = x]) /\ [s EXCEPT !.warned = x].status = s.status
         /\ Kept(s, [s EXCEPT !.pendingModel = x]) /\ [s EXCEPT !.pendingModel = x].status = s.status
BY DEF StateLike, Fields, Kept

LEMMA AnsweredKeeps ==
  ASSUME NEW s, StateLike(s), NEW x
  PROVE  Kept(s, Answered(s, x)) /\ Answered(s, x).status = s.status
BY DEF StateLike, Fields, Kept, Answered

LEMMA CountedKeeps ==
  ASSUME NEW s, StateLike(s), NEW c, NEW r, NEW v
  PROVE  Kept(s, Counted(s, c, r, v)) /\ Counted(s, c, r, v).status = s.status
<1>1. ASSUME NEW k, StateLike(k), NEW x, NEW y
      PROVE  /\ StateLike([k EXCEPT !.reads = x, !.warned = y])
             /\ Kept(k, [k EXCEPT !.reads = x, !.warned = y])
             /\ [k EXCEPT !.reads = x, !.warned = y].status = k.status
  BY <1>1 DEF StateLike, Fields, Kept
<1>2. ASSUME NEW k, StateLike(k), NEW x, NEW y
      PROVE  /\ Kept(k, [k EXCEPT !.failedEdits = x, !.streak = y])
             /\ [k EXCEPT !.failedEdits = x, !.streak = y].status = k.status
  BY <1>2 DEF StateLike, Fields, Kept
<1>3. PICK k : k = Navigated(s, c, r, v)
  OBVIOUS
<1>4. PICK x, y : k = [s EXCEPT !.reads = x, !.warned = y]
  BY <1>3 DEF Navigated
<1>5. StateLike(k) /\ Kept(s, k) /\ k.status = s.status
  BY <1>1, <1>4
<1>6. PICK x1, y1 : Counted(s, c, r, v) = [k EXCEPT !.failedEdits = x1, !.streak = y1]
  BY <1>3 DEF Counted
<1> QED
  BY <1>2, <1>5, <1>6 DEF Kept

\* The next step, and the settlement of an answer.
LEMMA ConsumedMoves ==
  ASSUME NEW s, StateLike(s)
  PROVE  /\ Consumed(s).step = s.step /\ Consumed(s).nextStep = s.step + 1
         /\ Consumed(s).pendingAction = s.pendingAction /\ Consumed(s).tested = s.tested
         /\ Consumed(s).inventoried = s.inventoried /\ Consumed(s).status = s.status
BY DEF StateLike, Fields, Consumed

LEMMA EnteringMoves ==
  ASSUME StateLike(mem)
  PROVE  /\ Entering.step = mem.nextStep /\ Entering.nextStep = mem.nextStep
         /\ Entering.pendingAction = mem.pendingAction /\ Entering.tested = mem.tested
         /\ Entering.inventoried = mem.inventoried /\ Entering.status = mem.status
BY DEF StateLike, Fields, Entering

\* The steps that touch neither the workspace nor the journal, and charge no
\* tool.
Drift ==
  /\ journal' = journal /\ summary' = summary /\ ws' = ws /\ starts' = starts
  /\ mem'.pendingAction = mem.pendingAction /\ mem'.tested = mem.tested
  /\ mem'.inventoried = mem.inventoried /\ mem'.nextStep >= mem.nextStep
  /\ ledger'.calls = ledger.calls
  /\ loc.seen \subseteq loc'.seen /\ DOMAIN loc' = DOMAIN loc
  /\ \/ ckpt' = ckpt
     \/ ckpt'.state = mem' /\ ckpt'.ledger = ledger'

\* Places of such a step.
Places == Placed /\ Certain /\ Synced

\* The balance depends on two fields of the state only.
LEMMA BalancedAlike ==
  ASSUME NEW j, NEW s, NEW t, NEW l, NEW m, Balanced(j, s, l), m.calls = l.calls,
         t.pendingAction = s.pendingAction, t.inventoried = s.inventoried
  PROVE  Balanced(j, t, m)
<1>1. Owed(j, t) = Owed(j, s)
  BY DEF Owed
<1> QED
  BY <1>1 DEF Balanced

\* Numbers only grow.
LEMMA IdsAreNumbers ==
  ASSUME NEW j, Orderly(j), NEW n \in DOMAIN j
  PROVE  /\ j[n].id \in Nat /\ j[n].id # NoAction
         /\ j[n].id = InventoryId => WithInventory
BY AgentRuntimeAssumption DEF Orderly, Named, Steps, InventoryId, NoAction

LEMMA NumberedGrows ==
  ASSUME NEW j, Orderly(j), NEW s, NEW t, Numbered(j, s),
         s.nextStep \in Nat, t.nextStep \in Nat, t.nextStep >= s.nextStep,
         t.pendingAction = s.pendingAction \/ (s.pendingAction \in Nat => s.pendingAction < t.nextStep)
  PROVE  Numbered(j, t)
BY IdsAreNumbers DEF Numbered, Known

\* A state that is saved is sound.
LEMMA SavedIsSound ==
  ASSUME NEW j, NEW s, Numbered(j, s), Proven(j, s.tested), s.step \in Nat, s.nextStep \in Nat,
         s.pendingAction # NoAction => s.pendingAction = s.step /\ s.nextStep = s.step /\ s.step \in Steps
  PROVE  Sound(j, s)
BY DEF Sound, Numbered, NumberedButLast

LEMMA DriftKeeps ==
  ASSUME Honest, pc # "off", pc' # "off", Drift, Places'
  PROVE  Honest'
<1>1. /\ Orderly(journal) /\ Placed /\ Numbered(journal, mem) /\ Remembered(journal, mem, loc.seen)
      /\ Balanced(journal, mem, ledger) /\ Proven(journal, mem.tested)
  BY DEF Honest, Alive
<1>2. mem.nextStep \in Nat /\ mem'.nextStep \in Nat /\ mem'.step \in Nat
  BY <1>1 DEF Places, Placed
<1>3. Numbered(journal, mem') /\ Proven(journal, mem'.tested) /\ Balanced(journal, mem', ledger')
  BY <1>1, <1>2, NumberedGrows, BalancedAlike DEF Drift
<1>4. Remembered(journal, mem', loc'.seen)
  BY <1>1 DEF Remembered, Drift
<1>5. mem'.pendingAction # NoAction =>
        mem'.pendingAction = mem'.step /\ mem'.nextStep = mem'.step /\ mem'.step \in Steps
  BY DEF Places, Placed
<1>6. Sound(journal, mem')
  BY <1>2, <1>3, <1>5, SavedIsSound
<1>7. journal' = journal /\ summary' = summary /\ starts' = starts
  BY DEF Drift
<1>8. Alive'
  BY <1>3, <1>4, <1>7 DEF Alive, Places
<1>9. Saved'
  <2>1. CASE ckpt' = ckpt
    BY <2>1, <1>7 DEF Honest, Saved, Places
  <2>2. CASE ckpt'.state = mem' /\ ckpt'.ledger = ledger'
    <3>1. Balanced(journal, ckpt'.state, ckpt'.ledger)
      BY <1>3, <2>2
    <3> QED
      BY <2>2, <3>1, <1>6, <1>7 DEF Saved, Places
  <2> QED
    BY <2>1, <2>2 DEF Drift
<1>10. Told' /\ Begun' /\ Orderly(journal')
  BY <1>7 DEF Drift, Honest, Told, Begun, Orderly
<1> QED
  BY <1>8, <1>9, <1>10 DEF Honest

-----------------------------------------------------------------------------
\* A run whose promises hold, before a step of a process.
Ready == Honest /\ Accounts /\ StateLike(mem) /\ (ckpt # None => StateLike(ckpt.state))

Drifts == Drift /\ Places'

LEMMA PlusCalls ==
  ASSUME NEW l \in Spent, NEW t, NEW s, NEW c \in Nat
  PROVE  Plus(l, t, s, c).calls = l.calls + c
BY DEF Spent, Plus

\* Nothing is charged by a charge of no calls.
LEMMA TimeIsNoCall ==
  ASSUME Ready, NEW t, NEW s
  PROVE  Plus(ledger, t, s, 0).calls = ledger.calls
<1>1. ledger \in Spent /\ ledger.calls \in Nat
  BY DEF Ready, Accounts, Money, Spent
<1> QED
  BY <1>1, PlusCalls

\* What is known of a live process.
LEMMA Live ==
  ASSUME Ready, pc # "off"
  PROVE  /\ Places /\ StateLike(mem) /\ mem.step \in Nat /\ mem.nextStep \in Nat
         /\ Len(journal) % 2 = IF pc \in Waiting THEN 1 ELSE 0
BY DEF Ready, Honest, Alive, Saved, Places, Placed

\* The state t is at most further on than s.
Onward(s, t) ==
  /\ t.step \in Nat /\ t.nextStep \in Nat /\ t.nextStep >= s.nextStep
  /\ t.pendingAction = s.pendingAction /\ t.tested = s.tested /\ t.inventoried = s.inventoried

LEMMA KeptIsOnward ==
  ASSUME NEW s, NEW t, NEW u, Onward(s, t), Kept(t, u)
  PROVE  Onward(s, u)
BY DEF Onward, Kept

LEMMA StaysOnward ==
  ASSUME Ready, pc # "off"
  PROVE  Onward(mem, mem) /\ StateLike(mem) /\ mem.status = mem.status
BY Live DEF Onward

LEMMA EntersOnward ==
  ASSUME Ready, pc # "off"
  PROVE  /\ Onward(mem, Entering) /\ StateLike(Entering) /\ Entering.status = mem.status
         /\ Entering.step = mem.nextStep /\ Entering.nextStep = mem.nextStep
<1>1. mem.step \in Nat /\ mem.nextStep \in Nat /\ StateLike(mem)
  BY Live
<1>2. StateLike(Entering)
  BY <1>1, StateForms DEF Entering
<1> QED
  BY <1>1, <1>2, EnteringMoves DEF Onward

LEMMA ConsumesOnward ==
  ASSUME Ready, pc = "act"
  PROVE  Onward(mem, Consumed(mem)) /\ StateLike(Consumed(mem)) /\ Consumed(mem).status = mem.status
<1>1. mem.step \in Nat /\ mem.nextStep = mem.step /\ StateLike(mem)
  BY Live DEF Places, Placed
<1>2. StateLike(Consumed(mem))
  BY <1>1, StateForms
<1> QED
  BY <1>1, <1>2, ConsumedMoves DEF Onward

\* A process only ends, with status x.
LEMMA EndDrifts ==
  ASSUME Ready, pc \notin {"off", "final", "summary"}, pc \notin AtWork \cup {"inventoryRuns"},
         pc' = "final", NEW d, StateLike(d), Onward(mem, d), NEW x, mem' = [d EXCEPT !.status = x],
         x = "completed" => (RequireTest /\ Patched => loc.visible),
         ckpt' = ckpt \/ ckpt' = Checkpoint(mem', ledger'),
         journal' = journal, summary' = summary, ws' = ws, starts' = starts,
         ledger'.calls = ledger.calls, loc' = loc
  PROVE  Drifts
<1>1. /\ Places /\ StateLike(mem) /\ mem.step \in Nat /\ mem.nextStep \in Nat
      /\ Len(journal) % 2 = 0
  BY Live DEF Waiting, AtWork
<1>2. /\ mem'.pendingAction = mem.pendingAction /\ mem'.tested = mem.tested
      /\ mem'.inventoried = mem.inventoried /\ mem'.nextStep \in Nat /\ mem'.nextStep >= mem.nextStep
      /\ mem'.step \in Nat /\ mem'.status = x
  BY <1>1, StatusKeeps DEF Kept, Onward
<1>3. ckpt' = ckpt \/ (ckpt'.state = mem' /\ ckpt'.ledger = ledger')
  BY DEF Checkpoint
<1>4. Drift
  BY <1>1, <1>2, <1>3 DEF Drift
<1>5. Placed'
  BY <1>1, <1>2 DEF Places, Placed, AtWork, Waiting, Looking, Looping
<1>6. Certain'
  BY <1>1, <1>2 DEF Places, Certain, Patched, AtWork
<1>7. Synced'
  BY <1>1 DEF Synced, Looking, Looping
<1> QED
  BY <1>4, <1>5, <1>6, <1>7 DEF Drifts, Places

\* A process goes on in its loop and saves its state.
LEMMA LoopDrifts ==
  ASSUME Ready, pc \in {"act", "refused", "settled", "loop", "ask", "inventorySaves"},
         pc' \in {"prompt", "loop", "act", "ask"},
         pc' \in {"act", "ask"} => mem'.nextStep = mem'.step /\ mem'.step \in Steps,
         Onward(mem, mem'), mem'.status # "completed",
         ckpt' = Checkpoint(mem', ledger'),
         journal' = journal, summary' = summary, ws' = ws, starts' = starts,
         ledger'.calls = ledger.calls, loc' = loc
  PROVE  Drifts
<1>1. /\ Places /\ mem.step \in Nat /\ mem.nextStep \in Nat
      /\ Len(journal) % 2 = 0
  BY Live DEF Waiting, AtWork
<1>3. ckpt'.state = mem' /\ ckpt'.ledger = ledger'
  BY DEF Checkpoint
<1>4. Drift
  BY <1>1, <1>3 DEF Drift, Onward
<1>5. Placed'
  BY <1>1 DEF Places, Placed, AtWork, Waiting, Looking, Looping, Onward
<1>6. Certain'
  BY <1>1 DEF Places, Certain, Patched, Onward
<1>7. Synced'
  <2>1. mem'.pendingAction = NoAction /\ (WithInventory => mem'.inventoried)
    BY <1>1 DEF Onward, Places, Placed, AtWork, Looping
  <2> QED
    BY <1>3, <2>1 DEF Synced, Looking, Looping
<1> QED
  BY <1>4, <1>5, <1>6, <1>7 DEF Drifts, Places

\* A process begins.
LEMMA BeginDrifts ==
  ASSUME Ready, FirstCheckpoint \/ RecordPrompt
  PROVE  Drifts
<1>0. pc \in {"first", "prompt"} /\ pc # "off"
  BY DEF FirstCheckpoint, RecordPrompt
<1>1. /\ Places /\ StateLike(mem) /\ mem.step \in Nat /\ mem.nextStep \in Nat
      /\ Len(journal) % 2 = 0 /\ mem' = mem
  BY <1>0, Live DEF Waiting, AtWork, FirstCheckpoint, RecordPrompt
<1>2. CASE FirstCheckpoint
  <2>1. ckpt'.state = mem /\ ckpt'.ledger = ledger
    BY <1>2 DEF FirstCheckpoint, Checkpoint
  <2>2. Drift
    BY <1>1, <1>2, <2>1 DEF Drift, FirstCheckpoint
  <2>3. Placed'
    BY <1>1, <1>2 DEF FirstCheckpoint, Places, Placed, AtWork, Waiting, Looking, Looping
  <2>4. Certain'
    BY <1>1, <1>2 DEF FirstCheckpoint, Places, Certain, Patched
  <2>5. Synced'
    BY <1>1, <1>2, <2>1 DEF FirstCheckpoint, Places, Synced, Placed, AtWork, Looking, Looping
  <2> QED
    BY <2>2, <2>3, <2>4, <2>5 DEF Drifts, Places
<1>3. CASE RecordPrompt
  <2>2. Drift
    BY <1>1, <1>3 DEF Drift, RecordPrompt
  <2>3. Placed'
    BY <1>1, <1>3 DEF RecordPrompt, Places, Placed, AtWork, Waiting, Looking, Looping
  <2>4. Certain'
    BY <1>1, <1>3 DEF RecordPrompt, Places, Certain, Patched
  <2>5. Synced'
    BY <1>1, <1>3 DEF RecordPrompt, Places, Synced, Looking, Looping
  <2> QED
    BY <2>2, <2>3, <2>4, <2>5 DEF Drifts, Places
<1> QED
  BY <1>2, <1>3

\* The inventory is refused, found or saved.
LEMMA InventoryDrifts ==
  ASSUME Ready, InventoryBlocked \/ InventoryRecovered \/ InventorySaved
  PROVE  Drifts
<1>1. CASE InventoryBlocked
  <2>1. pc = "inventory" /\ pc' = "final" /\ mem' = [mem EXCEPT !.status = "blocked"]
    BY <1>1 DEF InventoryBlocked, EndWith
  <2>2. StateLike(mem) /\ Onward(mem, mem)
    BY <2>1, StaysOnward
  <2> QED
    BY <1>1, <2>1, <2>2, EndDrifts DEF InventoryBlocked, records, AtWork
<1>2. CASE InventoryRecovered
  <2>1. /\ Places /\ mem.step \in Nat /\ mem.nextStep \in Nat /\ Len(journal) % 2 = 0
        /\ pc = "inventory" /\ pc' = "inventoryReceipt" /\ mem' = mem
    BY <1>2, Live DEF Waiting, InventoryRecovered
  <2>2. Drift
    BY <2>1, <1>2 DEF Drift, InventoryRecovered, records
  <2>3. Placed'
    BY <1>2, <2>1 DEF InventoryRecovered, records, Places, Placed, AtWork, Waiting, Looking, Looping
  <2>4. Certain'
    BY <1>2, <2>1 DEF InventoryRecovered, Places, Certain, Patched
  <2>5. Synced'
    BY <1>2, <2>1 DEF InventoryRecovered, records, Places, Synced, Looking, Looping
  <2> QED
    BY <2>2, <2>3, <2>4, <2>5 DEF Drifts, Places
<1>3. CASE InventorySaved
  <2>1. pc = "inventorySaves" /\ pc' = "prompt" /\ mem' = mem
    BY <1>3 DEF InventorySaved
  <2>2. StateLike(mem) /\ Onward(mem, mem) /\ mem.status # "completed"
    BY <2>1, StaysOnward, Live DEF Places, Certain
  <2> QED
    BY <1>3, <2>1, <2>2, LoopDrifts DEF InventorySaved, Checkpoint
<1> QED
  BY <1>1, <1>2, <1>3

\* The head of the loop.
LEMMA HeadDrifts ==
  ASSUME Ready, HeadStep
  PROVE  Drifts
<1>0. pc = "loop"
  BY DEF HeadStep, LoopEnds, CancellationSeen, StepBlocked, ReuseAnswer, AskModel, StepBegins, InLoop
<1>1. /\ Onward(mem, mem) /\ StateLike(mem) /\ mem.status # "completed"
      /\ Onward(mem, Entering) /\ StateLike(Entering) /\ Entering.status = mem.status
      /\ Entering.step = mem.nextStep /\ Entering.nextStep = mem.nextStep
  BY <1>0, StaysOnward, EntersOnward, Live DEF Places, Certain
<1>2. CASE LoopEnds
  <2>1. PICK x : mem' = [mem EXCEPT !.status = x] /\ pc' = "final" /\ x # "completed"
    BY <1>2 DEF LoopEnds, EndWith
  <2>2. ledger' = ledger /\ loc' = loc /\ ws' = ws /\ ckpt' = ckpt /\ journal' = journal
        /\ summary' = summary /\ starts' = starts
    BY <1>2 DEF LoopEnds, records
  <2> QED
    BY <1>0, <1>1, <2>1, <2>2, EndDrifts DEF AtWork
<1>3. CASE CancellationSeen
  <2>1. mem' = [Entering EXCEPT !.status = "cancelled"] /\ pc' = "final"
    BY <1>3 DEF CancellationSeen, EndWith
  <2>2. ledger' = ledger /\ loc' = loc /\ ws' = ws /\ ckpt' = ckpt /\ journal' = journal
        /\ summary' = summary /\ starts' = starts
    BY <1>3 DEF CancellationSeen, records
  <2> QED
    BY <1>0, <1>1, <2>1, <2>2, EndDrifts DEF AtWork
<1>4. ASSUME NEW e \in Durations, StepBlocked(e)
      PROVE  Drifts
  <2>1. mem' = [Entering EXCEPT !.status = "blocked"] /\ pc' = "final"
    BY <1>4 DEF StepBlocked, EndWith
  <2>2. loc' = loc /\ ws' = ws /\ ckpt' = ckpt /\ journal' = journal
        /\ summary' = summary /\ starts' = starts
    BY <1>4 DEF StepBlocked, records
  <2>3. ledger' = ledger \/ ledger' = Plus(ledger, 0, e, 0)
    BY <1>4 DEF StepBlocked
  <2>4. ledger'.calls = ledger.calls
    BY <2>3, TimeIsNoCall
  <2> QED
    BY <1>0, <1>1, <2>1, <2>2, <2>4, EndDrifts DEF AtWork
<1>5. mem.nextStep \in Nat /\ (InLoop => mem.nextStep \in Steps)
  BY <1>0, Live, AgentRuntimeAssumption DEF InLoop, Steps
<1>6. ASSUME NEW e \in Durations, ReuseAnswer(e)
      PROVE  Drifts
  <2>1. mem' = Entering /\ pc' = "act" /\ InLoop /\ ledger' = Plus(ledger, 0, e, 0)
    BY <1>6 DEF ReuseAnswer, StepBegins
  <2>2. loc' = loc /\ ws' = ws /\ ckpt' = ckpt /\ journal' = journal
        /\ summary' = summary /\ starts' = starts
    BY <1>6 DEF ReuseAnswer, records
  <2>3. ledger'.calls = ledger.calls
    BY <2>1, TimeIsNoCall
  <2>4. Places /\ Len(journal) % 2 = 0
    BY <1>0, Live DEF Waiting
  <2>5. Drift
    BY <1>1, <2>1, <2>2, <2>3 DEF Drift, Onward
  <2>6. Placed'
    BY <1>0, <1>1, <1>5, <2>1, <2>2, <2>4 DEF Places, Placed, AtWork, Waiting, Looking, Looping, Onward
  <2>7. Certain'
    BY <1>0, <1>1, <2>1, <2>2, <2>4 DEF Places, Certain, Patched, Onward
  <2>8. Synced'
    BY <1>0, <2>1, <2>2, <2>4 DEF Places, Synced, Looking, Looping
  <2> QED
    BY <2>5, <2>6, <2>7, <2>8 DEF Drifts, Places
<1>7. ASSUME NEW e \in Durations, AskModel(e)
      PROVE  Drifts
  <2>1. /\ mem' = [Entering EXCEPT !.pendingModel = TRUE] /\ pc' = "ask" /\ InLoop
        /\ ledger' = Plus(ledger, 0, e, 0) /\ ckpt' = Checkpoint(mem', ledger')
    BY <1>7 DEF AskModel, StepBegins, BeforeRequest, Checkpoint
  <2>2. loc' = loc /\ ws' = ws /\ journal' = journal /\ summary' = summary /\ starts' = starts
    BY <1>7 DEF AskModel
  <2>3. ledger'.calls = ledger.calls
    BY <2>1, TimeIsNoCall
  <2>4. Kept(Entering, mem') /\ mem'.status = mem.status
    BY <1>1, <2>1, CountersKeep
  <2>5. Onward(mem, mem') /\ mem'.nextStep = mem'.step /\ mem'.step \in Steps
    BY <1>1, <1>5, <2>1, <2>4, KeptIsOnward DEF Kept
  <2> QED
    BY <1>0, <1>1, <2>1, <2>2, <2>3, <2>4, <2>5, LoopDrifts
<1> QED
  BY <1>2, <1>3, <1>4, <1>6, <1>7 DEF HeadStep

\* The answer of the model.
LEMMA AnswerDrifts ==
  ASSUME Ready, Answering
  PROVE  Drifts
<1>1. PICK text \in Commands \cup {Done, Invalid}, t \in Usages, e \in Durations : ModelAnswers(text, t, e)
  BY DEF Answering
<1>2. pc = "ask"
  BY <1>1 DEF ModelAnswers
<1>3. /\ Onward(mem, mem) /\ StateLike(mem) /\ mem.status # "completed"
      /\ mem.nextStep = mem.step /\ mem.step \in Steps
  BY <1>2, StaysOnward, Live DEF Places, Placed, Certain
<1>4. loc' = loc /\ ws' = ws /\ journal' = journal /\ summary' = summary /\ starts' = starts
  BY <1>1 DEF ModelAnswers
<1>5. CASE mem' = [mem EXCEPT !.status = "blocked"] /\ pc' = "final" /\ ledger' = ledger /\ ckpt' = ckpt
  BY <1>2, <1>3, <1>4, <1>5, EndDrifts DEF AtWork
<1>6. CASE /\ mem' = Answered(mem, text) /\ pc' = "act" /\ ledger' = Plus(ledger, t, e, 0)
           /\ ckpt' = Checkpoint(mem', ledger')
  <2>1. ledger'.calls = ledger.calls
    BY <1>6, TimeIsNoCall
  <2>2. Kept(mem, mem') /\ mem'.status = mem.status
    BY <1>3, <1>6, AnsweredKeeps
  <2>3. Onward(mem, mem') /\ mem'.nextStep = mem'.step /\ mem'.step \in Steps
    BY <1>3, <2>2, KeptIsOnward DEF Kept
  <2> QED
    BY <1>2, <1>3, <1>4, <1>6, <2>1, <2>2, <2>3, LoopDrifts
<1> QED
  BY <1>1, <1>5, <1>6 DEF ModelAnswers, EndWith, Checkpoint

-----------------------------------------------------------------------------
\* What acting on an answer leaves alone.
LEMMA ActingLeaves ==
  ASSUME ActOnly
  PROVE  /\ ledger' = ledger /\ ledger'.calls = ledger.calls /\ loc' = loc /\ ws' = ws /\ journal' = journal
         /\ summary' = summary /\ starts' = starts
BY DEF ActOnly

\* Malformed answers.
LEMMA InvalidDrifts ==
  ASSUME Ready, InvalidAfterTest \/ InvalidAnswer
  PROVE  Drifts
<1>0. pc = "act" /\ ActOnly
  BY DEF InvalidAfterTest, InvalidAnswer
<1>1. /\ Onward(mem, mem) /\ StateLike(mem) /\ mem.status # "completed"
      /\ Onward(mem, Consumed(mem)) /\ StateLike(Consumed(mem)) /\ Consumed(mem).status = mem.status
  BY <1>0, StaysOnward, ConsumesOnward, Live DEF Places, Certain
<1>2. CASE InvalidAfterTest
  <2>1. mem' = [mem EXCEPT !.status = "completed"] /\ pc' = "final" /\ ckpt' = ckpt /\ loc.visible
    BY <1>2 DEF InvalidAfterTest, EndWith
  <2> QED
    BY <1>0, <1>1, <2>1, ActingLeaves, EndDrifts DEF AtWork
<1>3. CASE InvalidAnswer
  <2>1. PICK s : s = [Consumed(mem) EXCEPT !.streak = @ + 1]
    OBVIOUS
  <2>2. /\ \/ mem' = s /\ pc' = "loop" /\ ckpt' = Checkpoint(s, ledger)
           \/ mem' = [s EXCEPT !.status = "failed"] /\ pc' = "final" /\ ckpt' = ckpt
    BY <1>3, <2>1 DEF InvalidAnswer, NextStep, EndWith
  <2>3. Kept(Consumed(mem), s) /\ s.status = mem.status
    <3>1. PICK x : s = [Consumed(mem) EXCEPT !.streak = x]
      BY <2>1
    <3> QED
      BY <1>1, <3>1, CountersKeep
  <2>4. StateLike(s)
    BY <1>1, <2>1 DEF StateLike, Fields
  <2>5. Onward(mem, s)
    BY <1>1, <2>3, KeptIsOnward
  <2>6. CASE mem' = s /\ pc' = "loop" /\ ckpt' = Checkpoint(s, ledger)
    BY <1>0, <1>1, <2>3, <2>5, <2>6, ActingLeaves, LoopDrifts
  <2>7. CASE mem' = [s EXCEPT !.status = "failed"] /\ pc' = "final" /\ ckpt' = ckpt
    BY <1>0, <2>4, <2>5, <2>7, ActingLeaves, EndDrifts DEF AtWork
  <2> QED
    BY <2>2, <2>6, <2>7
<1> QED
  BY <1>2, <1>3

\* Answers that finish.
LEMMA DoneDrifts ==
  ASSUME Ready, DoneUnverified \/ DoneAccepted
  PROVE  Drifts
<1>0. pc = "act" /\ ActOnly
  BY DEF DoneUnverified, DoneAccepted
<1>1. /\ Onward(mem, mem) /\ StateLike(mem) /\ mem.status # "completed"
      /\ Onward(mem, Consumed(mem)) /\ StateLike(Consumed(mem)) /\ Consumed(mem).status = mem.status
      /\ mem.nextStep = mem.step /\ mem.step \in Nat
  BY <1>0, StaysOnward, ConsumesOnward, Live DEF Places, Placed, Certain
<1>2. CASE DoneUnverified
  <2>1. PICK s : s = [mem EXCEPT !.unverified = @ + 1]
    OBVIOUS
  <2>2. /\ \/ mem' = Consumed(s) /\ pc' = "loop" /\ ckpt' = Checkpoint(mem', ledger)
           \/ mem' = [s EXCEPT !.status = "failed"] /\ pc' = "final" /\ ckpt' = ckpt
    BY <1>2, <2>1 DEF DoneUnverified, NextStep, EndWith
  <2>3. Kept(mem, s) /\ s.status = mem.status
    <3>1. PICK x : s = [mem EXCEPT !.unverified = x]
      BY <2>1
    <3> QED
      BY <1>1, <3>1, CountersKeep
  <2>4. StateLike(s)
    BY <1>1, <2>1 DEF StateLike, Fields
  <2>5. Onward(mem, s)
    BY <1>1, <2>3, KeptIsOnward
  <2>6. Onward(mem, Consumed(s)) /\ Consumed(s).status = mem.status
    BY <1>1, <2>3, <2>4, ConsumedMoves DEF Onward, Kept
  <2>7. CASE mem' = Consumed(s) /\ pc' = "loop" /\ ckpt' = Checkpoint(mem', ledger)
    BY <1>0, <1>1, <2>6, <2>7, ActingLeaves, LoopDrifts
  <2>8. CASE mem' = [s EXCEPT !.status = "failed"] /\ pc' = "final" /\ ckpt' = ckpt
    BY <1>0, <2>4, <2>5, <2>8, ActingLeaves, EndDrifts DEF AtWork
  <2> QED
    BY <2>2, <2>7, <2>8
<1>3. CASE DoneAccepted
  <2>1. mem' = [Consumed(mem) EXCEPT !.status = "completed"] /\ pc' = "final" /\ ckpt' = ckpt
    BY <1>3 DEF DoneAccepted, EndWith
  <2>2. RequireTest /\ Patched => loc.visible
    BY <1>3 DEF DoneAccepted, Unverified
  <2> QED
    BY <1>0, <1>1, <2>1, <2>2, ActingLeaves, EndDrifts DEF AtWork
<1> QED
  BY <1>2, <1>3

\* Reads and repetitions that are refused, and a tool the budget does not
\* allow.
LEMMA RefusalDrifts ==
  ASSUME Ready, NEW c \in Commands, ReadRefused(c) \/ RepeatRefused(c) \/ ToolBlocked(c)
  PROVE  Drifts
<1>0. pc = "act"
  BY DEF ReadRefused, RepeatRefused, ToolBlocked, RunsTool, AsksFor
<1>1. /\ Onward(mem, mem) /\ StateLike(mem) /\ mem.status # "completed"
      /\ Onward(mem, Consumed(mem)) /\ StateLike(Consumed(mem)) /\ Consumed(mem).status = mem.status
  BY <1>0, StaysOnward, ConsumesOnward, Live DEF Places, Certain
<1>2. CASE ReadRefused(c)
  <2>1. ActOnly
    BY <1>2 DEF ReadRefused
  <2>2. CASE mem' = [Consumed(mem) EXCEPT !.status = "failed"] /\ pc' = "final" /\ ckpt' = Checkpoint(mem', ledger)
    BY <1>0, <1>1, <2>1, <2>2, ActingLeaves, EndDrifts DEF AtWork
  <2>3. ASSUME NEW x, mem' = [Consumed(mem) EXCEPT !.warned = x], pc' = "loop", ckpt' = Checkpoint(mem', ledger)
        PROVE  Drifts
    <3>1. Kept(Consumed(mem), mem') /\ mem'.status = mem.status
      BY <1>1, <2>3, CountersKeep
    <3>2. Onward(mem, mem')
      BY <1>1, <3>1, KeptIsOnward
    <3> QED
      BY <1>0, <1>1, <2>1, <2>3, <3>1, <3>2, ActingLeaves, LoopDrifts
  <2>4. \/ mem' = [Consumed(mem) EXCEPT !.status = "failed"] /\ pc' = "final" /\ ckpt' = Checkpoint(mem', ledger)
        \/ \E x : mem' = [Consumed(mem) EXCEPT !.warned = x] /\ pc' = "loop" /\ ckpt' = Checkpoint(mem', ledger)
    BY <1>2 DEF ReadRefused, NextStep, EndWith
  <2> QED
    BY <2>2, <2>3, <2>4
<1>3. CASE RepeatRefused(c)
  <2>1. /\ mem' = [Consumed(mem) EXCEPT !.status = IF Signature(c, ws) \in loc.refused THEN "failed" ELSE @]
        /\ loc' = [loc EXCEPT !.refused = @ \cup {Signature(c, ws)}]
        /\ pc' = "refused"
    BY <1>3 DEF RepeatRefused
  <2>2. /\ ledger' = ledger /\ ws' = ws /\ ckpt' = ckpt /\ journal' = journal /\ summary' = summary
        /\ starts' = starts
    BY <1>3 DEF RepeatRefused
  <2>3. loc'.seen = loc.seen /\ loc'.visible = loc.visible /\ DOMAIN loc' = DOMAIN loc
    BY <2>1
  <2>4. PICK x : mem' = [Consumed(mem) EXCEPT !.status = x] /\ x # "completed"
    BY <1>1, <2>1
  <2>5. Onward(mem, mem') /\ mem'.status # "completed"
    BY <1>1, <2>4, StatusKeeps, KeptIsOnward
  <2>6. Places /\ Len(journal) % 2 = 0
    BY <1>0, Live DEF Waiting
  <2>7. Drift
    BY <2>2, <2>3, <2>5 DEF Drift, Onward
  <2>8. Placed'
    BY <1>0, <2>1, <2>2, <2>5, <2>6 DEF Places, Placed, AtWork, Waiting, Looking, Looping, Onward
  <2>9. Certain'
    BY <1>0, <2>2, <2>3, <2>5, <2>6 DEF Places, Certain, Patched, Onward
  <2>10. Synced'
    BY <1>0, <2>1, <2>2, <2>6 DEF Places, Synced, Looking, Looping
  <2> QED
    BY <2>7, <2>8, <2>9, <2>10 DEF Drifts, Places
<1>4. CASE ToolBlocked(c)
  <2>1. mem' = [mem EXCEPT !.status = "blocked"] /\ pc' = "final" /\ ckpt' = ckpt /\ ActOnly
    BY <1>4 DEF ToolBlocked, EndWith
  <2> QED
    BY <1>0, <1>1, <2>1, ActingLeaves, EndDrifts DEF AtWork
<1> QED
  BY <1>2, <1>3, <1>4

\* What a refusal and an intent save.
LEMMA SavesDrift ==
  ASSUME Ready, RefusalSaved \/ IntentSaved
  PROVE  Drifts
<1>0. pc \in {"refused", "intent"} /\ pc # "off" /\ mem' = mem
  BY DEF RefusalSaved, IntentSaved
<1>1. /\ Places /\ StateLike(mem) /\ mem.step \in Nat /\ mem.nextStep \in Nat
      /\ Len(journal) % 2 = IF pc \in Waiting THEN 1 ELSE 0
  BY <1>0, Live
<1>2. /\ ckpt'.state = mem' /\ ckpt'.ledger = ledger' /\ ledger' = ledger /\ loc' = loc /\ ws' = ws
      /\ journal' = journal /\ summary' = summary /\ starts' = starts
  BY <1>0 DEF RefusalSaved, IntentSaved, Checkpoint
<1>3. Drift
  BY <1>0, <1>1, <1>2 DEF Drift
<1>4. CASE RefusalSaved
  <2>1. pc = "refused" /\ pc' \in {"final", "loop"}
    BY <1>4 DEF RefusalSaved
  <2>2. Placed'
    BY <1>0, <1>1, <1>2, <2>1 DEF Places, Placed, AtWork, Waiting, Looking, Looping
  <2>3. Certain'
    BY <1>0, <1>1, <1>2, <2>1 DEF Places, Certain, Patched
  <2>4. Synced'
    BY <1>0, <1>1, <1>2, <2>1 DEF Places, Synced, Placed, AtWork, Looking, Looping
  <2> QED
    BY <1>3, <2>2, <2>3, <2>4 DEF Drifts, Places
<1>5. CASE IntentSaved
  <2>1. pc = "intent" /\ pc' = "toolRuns"
    BY <1>5 DEF IntentSaved
  <2>2. Placed'
    BY <1>0, <1>1, <1>2, <2>1 DEF Places, Placed, AtWork, Waiting, Looking, Looping, Current
  <2>3. Certain'
    BY <1>0, <1>1, <1>2, <2>1 DEF Places, Certain, Patched
  <2>4. Synced'
    BY <1>0, <1>1, <1>2, <2>1 DEF Places, Synced, Looking, Looping
  <2> QED
    BY <1>3, <2>2, <2>3, <2>4 DEF Drifts, Places
<1> QED
  BY <1>4, <1>5

\* A settled tool is saved, and the end of a process.
LEMMA SettledDrifts ==
  ASSUME Ready, SettlementSaved
  PROVE  Drifts
<1>0. pc = "settled" /\ ActOnly
  BY DEF SettlementSaved
<1>1. Onward(mem, mem) /\ StateLike(mem) /\ mem.status # "completed" /\ Places /\ Len(journal) % 2 = 0
  BY <1>0, StaysOnward, Live DEF Places, Certain, Waiting
<1>2. CASE mem' = mem /\ pc' = "loop" /\ ckpt' = Checkpoint(mem, ledger)
  BY <1>0, <1>1, <1>2, ActingLeaves, LoopDrifts
<1>3. CASE mem' = mem /\ pc' = "final" /\ ckpt' = ckpt
  <2>1. Drift
    BY <1>1, <1>3, ActingLeaves, <1>0 DEF Drift, Onward
  <2>2. Placed'
    BY <1>0, <1>1, <1>3, ActingLeaves DEF Places, Placed, AtWork, Waiting, Looking, Looping
  <2>3. Certain'
    BY <1>0, <1>1, <1>3, ActingLeaves DEF Places, Certain, Patched
  <2>4. Synced'
    BY <1>3 DEF Synced, Looking, Looping
  <2> QED
    BY <2>1, <2>2, <2>3, <2>4 DEF Drifts, Places
<1> QED
  BY <1>2, <1>3 DEF SettlementSaved, NextStep

LEMMA FinalDrifts ==
  ASSUME Ready, FinalCheckpoint
  PROVE  Drifts
<1>1. pc = "final" /\ pc' = "summary" /\ mem' = [mem EXCEPT !.pendingAction = NoAction]
  BY DEF FinalCheckpoint
<1>2. Places /\ StateLike(mem) /\ mem.step \in Nat /\ mem.nextStep \in Nat /\ Len(journal) % 2 = 0
  BY <1>1, Live DEF Waiting
<1>3. mem.pendingAction = NoAction
  BY <1>1, <1>2 DEF Places, Placed, AtWork
<1>4. /\ mem'.step = mem.step /\ mem'.nextStep = mem.nextStep /\ mem'.pendingAction = NoAction
      /\ mem'.tested = mem.tested /\ mem'.inventoried = mem.inventoried /\ mem'.status = mem.status
  BY <1>1, <1>2 DEF StateLike, Fields
<1>5. /\ ckpt'.state = mem' /\ ckpt'.ledger = ledger' /\ ledger' = ledger /\ loc' = loc /\ ws' = ws
      /\ journal' = journal /\ summary' = summary /\ starts' = starts
  BY DEF FinalCheckpoint, Checkpoint
<1>6. Drift
  BY <1>2, <1>3, <1>4, <1>5 DEF Drift
<1>7. Placed'
  BY <1>1, <1>2, <1>4, <1>5 DEF Places, Placed, AtWork, Waiting, Looking, Looping
<1>8. Certain'
  BY <1>1, <1>2, <1>4, <1>5 DEF Places, Certain, Patched
<1>9. Synced'
  BY <1>1 DEF Synced, Looking, Looping
<1> QED
  BY <1>6, <1>7, <1>8, <1>9 DEF Drifts, Places

-----------------------------------------------------------------------------
\* Who owes nothing, and what an entry changes of what is owed.
LEMMA OwedNothing ==
  ASSUME NEW j, Orderly(j), NEW s, s.pendingAction = NoAction, WithInventory => s.inventoried
  PROVE  Owed(j, s) = {}
<1>1. ASSUME NEW n \in Owed(j, s)
      PROVE  FALSE
  <2>1. n \in DOMAIN j
    BY DEF Owed, Answers
  <2> QED
    BY <2>1, IdsAreNumbers DEF Owed
<1> QED
  BY <1>1

LEMMA IntentBalance ==
  ASSUME NEW j, NEW k, NEW x, Extends(k, j, x), Answers(k) = Answers(j), NEW s, NEW l,
         Owed(j, s) = {}, Balanced(j, s, l)
  PROVE  Balanced(k, s, l)
<1>1. Owed(k, s) = {}
  <2>1. ASSUME NEW n \in Owed(k, s)
        PROVE  n \in Owed(j, s)
    <3>1. n \in Answers(j) /\ n \in DOMAIN j
      BY DEF Owed, Answers
    <3>2. k[n] = j[n]
      BY <3>1 DEF Extends
    <3> QED
      BY <3>1, <3>2 DEF Owed
  <2> QED
    BY <2>1
<1> QED
  BY <1>1 DEF Balanced

\* A receipt that is not charged yet is owed.
LEMMA ReceiptBalance ==
  ASSUME NEW j, NEW k, NEW x, Orderly(j), Extends(k, j, x), Len(j) % 2 = 1,
         Answers(k) = Answers(j) \cup {Len(k)}, Len(k) \notin Answers(j),
         NEW s, NEW l, Balanced(j, s, l), l.calls \in Nat,
         x.id = s.pendingAction \/ (x.id = InventoryId /\ ~s.inventoried)
  PROVE  Balanced(k, s, l)
<1>0. Len(j) \in Nat /\ Len(k) = Len(j) + 1 /\ IsFiniteSet(Answers(j))
  BY OrderlyLength DEF Extends
<1>1. Owed(j, s) = {}
  <2>1. ASSUME NEW n \in Owed(j, s)
        PROVE  FALSE
    <3>1. n = Len(j) /\ n \in Answers(j) /\ n \in DOMAIN j
      BY DEF Balanced, Owed, Answers
    <3> QED
      BY <3>1 DEF Orderly, Paired
  <2> QED
    BY <2>1
<1>2. Owed(k, s) = {Len(k)}
  <2>1. ASSUME NEW n \in Answers(j)
        PROVE  n \notin Owed(k, s)
    <3>1. n \in DOMAIN j /\ n \notin Owed(j, s)
      BY <1>1 DEF Answers
    <3>2. k[n] = j[n]
      BY <3>1 DEF Extends
    <3> QED
      BY <3>1, <3>2 DEF Owed
  <2>2. Len(k) \in Owed(k, s)
    BY <1>0 DEF Owed, Extends
  <2>3. Owed(k, s) \subseteq Answers(k)
    BY DEF Owed
  <2> QED
    BY <2>1, <2>2, <2>3
<1>3. Cardinality(Owed(j, s)) = 0 /\ Cardinality(Owed(k, s)) = 1
  BY <1>1, <1>2, FS_EmptySet, FS_Singleton
<1>4. Cardinality(Answers(k)) = Cardinality(Answers(j)) + 1
  BY <1>0, FS_AddElement
<1>5. Cardinality(Answers(j)) = l.calls
  BY <1>3 DEF Balanced
<1> QED
  BY <1>2, <1>3, <1>4, <1>5 DEF Balanced

\* The receipt that is owed is charged.
LEMMA ChargedBalance ==
  ASSUME NEW j, NEW s, NEW l, NEW t, NEW m, Balanced(j, s, l), l.calls \in Nat, Owed(j, s) # {},
         Owed(j, t) = {}, m.calls = l.calls + 1
  PROVE  Balanced(j, t, m)
<1>1. Owed(j, s) = {Len(j)}
  BY DEF Balanced
<1>2. Cardinality(Owed(j, s)) = 1 /\ Cardinality(Owed(j, t)) = 0
  BY <1>1, FS_EmptySet, FS_Singleton
<1> QED
  BY <1>2 DEF Balanced

\* The intent of an action is the only one.
LEMMA TheIntent ==
  ASSUME Orderly(journal), NEW n \in DOMAIN journal \ Answers(journal)
  PROVE  /\ Newest(Of("intent", journal[n].id)) = n
         /\ Eldest(Of("intent", journal[n].id)) = n
<1>1. n \in Nat
  BY OrderlyLength
<1>2. journal[n].type = "intent"
  BY DEF Orderly, Named, Answers
<1>3. Of("intent", journal[n].id) = {n}
  <2>1. ASSUME NEW m \in Of("intent", journal[n].id)
        PROVE  m = n
    BY DEF Of, Orderly, Once, Answers
  <2> QED
    BY <1>2, <2>1 DEF Of
<1> QED
  BY <1>1, <1>3 DEF Newest, Eldest

\* A receipt answers the intent before it.
LEMMA TheReceipt ==
  ASSUME Orderly(journal), NEW m \in Answers(journal)
  PROVE  /\ m \in DOMAIN journal /\ m - 1 \in DOMAIN journal \ Answers(journal)
         /\ journal[m - 1].id = journal[m].id /\ journal[m - 1].cmd = journal[m].cmd
BY OrderlyLength DEF Orderly, Paired, Answers

\* When all actions are acknowledged the journal ends with a receipt, and the
\* history that is loaded has the signature of every intent.
LEMMA AllAcknowledged ==
  ASSUME Orderly(journal), Unacknowledged = {}
  PROVE  Len(journal) % 2 = 0
<1>1. Len(journal) \in Nat /\ DOMAIN journal = 1 .. Len(journal)
  BY OrderlyLength
<1> SUFFICES ASSUME Len(journal) % 2 = 1
             PROVE  FALSE
  BY <1>1
<1>2. Len(journal) \in DOMAIN journal
  BY <1>1
<1>3. Len(journal) \notin Answers(journal)
  BY <1>2 DEF Orderly, Paired
<1>4. PICK m \in Answers(journal) : journal[m].id = journal[Len(journal)].id
  BY <1>2, ZenonT(60) DEF Unacknowledged, Acknowledged, Of, Answers
<1>5. m - 1 = Len(journal)
  BY <1>2, <1>3, <1>4, TheReceipt DEF Orderly, Once
<1> QED
  BY <1>1, <1>5, OrderlyLength

LEMMA HistoryIsWhole ==
  ASSUME Orderly(journal), Unacknowledged = {}, NEW prev, NEW n \in DOMAIN journal \ Answers(journal)
  PROVE  Commanded(journal, n) \in LoadActionHistory(prev)
<1>1. /\ Len(journal) \in Nat /\ DOMAIN journal = 1 .. Len(journal) /\ Len(journal) % 2 = 0
      /\ n \in 1 .. Len(journal)
  BY OrderlyLength, AllAcknowledged
<1>2. n % 2 = 1
  BY <1>1 DEF Orderly, Paired
<1>3. n + 1 \in DOMAIN journal /\ (n + 1) % 2 = 0
  BY <1>1, <1>2
<1>4. n + 1 \in Answers(journal)
  BY <1>3 DEF Orderly, Paired
<1>5. journal[n + 1].id = journal[n].id /\ journal[n + 1].type = "receipt"
  <2>1. PICK m : m = n + 1
    OBVIOUS
  <2>2. m \in Answers(journal) /\ m - 1 = n
    BY <1>1, <1>4, <2>1
  <2> QED
    BY <2>1, <2>2, TheReceipt DEF Answers
<1>6. Newest(Of("intent", journal[n + 1].id)) = n
  BY <1>5, TheIntent
<1> QED
  BY <1>3, <1>5, <1>6 DEF LoadActionHistory, SignatureOf, Commanded

\* What the saved state knows of a longer journal.
LEMMA ButLastGrows ==
  ASSUME NEW j, NEW k, NEW x, Extends(k, j, x), Len(j) % 2 = 0, NEW s, NumberedButLast(j, s)
  PROVE  NumberedButLast(k, s)
<1>0. /\ Len(j) \in Nat /\ DOMAIN j = 1 .. Len(j) /\ DOMAIN k = 1 .. Len(j) + 1 /\ Len(k) = Len(j) + 1
      /\ \A n \in 1 .. Len(j) : k[n] = j[n]
  BY DEF Extends
<1>1. ASSUME NEW n \in DOMAIN k
      PROVE  Known(k, s, n) \/ (n = Len(k) /\ n % 2 = 1)
  <2>1. CASE n = Len(k)
    BY <1>0, <2>1
  <2>2. CASE n \in DOMAIN j
    <3>1. n % 2 = 1 => n # Len(j)
      BY <1>0
    <3>2. Known(j, s, n)
      BY <2>2, <3>1 DEF NumberedButLast
    <3> QED
      BY <1>0, <2>2, <3>2 DEF Known
  <2> QED
    BY <1>0, <1>1, <2>1, <2>2
<1> QED
  BY <1>1 DEF NumberedButLast

LEMMA NumberedExtends ==
  ASSUME NEW j, NEW k, NEW x, Extends(k, j, x), NEW s, Numbered(j, s),
         x.id \in {InventoryId, s.pendingAction}
  PROVE  Numbered(k, s)
<1>0. /\ Len(j) \in Nat /\ DOMAIN j = 1 .. Len(j) /\ DOMAIN k = 1 .. Len(j) + 1
      /\ (\A n \in 1 .. Len(j) : k[n] = j[n]) /\ k[Len(j) + 1] = x
  BY DEF Extends
<1> QED
  BY <1>0 DEF Numbered, Known

LEMMA RememberedExtends ==
  ASSUME NEW j, NEW k, NEW x, Extends(k, j, x), NEW s, NEW seen, Remembered(j, s, seen),
         x.type = "receipt" \/ x.id \in {InventoryId, s.pendingAction}
  PROVE  Remembered(k, s, seen)
<1>0. /\ Len(j) \in Nat /\ DOMAIN j = 1 .. Len(j) /\ DOMAIN k = 1 .. Len(j) + 1
      /\ (\A n \in 1 .. Len(j) : k[n] = j[n]) /\ k[Len(j) + 1] = x
  BY DEF Extends
<1>1. ASSUME NEW n \in DOMAIN k \ Answers(k)
      PROVE  k[n].id \in {InventoryId, s.pendingAction} \/ Commanded(k, n) \in seen
  <2>1. CASE n \in DOMAIN j
    <3>1. n \notin Answers(j) /\ k[n] = j[n]
      BY <1>0, <1>1, <2>1 DEF Answers
    <3> QED
      BY <2>1, <3>1 DEF Remembered, Commanded
  <2>2. CASE n = Len(j) + 1
    BY <1>0, <1>1, <2>2 DEF Answers
  <2> QED
    BY <1>0, <1>1, <2>1, <2>2
<1> QED
  BY <1>1 DEF Remembered

-----------------------------------------------------------------------------
\* An entry is appended to the journal: what is told of the past stays told.
LEMMA ToldStays ==
  ASSUME Honest, NEW x, Extends(journal', journal, x), summary' = summary
  PROVE  Told'
BY PassedStays DEF Honest, Told

\* The harness intends its inventory.
LEMMA InventoryIntentKeeps ==
  ASSUME Ready, InventoryIntent
  PROVE  Honest'
<1>1. PICK x : x = Intent(InventoryId, Inventory, ws)
  OBVIOUS
<1>2. /\ x.type = "intent" /\ x.id = InventoryId /\ x.cmd = Inventory
      /\ journal' = Append(journal, x) /\ pc = "inventory" /\ pc' = "inventoryRuns"
      /\ mem' = mem /\ ledger' = ledger /\ loc' = loc /\ ws' = ws /\ ckpt' = ckpt /\ summary' = summary
      /\ starts' = starts /\ ~mem.inventoried
  BY <1>1 DEF InventoryIntent, Intent
<1>3. /\ Places /\ Len(journal) % 2 = 0 /\ Orderly(journal)
      /\ Numbered(journal, mem) /\ Remembered(journal, mem, loc.seen)
      /\ Balanced(journal, mem, ledger) /\ Proven(journal, mem.tested)
  BY <1>2, Live DEF Ready, Honest, Alive, Waiting
<1>4. Extends(journal', journal, x) /\ (\E S : journal' \in Seq(S))
  BY <1>2, <1>3, AppendExtends DEF Orderly
<1>5. WithInventory /\ ckpt.state = mem /\ mem.pendingAction = NoAction
  BY <1>2, <1>3 DEF Places, Placed, Synced, Looking, AtWork
<1>6. ~Acknowledged(InventoryId)
  BY DEF InventoryIntent, InventoryKnown
<1>7. \A n \in Answers(journal) : journal[n].id # InventoryId
  BY <1>6 DEF Acknowledged, Of, Answers
<1>8. ASSUME NEW n \in DOMAIN journal \ Answers(journal)
      PROVE  journal[n].id # InventoryId /\ Commanded(journal, n) # Signature(Inventory, x.version)
  <2>1. n + 1 \in Answers(journal)
    <3>1. Len(journal) \in Nat /\ DOMAIN journal = 1 .. Len(journal) /\ n \in 1 .. Len(journal)
      BY <1>3, OrderlyLength
    <3>2. n % 2 = 1
      BY <1>3, <3>1 DEF Orderly, Paired
    <3>3. n + 1 \in DOMAIN journal /\ (n + 1) % 2 = 0
      BY <1>3, <3>1, <3>2
    <3> QED
      BY <1>3, <3>3 DEF Orderly, Paired
  <2>2. journal[n].id # InventoryId
    <3>1. PICK m : m = n + 1
      OBVIOUS
    <3>2. m \in Answers(journal) /\ m - 1 = n
      BY <1>3, <2>1, <3>1, OrderlyLength
    <3> QED
      BY <1>3, <1>7, <3>2, TheReceipt
  <2>3. journal[n].cmd \in Commands
    BY <1>3, <2>2 DEF Orderly, Named
  <2> QED
    BY <2>2, <2>3, AgentRuntimeAssumption DEF Commanded, Signature
<1>9. Orderly(journal') /\ Answers(journal') = Answers(journal) /\ Len(journal') % 2 = 1
  BY <1>2, <1>3, <1>4, <1>5, <1>8, IntentAppended
<1>10. Owed(journal, mem) = {}
  <2>1. \A n \in Answers(journal) : journal[n].id # NoAction
    BY <1>3, IdsAreNumbers DEF Answers
  <2> QED
    BY <1>5, <1>7, <2>1 DEF Owed
<1>11. /\ Numbered(journal', mem) /\ Remembered(journal', mem, loc.seen)
       /\ Balanced(journal', mem, ledger) /\ Proven(journal', mem.tested)
  BY <1>2, <1>3, <1>4, <1>9, <1>10, NumberedExtends, RememberedExtends, IntentBalance, ProvenStays
<1>12. Placed'
  <2>1. journal' # <<>> /\ Current' = x
    BY <1>2, AppendTyping DEF Ready
  <2> QED
    BY <1>2, <1>3, <1>9, <2>1 DEF Places, Placed, Waiting, AtWork, Looking, Looping
<1>13. Certain'
  BY <1>2, <1>3 DEF Places, Certain, Patched
<1>14. Alive'
  BY <1>2, <1>11, <1>12, <1>13 DEF Alive
<1>15. Saved'
  <2>1. ASSUME ckpt # None
        PROVE  Sound(journal', ckpt.state) /\ Balanced(journal', ckpt.state, ckpt.ledger)
    <3>1. Sound(journal, ckpt.state) /\ Balanced(journal, ckpt.state, ckpt.ledger)
      BY <2>1 DEF Ready, Honest, Saved
    <3>2. Sound(journal', ckpt.state)
      BY <1>3, <1>4, <3>1, ButLastGrows, ProvenStays DEF Sound
    <3>3. Balanced(journal', ckpt.state, ckpt.ledger)
      BY <1>4, <1>5, <1>9, <1>10, <3>1, IntentBalance
    <3> QED
      BY <3>2, <3>3
  <2>2. Synced'
    BY <1>2, <1>3 DEF Places, Synced, Looking, Looping
  <2> QED
    BY <1>2, <2>1, <2>2 DEF Saved
<1>16. Told'
  BY <1>2, <1>4, ToldStays DEF Ready
<1>17. Begun'
  BY <1>2 DEF Begun, Ready, Honest
<1> QED
  BY <1>9, <1>14, <1>15, <1>16, <1>17 DEF Honest

\* A command is intended that has not run on this version.
LEMMA ToolIntentKeeps ==
  ASSUME Ready, NEW c \in Commands, ToolIntent(c)
  PROVE  Honest'
<1>1. PICK x : x = Intent(mem.step, c, ws)
  OBVIOUS
<1>2. /\ x.type = "intent" /\ x.id = mem.step /\ x.cmd = c /\ x.version = ws
      /\ journal' = Append(journal, x) /\ pc = "act" /\ pc' = "intent"
      /\ mem' = [mem EXCEPT !.pendingAction = mem.step]
      /\ ledger' = ledger /\ loc' = loc /\ ws' = ws /\ ckpt' = ckpt /\ summary' = summary
      /\ starts' = starts /\ Signature(c, ws) \notin loc.seen
  BY <1>1 DEF ToolIntent, Intent, RunsTool, AsksFor, Repeats
<1>3. /\ Places /\ Len(journal) % 2 = 0 /\ Orderly(journal) /\ StateLike(mem)
      /\ Numbered(journal, mem) /\ Remembered(journal, mem, loc.seen)
      /\ Balanced(journal, mem, ledger) /\ Proven(journal, mem.tested)
  BY <1>2, Live DEF Ready, Honest, Alive, Waiting
<1>4. Extends(journal', journal, x) /\ (\E S : journal' \in Seq(S))
  BY <1>2, <1>3, AppendExtends DEF Orderly
<1>5. /\ mem.pendingAction = NoAction /\ mem.nextStep = mem.step /\ mem.step \in Steps
      /\ mem.step \in Nat /\ mem.step # InventoryId
      /\ (WithInventory => mem.inventoried)
      /\ ckpt.state.pendingAction = NoAction /\ (WithInventory => ckpt.state.inventoried)
  <2>1. /\ mem.pendingAction = NoAction /\ mem.nextStep = mem.step /\ mem.step \in Steps
        /\ (WithInventory => mem.inventoried)
        /\ ckpt.state.pendingAction = NoAction /\ (WithInventory => ckpt.state.inventoried)
    BY <1>2, <1>3 DEF Places, Placed, Synced, AtWork, Looping
  <2>2. mem.step \in Nat /\ mem.step # InventoryId
    BY <2>1, AgentRuntimeAssumption DEF Steps, InventoryId
  <2> QED
    BY <2>1, <2>2
<1>6. mem' = [mem EXCEPT !.pendingAction = mem.step] /\ mem'.pendingAction = mem.step /\ mem'.step = mem.step
      /\ mem'.nextStep = mem.nextStep /\ mem'.tested = mem.tested /\ mem'.inventoried = mem.inventoried
      /\ mem'.status = mem.status
  BY <1>2, <1>3 DEF StateLike, Fields
<1>7. \A n \in DOMAIN journal : journal[n].id # mem.step
  <2>1. ASSUME NEW n \in DOMAIN journal
        PROVE  journal[n].id # mem.step
    <3>1. journal[n].id < mem.step \/ journal[n].id \in {InventoryId, NoAction}
      BY <1>3, <1>5 DEF Numbered, Known
    <3>2. journal[n].id \in Nat /\ journal[n].id # NoAction
      BY <1>3, IdsAreNumbers
    <3> QED
      BY <1>5, <3>1, <3>2
  <2> QED
    BY <2>1
<1>8. ASSUME NEW n \in DOMAIN journal \ Answers(journal)
      PROVE  Commanded(journal, n) # Signature(c, ws)
  <2>1. CASE journal[n].id = InventoryId
    <3>1. journal[n].cmd = Inventory
      BY <1>3, <2>1, AgentRuntimeAssumption DEF Orderly, Named, Steps, InventoryId
    <3> QED
      BY <3>1, AgentRuntimeAssumption DEF Commanded, Signature
  <2>2. CASE journal[n].id # InventoryId
    <3>1. journal[n].id # NoAction
      BY <1>3, IdsAreNumbers
    <3> QED
      BY <1>2, <1>3, <1>5, <2>2, <3>1 DEF Remembered
  <2> QED
    BY <2>1, <2>2
<1>9. Orderly(journal') /\ Answers(journal') = Answers(journal) /\ Len(journal') % 2 = 1
  <2>1. \A n \in DOMAIN journal \ Answers(journal) :
          journal[n].id # x.id /\ Commanded(journal, n) # Signature(x.cmd, x.version)
    BY <1>2, <1>7, <1>8
  <2>2. x.id \in Steps /\ x.cmd \in Commands
    BY <1>2, <1>5
  <2> QED
    BY <1>2, <1>3, <1>4, <2>1, <2>2, IntentAppended
<1>10. Owed(journal, mem) = {} /\ Owed(journal, mem') = {} /\ Owed(journal, ckpt.state) = {}
  <2>1. Owed(journal, mem) = {} /\ Owed(journal, ckpt.state) = {}
    BY <1>3, <1>5, OwedNothing
  <2>2. Owed(journal, mem') \subseteq Owed(journal, mem)
    BY <1>6, <1>7 DEF Owed, Answers
  <2> QED
    BY <2>1, <2>2
<1>11. Numbered(journal, mem') /\ Remembered(journal, mem', loc.seen) /\ Balanced(journal, mem', ledger)
  <2>1. Numbered(journal, mem') /\ Remembered(journal, mem', loc.seen)
    <3>1. \A n \in DOMAIN journal : journal[n].id # NoAction
      BY <1>3, IdsAreNumbers
    <3> QED
      BY <1>3, <1>5, <1>6, <3>1 DEF Numbered, Known, Remembered
  <2>2. Balanced(journal, mem', ledger)
    BY <1>3, <1>10 DEF Balanced
  <2> QED
    BY <2>1, <2>2
<1>12. Numbered(journal', mem') /\ Remembered(journal', mem', loc.seen) /\ Balanced(journal', mem', ledger)
  BY <1>2, <1>4, <1>6, <1>9, <1>10, <1>11, NumberedExtends, RememberedExtends, IntentBalance
<1>13. Proven(journal', mem'.tested)
  BY <1>3, <1>4, <1>6, ProvenStays
<1>14. Placed'
  <2>1. journal' # <<>> /\ Current' = x
    BY <1>2, AppendTyping DEF Ready
  <2> QED
    BY <1>2, <1>3, <1>5, <1>6, <1>9, <2>1 DEF Places, Placed, Waiting, AtWork, Looking, Looping
<1>15. Certain'
  BY <1>2, <1>3, <1>6 DEF Places, Certain, Patched
<1>16. Alive'
  BY <1>2, <1>12, <1>13, <1>14, <1>15 DEF Alive
<1>17. Saved'
  <2>1. ASSUME ckpt # None
        PROVE  Sound(journal', ckpt.state) /\ Balanced(journal', ckpt.state, ckpt.ledger)
    <3>1. Sound(journal, ckpt.state) /\ Balanced(journal, ckpt.state, ckpt.ledger)
      BY <2>1 DEF Ready, Honest, Saved
    <3>2. Sound(journal', ckpt.state)
      BY <1>3, <1>4, <3>1, ButLastGrows, ProvenStays DEF Sound
    <3>3. Balanced(journal', ckpt.state, ckpt.ledger)
      BY <1>4, <1>9, <1>10, <3>1, IntentBalance
    <3> QED
      BY <3>2, <3>3
  <2>2. Synced'
    BY <1>2, <1>5 DEF Synced, Looking, Looping
  <2> QED
    BY <1>2, <2>1, <2>2 DEF Saved
<1>18. Told'
  BY <1>2, <1>4, ToldStays DEF Ready
<1>19. Begun'
  BY <1>2 DEF Begun, Ready, Honest
<1> QED
  BY <1>9, <1>16, <1>17, <1>18, <1>19 DEF Honest

\* The tool runs and its receipt is appended.
LEMMA ToolRunsKeeps ==
  ASSUME Ready, NEW result, NEW v, NEW d, ToolRuns(result, v, d)
  PROVE  Honest'
<1>1. PICK x : x = Receipt(Current.id, Current.cmd, v, result, d)
  OBVIOUS
<1>2. /\ x.type = "receipt" /\ x.id = Current.id /\ x.cmd = Current.cmd
      /\ journal' = Append(journal, x) /\ ws' \in Effects(Current.cmd)
      /\ \/ pc = "toolRuns" /\ pc' = "receipt"
         \/ pc = "inventoryRuns" /\ pc' = "inventoryReceipt"
      /\ mem' = mem /\ ledger' = ledger /\ loc' = loc /\ ckpt' = ckpt /\ summary' = summary
      /\ starts' = starts
  BY <1>1 DEF ToolRuns, Receipt, Running
<1>3. /\ Places /\ Len(journal) % 2 = 1 /\ Orderly(journal)
      /\ Numbered(journal, mem) /\ Remembered(journal, mem, loc.seen)
      /\ Balanced(journal, mem, ledger) /\ Proven(journal, mem.tested)
  BY <1>2, Live DEF Ready, Honest, Alive, Waiting
<1>4. Extends(journal', journal, x) /\ (\E S : journal' \in Seq(S))
  BY <1>2, <1>3, AppendExtends DEF Orderly
<1>5. Orderly(journal') /\ Answers(journal') = Answers(journal) \cup {Len(journal')}
      /\ Len(journal') \notin Answers(journal) /\ Len(journal') % 2 = 0
  BY <1>2, <1>3, <1>4, ReceiptAppended DEF Current
<1>6. ckpt.state = mem
  BY <1>2, <1>3 DEF Places, Synced, Looking
<1>7. /\ x.id \in {InventoryId, mem.pendingAction}
      /\ x.id = mem.pendingAction \/ (x.id = InventoryId /\ ~mem.inventoried)
      /\ pc = "inventoryRuns" => Current.id = InventoryId
  BY <1>2, <1>3 DEF Places, Placed, AtWork
<1>8. ledger.calls \in Nat /\ (ckpt # None => ckpt.ledger.calls \in Nat)
  BY DEF Ready, Accounts, Money, Spent
<1>9. /\ Numbered(journal', mem) /\ Remembered(journal', mem, loc.seen)
      /\ Balanced(journal', mem, ledger) /\ Proven(journal', mem.tested)
  BY <1>2, <1>3, <1>4, <1>5, <1>7, <1>8, NumberedExtends, RememberedExtends, ReceiptBalance, ProvenStays
<1>10. Placed'
  <2>1. journal' # <<>> /\ Current' = x
    BY <1>2, AppendTyping DEF Ready
  <2> QED
    BY <1>2, <1>3, <1>5, <2>1 DEF Places, Placed, Waiting, AtWork, Looking, Looping
<1>11. Certain'
  <2>1. CASE pc = "toolRuns"
    BY <1>2, <1>3, <2>1 DEF Places, Certain
  <2>2. CASE pc = "inventoryRuns"
    <3>1. Current.cmd = Inventory
      <4>1. Len(journal) \in DOMAIN journal
        BY <1>3, OrderlyLength
      <4> QED
        BY <1>3, <1>7, <2>2, <4>1, AgentRuntimeAssumption DEF Current, Orderly, Named, Steps, InventoryId
    <3>2. ws' = ws
      BY <1>2, <3>1 DEF Effects, Observations
    <3> QED
      BY <1>2, <1>3, <2>2, <3>2 DEF Places, Certain, Patched
  <2> QED
    BY <1>2, <2>1, <2>2
<1>12. Alive'
  BY <1>2, <1>9, <1>10, <1>11 DEF Alive
<1>13. Saved'
  <2>1. ASSUME ckpt # None
        PROVE  Sound(journal', ckpt.state) /\ Balanced(journal', ckpt.state, ckpt.ledger)
    <3>1. Sound(journal, ckpt.state) /\ Balanced(journal, ckpt.state, ckpt.ledger)
      BY <2>1 DEF Ready, Honest, Saved
    <3>2. Sound(journal', ckpt.state)
      BY <1>6, <1>9, <3>1 DEF Sound, Numbered, NumberedButLast
    <3>3. Balanced(journal', ckpt.state, ckpt.ledger)
      BY <1>3, <1>4, <1>5, <1>6, <1>7, <1>8, <2>1, <3>1, ReceiptBalance
    <3> QED
      BY <3>2, <3>3
  <2>2. Synced'
    BY <1>2, <1>6 DEF Synced, Looking, Looping
  <2> QED
    BY <1>2, <2>1, <2>2 DEF Saved
<1>14. Told'
  BY <1>2, <1>4, ToldStays DEF Ready
<1>15. Begun'
  BY <1>2 DEF Begun, Ready, Honest
<1> QED
  BY <1>5, <1>12, <1>13, <1>14, <1>15 DEF Honest

-----------------------------------------------------------------------------
\* The receipt of the inventory is charged, once.
LEMMA InventoryAttachedKeeps ==
  ASSUME Ready, InventoryAttached
  PROVE  Honest'
<1>0. /\ pc = "inventoryReceipt" /\ loc' = loc /\ ws' = ws /\ ckpt' = ckpt /\ journal' = journal
      /\ summary' = summary /\ starts' = starts
  BY DEF InventoryAttached
<1>1. /\ Places /\ Len(journal) % 2 = 0 /\ Orderly(journal) /\ StateLike(mem) /\ mem.step \in Nat
      /\ mem.nextStep \in Nat /\ Numbered(journal, mem) /\ Remembered(journal, mem, loc.seen)
      /\ Balanced(journal, mem, ledger) /\ Proven(journal, mem.tested) /\ mem.status # "completed"
      /\ mem.pendingAction = NoAction
  BY <1>0, Live DEF Ready, Honest, Alive, Waiting, Places, Certain, Placed, AtWork
<1>2. PICK r : r = journal[Newest(Of("receipt", InventoryId))]
  OBVIOUS
<1>3. PICK l : l = IF mem.inventoried THEN ledger ELSE Plus(ledger, 0, r.secs, 1)
  OBVIOUS
<1>4. CASE mem' = [mem EXCEPT !.status = "blocked"] /\ pc' = "final" /\ ledger' = ledger
  <2>1. Onward(mem, mem)
    BY <1>0, StaysOnward
  <2>2. Drifts
    BY <1>0, <1>1, <1>4, <2>1, EndDrifts DEF AtWork
  <2> QED
    BY <1>0, <1>4, <2>2, DriftKeeps DEF Drifts, Ready
<1>5. ASSUME NEW y, mem' = [mem EXCEPT !.inventoried = TRUE, !.status = y], y \in {"cancelled", mem.status},
             pc' = "inventorySaves", ledger' = l
      PROVE  Honest'
  <2>1. /\ mem'.step = mem.step /\ mem'.nextStep = mem.nextStep /\ mem'.pendingAction = NoAction
        /\ mem'.tested = mem.tested /\ mem'.inventoried = TRUE /\ mem'.status \in {"cancelled", mem.status}
    BY <1>1, <1>5 DEF StateLike, Fields
  <2>2. Numbered(journal, mem') /\ Remembered(journal, mem', loc.seen) /\ Proven(journal, mem'.tested)
    BY <1>1, <2>1 DEF Numbered, Known, Remembered
  <2>3. Balanced(journal, mem', ledger')
    <3>1. Owed(journal, mem') = {}
      BY <1>1, <2>1, OwedNothing
    <3>2. CASE mem.inventoried
      <4>1. Owed(journal, mem) = {}
        BY <1>1, <3>2, OwedNothing
      <4> QED
        BY <1>1, <1>3, <1>5, <3>1, <3>2, <4>1 DEF Balanced
    <3>3. CASE ~mem.inventoried
      <4>1. Owed(journal, mem) # {}
        BY <1>0, <3>3 DEF Ready, Accounts, Journalled, Acknowledged, Of, Owed, Answers
      <4>2. ledger \in Spent /\ ledger.calls \in Nat
        BY DEF Ready, Accounts, Money, Spent
      <4>3. ledger' = Plus(ledger, 0, r.secs, 1)
        BY <1>3, <1>5, <3>3
      <4>4. ledger'.calls = ledger.calls + 1
        BY <4>2, <4>3, PlusCalls
      <4> QED
        BY <1>1, <3>1, <4>1, <4>2, <4>4, ChargedBalance
    <3> QED
      BY <3>2, <3>3
  <2>4. Placed'
    BY <1>0, <1>1, <1>5, <2>1 DEF Places, Placed, Waiting, AtWork, Looking, Looping
  <2>5. Certain'
    BY <1>0, <1>1, <1>5, <2>1 DEF Places, Certain, Patched
  <2>6. Alive'
    BY <1>0, <2>2, <2>3, <2>4, <2>5 DEF Alive
  <2>7. Saved'
    BY <1>0, <1>5 DEF Ready, Honest, Saved, Synced, Looking, Looping
  <2> QED
    BY <1>0, <1>5, <2>6, <2>7 DEF Ready, Honest, Told, Begun
<1>6. CASE /\ mem' = [mem EXCEPT !.inventoried = TRUE,
                                 !.status = IF r.result = "cancelled" THEN "cancelled" ELSE @]
           /\ pc' = "inventorySaves" /\ ledger' = l
  BY <1>5, <1>6
<1> QED
  BY <1>2, <1>3, <1>4, <1>6 DEF InventoryAttached, EndWith

\* The receipt of a tool is charged and its signature remembered; a test that
\* passed is about the patch it ran on.
LEMMA ToolSettledKeeps ==
  ASSUME Ready, NEW e \in Durations, ToolSettled(e)
  PROVE  Honest'
<1>0. /\ pc = "receipt" /\ pc' = "settled" /\ ws' = ws /\ ckpt' = ckpt /\ journal' = journal
      /\ summary' = summary /\ starts' = starts /\ ledger' = Plus(ledger, 0, e, 1)
  BY DEF ToolSettled
<1>1. /\ Places /\ Len(journal) % 2 = 0 /\ Orderly(journal) /\ StateLike(mem) /\ mem.step \in Nat
      /\ mem.nextStep \in Nat /\ Numbered(journal, mem) /\ Remembered(journal, mem, loc.seen)
      /\ Balanced(journal, mem, ledger) /\ Proven(journal, mem.tested) /\ mem.status # "completed"
  BY <1>0, Live DEF Ready, Honest, Alive, Waiting, Places, Certain
<1>2. /\ mem.pendingAction = mem.step /\ mem.nextStep = mem.step /\ journal # <<>>
      /\ Current.id = mem.step /\ (WithInventory => mem.inventoried)
  BY <1>0, <1>1 DEF Places, Placed, AtWork
<1>3. PICK m : m = Len(journal)
  OBVIOUS
<1>4. m \in Answers(journal) /\ Current = journal[m]
  <2>1. m \in Nat /\ DOMAIN journal = 1 .. m /\ m # 0
    BY <1>1, <1>2, <1>3, OrderlyLength DEF Orderly
  <2> QED
    BY <1>1, <1>3, <2>1 DEF Orderly, Paired, Current
<1>5. PICK i : i = journal[Newest(Of("intent", mem.step))]
  OBVIOUS
<1>6. i = journal[m - 1] /\ i.cmd = Current.cmd /\ m - 1 \in DOMAIN journal \ Answers(journal)
      /\ journal[m - 1].id = mem.step
  <2>1. /\ m - 1 \in DOMAIN journal \ Answers(journal) /\ journal[m - 1].id = mem.step
        /\ journal[m - 1].cmd = Current.cmd
    BY <1>1, <1>2, <1>4, TheReceipt
  <2>2. PICK n : n = m - 1
    OBVIOUS
  <2>3. Newest(Of("intent", mem.step)) = n
    BY <1>1, <2>1, <2>2, TheIntent
  <2> QED
    BY <1>5, <2>1, <2>2, <2>3
<1>7. PICK tested : tested = IF PassingTest(i, Current) THEN Patch(i.version) ELSE mem.tested
  OBVIOUS
<1>8. PICK again : again = IF SignatureOf(i) = mem.previous THEN mem.repeated + 1 ELSE 0
  OBVIOUS
<1>9. PICK counted : counted = Counted(Consumed(mem), i.cmd, Current, i.version)
  OBVIOUS
<1>10. PICK s : s = [counted EXCEPT !.pendingAction = NoAction, !.tested = tested,
                                    !.previous = SignatureOf(i), !.repeated = again]
  OBVIOUS
<1>11. /\ mem' = [s EXCEPT !.status = IF Current.result = "cancelled" THEN "cancelled"
                                      ELSE IF EditsExhausted(s) \/ again >= 2 THEN "failed" ELSE @]
       /\ loc' = [loc EXCEPT !.seen = @ \cup {SignatureOf(i)}, !.visible = Visible(tested, ws)]
  BY <1>5, <1>7, <1>8, <1>9, <1>10 DEF ToolSettled
<1>12. /\ counted.step = mem.step /\ counted.nextStep = mem.step + 1
       /\ counted.inventoried = mem.inventoried /\ counted.status = mem.status /\ StateLike(counted)
  <2>1. StateLike(Consumed(mem))
    BY <1>1, StateForms
  <2>2. Kept(Consumed(mem), counted) /\ counted.status = Consumed(mem).status /\ StateLike(counted)
    BY <1>9, <2>1, CountedKeeps, StateForms
  <2> QED
    BY <1>1, <2>2, ConsumedMoves DEF Kept
<1>13. /\ s.step = mem.step /\ s.nextStep = mem.step + 1 /\ s.pendingAction = NoAction
       /\ s.tested = tested /\ s.inventoried = mem.inventoried /\ s.status = mem.status /\ StateLike(s)
  <2>1. StateLike(s)
    BY <1>10, <1>12 DEF StateLike, Fields
  <2>2. s.step = mem.step /\ s.nextStep = mem.step + 1 /\ s.pendingAction = NoAction
    BY <1>10, <1>12 DEF StateLike, Fields
  <2>3. s.tested = tested /\ s.inventoried = mem.inventoried /\ s.status = mem.status
    BY <1>10, <1>12 DEF StateLike, Fields
  <2> QED
    BY <2>1, <2>2, <2>3
<1>14. PICK y : mem' = [s EXCEPT !.status = y] /\ y \in {"cancelled", "failed", mem.status}
  BY <1>11, <1>13
<1>15. /\ mem'.step = mem.step /\ mem'.nextStep = mem.step + 1 /\ mem'.pendingAction = NoAction
       /\ mem'.tested = tested /\ mem'.inventoried = mem.inventoried /\ mem'.status # "completed"
  <2>1. Kept(s, mem') /\ mem'.status = y
    BY <1>13, <1>14, StatusKeeps
  <2> QED
    BY <1>1, <1>13, <1>14, <2>1 DEF Kept
<1>16. /\ loc.seen \subseteq loc'.seen /\ SignatureOf(i) \in loc'.seen
       /\ loc'.visible = Visible(tested, ws) /\ DOMAIN loc' = DOMAIN loc
  <2>1. "seen" \in DOMAIN loc /\ "visible" \in DOMAIN loc
    BY DEF Ready, Honest, Begun
  <2> QED
    BY <1>11, <2>1
<1>17. Numbered(journal, mem')
  BY <1>1, <1>2, <1>15, NumberedGrows
<1>18. Remembered(journal, mem', loc'.seen)
  <2>1. ASSUME NEW n \in DOMAIN journal \ Answers(journal), journal[n].id # InventoryId
        PROVE  Commanded(journal, n) \in loc'.seen
    <3>1. CASE journal[n].id = mem.step
      <4>1. n = m - 1
        BY <1>1, <1>6, <2>1, <3>1 DEF Orderly, Once
      <4> QED
        BY <1>6, <1>16, <4>1 DEF Commanded, SignatureOf
    <3>2. CASE journal[n].id # mem.step
      BY <1>1, <1>2, <1>16, <2>1, <3>2 DEF Remembered
    <3> QED
      BY <3>1, <3>2
  <2> QED
    BY <2>1 DEF Remembered
<1>19. Balanced(journal, mem', ledger')
  <2>1. Owed(journal, mem') = {}
    BY <1>1, <1>2, <1>15, OwedNothing
  <2>2. Owed(journal, mem) # {}
    BY <1>2, <1>4 DEF Owed
  <2>3. ledger \in Spent /\ ledger.calls \in Nat
    BY DEF Ready, Accounts, Money, Spent
  <2>4. ledger'.calls = ledger.calls + 1
    BY <1>0, <2>3, PlusCalls
  <2> QED
    BY <1>1, <2>1, <2>2, <2>3, <2>4, ChargedBalance
<1>20. Proven(journal, mem'.tested)
  <2>1. CASE PassingTest(i, Current)
    BY <1>4, <1>6, <1>7, <1>15, <2>1 DEF PassingTest, Proven, PassedIn
  <2>2. CASE ~PassingTest(i, Current)
    BY <1>1, <1>7, <1>15, <2>2
  <2> QED
    BY <2>1, <2>2
<1>21. Placed'
  BY <1>0, <1>1, <1>2, <1>15 DEF Placed, Waiting, AtWork, Looking, Looping
<1>22. Certain'
  BY <1>0, <1>15, <1>16 DEF Certain, Visible
<1>23. Alive'
  BY <1>0, <1>17, <1>18, <1>19, <1>20, <1>21, <1>22 DEF Alive
<1>24. Saved'
  BY <1>0 DEF Ready, Honest, Saved, Synced, Looking, Looping
<1> QED
  BY <1>0, <1>16, <1>23, <1>24 DEF Ready, Honest, Told, Begun

-----------------------------------------------------------------------------
\* The first process finds nothing.
LEMMA StartKeeps ==
  ASSUME Ready, Start
  PROVE  Honest'
<1>1. /\ pc = "off" /\ pc' = "first" /\ starts' = 1 /\ mem' = mem /\ loc' = loc /\ ws' = ws
      /\ ckpt' = ckpt /\ journal' = journal /\ summary' = summary /\ starts = 0
      /\ \E limit \in ToolLimits : ledger' = NewLedger(limit)
  BY DEF Start, records
<1>2. /\ ckpt = None /\ journal = <<>> /\ mem = NewState /\ loc = NoLocals
  BY <1>1 DEF Ready, Honest, Begun
<1>3. /\ mem'.step = 0 /\ mem'.nextStep = 0 /\ mem'.pendingAction = NoAction /\ mem'.tested = None
      /\ mem'.inventoried = FALSE /\ mem'.status = "running" /\ loc'.visible = FALSE /\ loc'.seen = {}
  BY <1>1, <1>2 DEF NewState, NoLocals
<1>4. ledger'.calls = 0
  BY <1>1 DEF NewLedger
<1>5. DOMAIN journal = {} /\ Len(journal) = 0
  BY <1>2
<1>6. Answers(journal) = {} /\ Owed(journal, mem') = {}
  BY <1>5 DEF Answers, Owed
<1>7. Balanced(journal, mem', ledger')
  BY <1>4, <1>6, FS_EmptySet DEF Balanced
<1>8. Numbered(journal, mem') /\ Remembered(journal, mem', loc'.seen) /\ Proven(journal, mem'.tested)
  BY <1>3, <1>5 DEF Numbered, Remembered, Proven
<1>9. Placed' /\ Certain'
  BY <1>1, <1>3, <1>5 DEF Placed, Certain, Waiting, AtWork, Looking, Looping
<1>10. Saved'
  BY <1>1, <1>2 DEF Saved, Synced, Looking, Looping
<1> QED
  BY <1>1, <1>7, <1>8, <1>9, <1>10 DEF Ready, Honest, Alive, Told, Begun

\* What a later process finds: every intent has its receipt.
LEMMA ResumableIsSettled ==
  ASSUME Ready, Resumable
  PROVE  /\ pc = "off" /\ ckpt # None /\ Unacknowledged = {} /\ Orderly(journal)
         /\ Len(journal) % 2 = 0 /\ Numbered(journal, ckpt.state) /\ StateLike(ckpt.state)
         /\ Sound(journal, ckpt.state) /\ Balanced(journal, ckpt.state, ckpt.ledger)
<1>1. /\ pc = "off" /\ ckpt # None /\ Unacknowledged = {} /\ Orderly(journal) /\ StateLike(ckpt.state)
      /\ Sound(journal, ckpt.state) /\ Balanced(journal, ckpt.state, ckpt.ledger)
  BY DEF Resumable, Ready, Honest, Saved
<1>2. Len(journal) % 2 = 0
  BY <1>1, AllAcknowledged
<1>3. Numbered(journal, ckpt.state)
  <2>1. ASSUME NEW n \in DOMAIN journal
        PROVE  Known(journal, ckpt.state, n)
    BY <1>1, <1>2 DEF Sound, NumberedButLast
  <2> QED
    BY <2>1 DEF Numbered
<1> QED
  BY <1>1, <1>2, <1>3

\* The process goes on where the checkpoint says.
LEMMA ResumeKeeps ==
  ASSUME Ready, Resume
  PROVE  Honest'
<1>1. PICK s : s = ckpt.state
  OBVIOUS
<1>2. /\ pc' = "first" /\ mem' = [s EXCEPT !.status = "running"] /\ ledger' = ckpt.ledger
      /\ loc' = [seen |-> LoadActionHistory(s.previous), refused |-> log.refused,
                 visible |-> Visible(s.tested, ws)]
      /\ ws' = ws /\ ckpt' = ckpt /\ journal' = journal /\ summary' = summary
      /\ starts' = starts + 1 /\ s.pendingAction = NoAction /\ Resumable
  BY <1>1 DEF Resume, Restored, records
<1>3. /\ pc = "off" /\ ckpt # None /\ Unacknowledged = {} /\ Orderly(journal)
      /\ Len(journal) % 2 = 0 /\ Numbered(journal, s) /\ StateLike(s)
      /\ Sound(journal, s) /\ Balanced(journal, s, ckpt.ledger)
  BY <1>1, <1>2, ResumableIsSettled
<1>4. Kept(s, mem') /\ mem'.status = "running"
  BY <1>2, <1>3, StatusKeeps
<1>5. mem'.step \in Nat /\ mem'.nextStep \in Nat /\ mem'.pendingAction = NoAction /\ mem'.tested = s.tested
  BY <1>2, <1>3, <1>4 DEF Kept, Sound
<1>6. Numbered(journal, mem') /\ Proven(journal, mem'.tested)
  BY <1>3, <1>4 DEF Numbered, Known, Kept, Sound
<1>7. Balanced(journal, mem', ledger')
  BY <1>2, <1>3, <1>4, BalancedAlike DEF Kept
<1>8. Remembered(journal, mem', loc'.seen)
  <2>1. loc'.seen = LoadActionHistory(s.previous)
    BY <1>2
  <2> QED
    BY <1>3, <2>1, HistoryIsWhole DEF Remembered
<1>9. Placed'
  BY <1>2, <1>3, <1>5 DEF Placed, Waiting, AtWork, Looking, Looping
<1>10. Certain'
  <2>1. loc'.visible = Visible(s.tested, ws)
    BY <1>2
  <2> QED
    BY <1>2, <1>4, <1>5, <2>1 DEF Certain, Visible
<1>11. Alive'
  BY <1>2, <1>6, <1>7, <1>8, <1>9, <1>10 DEF Alive
<1>12. Saved'
  BY <1>2 DEF Ready, Honest, Saved, Synced, Looking, Looping
<1>13. Begun'
  <2>1. starts' # 0 /\ DOMAIN loc' = {"seen", "refused", "visible"}
    BY <1>2 DEF Ready, Accounts, Money
  <2> QED
    BY <1>2, <2>1 DEF Begun
<1> QED
  BY <1>2, <1>3, <1>11, <1>12, <1>13 DEF Ready, Honest, Told

\* The receipt of the outstanding tool is charged; nothing is called tested.
LEMMA RecoverKeeps ==
  ASSUME Ready, Recover
  PROVE  Honest'
<1>1. PICK s : s = ckpt.state
  OBVIOUS
<1>2. PICK i : i = journal[Eldest(Of("intent", s.pendingAction))]
  OBVIOUS
<1>3. PICK r : r = journal[Newest(Of("receipt", s.pendingAction))]
  OBVIOUS
<1>4. /\ pc' = "first"
      /\ mem' = [AfterRecovery(Counted(s, i.cmd, r, i.version)) EXCEPT !.status = "running"]
      /\ ledger' = Plus(ckpt.ledger, 0, r.secs, 1)
      /\ loc' = [seen |-> LoadActionHistory(s.previous) \cup {SignatureOf(i)},
                 refused |-> log.refused, visible |-> FALSE]
      /\ ws' = ws /\ ckpt' = ckpt /\ journal' = journal /\ summary' = summary
      /\ starts' = starts + 1 /\ s.pendingAction # NoAction /\ Resumable
      /\ Acknowledged(s.pendingAction)
  BY <1>1, <1>2, <1>3 DEF Recover, Restored, RecoveryCharge
<1>5. /\ pc = "off" /\ ckpt # None /\ Unacknowledged = {} /\ Orderly(journal)
      /\ Len(journal) % 2 = 0 /\ Numbered(journal, s) /\ StateLike(s)
      /\ Sound(journal, s) /\ Balanced(journal, s, ckpt.ledger)
  BY <1>1, <1>4, ResumableIsSettled
<1>6. s.step \in Nat /\ s.pendingAction = s.step /\ s.nextStep = s.step /\ s.step \in Steps
  BY <1>4, <1>5 DEF Sound
<1>7. /\ mem'.step = s.step /\ mem'.nextStep = s.step + 1 /\ mem'.pendingAction = NoAction
      /\ mem'.tested = None /\ mem'.inventoried = s.inventoried /\ mem'.status = "running"
  <2>1. PICK k : k = Counted(s, i.cmd, r, i.version)
    OBVIOUS
  <2>2. Kept(s, k) /\ StateLike(k)
    BY <1>5, <2>1, CountedKeeps, StateForms
  <2>3. PICK u : u = Consumed(k)
    OBVIOUS
  <2>4. u.step = s.step /\ u.nextStep = s.step + 1 /\ u.inventoried = s.inventoried /\ StateLike(u)
    BY <2>2, <2>3, ConsumedMoves, StateForms DEF Kept
  <2>5. PICK w : w = [u EXCEPT !.pendingAction = NoAction, !.tested = None]
    OBVIOUS
  <2>6. /\ w.step = s.step /\ w.nextStep = s.step + 1 /\ w.inventoried = s.inventoried
        /\ w.pendingAction = NoAction /\ w.tested = None /\ StateLike(w)
    BY <2>4, <2>5 DEF StateLike, Fields
  <2>7. mem' = [w EXCEPT !.status = "running"]
    BY <1>4, <2>1, <2>3, <2>5 DEF AfterRecovery
  <2> QED
    BY <2>6, <2>7, StatusKeeps DEF Kept
<1>8. Numbered(journal, mem')
  BY <1>5, <1>6, <1>7, NumberedGrows
<1>9. PICK m \in Answers(journal) : journal[m].id = s.pendingAction
  BY <1>4 DEF Acknowledged, Of, Answers
<1>10. Balanced(journal, mem', ledger')
  <2>1. Owed(journal, s) # {}
    BY <1>9 DEF Owed
  <2>2. Owed(journal, mem') = {}
    <3>1. Owed(journal, s) \subseteq {Len(journal)} /\ m \in Owed(journal, s)
      BY <1>5, <1>9 DEF Balanced, Owed
    <3>2. \A n \in Owed(journal, s) : journal[n].id = s.step
      BY <1>6, <1>9, <3>1
    <3>3. \A n \in Answers(journal) : journal[n].id # NoAction
      BY <1>5, IdsAreNumbers DEF Answers
    <3>4. s.step # InventoryId
      BY <1>6, AgentRuntimeAssumption DEF Steps, InventoryId
    <3> QED
      BY <1>7, <3>2, <3>3, <3>4 DEF Owed
  <2>3. ckpt.ledger \in Spent /\ ckpt.ledger.calls \in Nat
    BY <1>5 DEF Ready, Accounts, Money, Spent
  <2>4. ledger'.calls = ckpt.ledger.calls + 1
    BY <1>4, <2>3, PlusCalls
  <2> QED
    BY <1>5, <2>1, <2>2, <2>3, <2>4, ChargedBalance
<1>11. Remembered(journal, mem', loc'.seen)
  <2>1. LoadActionHistory(s.previous) \subseteq loc'.seen
    BY <1>4
  <2> QED
    BY <1>5, <2>1, HistoryIsWhole DEF Remembered
<1>12. Proven(journal, mem'.tested)
  BY <1>7 DEF Proven
<1>13. Placed'
  BY <1>4, <1>5, <1>6, <1>7 DEF Placed, Waiting, AtWork, Looking, Looping
<1>14. Certain'
  <2>1. loc'.visible = FALSE
    BY <1>4
  <2> QED
    BY <1>4, <1>7, <2>1 DEF Certain
<1>15. Alive'
  BY <1>4, <1>8, <1>10, <1>11, <1>12, <1>13, <1>14 DEF Alive
<1>16. Saved'
  BY <1>4 DEF Ready, Honest, Saved, Synced, Looking, Looping
<1>17. Begun'
  <2>1. starts' # 0 /\ DOMAIN loc' = {"seen", "refused", "visible"}
    BY <1>4 DEF Ready, Accounts, Money
  <2> QED
    BY <1>4, <2>1 DEF Begun
<1> QED
  BY <1>4, <1>5, <1>15, <1>16, <1>17 DEF Ready, Honest, Told

\* The process is over, whichever way.
LEMMA GoneKeeps ==
  ASSUME Ready, SaveSummary \/ Crash \/ Raise
  PROVE  Honest'
<1>1. /\ pc # "off" /\ pc' = "off" /\ mem' = NewState /\ loc' = NoLocals /\ journal' = journal
      /\ starts' = starts
  BY DEF SaveSummary, Crash, Raise, Gone, records
<1>2. /\ Places /\ Orderly(journal) /\ StateLike(mem) /\ mem.step \in Nat
      /\ mem.nextStep \in Nat /\ Numbered(journal, mem)
      /\ Balanced(journal, mem, ledger) /\ Proven(journal, mem.tested)
  BY <1>1, Live DEF Ready, Honest, Alive
<1>3. Begun'
  BY <1>1 DEF Ready, Honest, Begun, NoLocals
<1>4. Alive' /\ Synced'
  BY <1>1 DEF Alive, Synced, Looking, Looping
<1>5. CASE SaveSummary
  <2>1. /\ summary' = [status |-> mem.status, diff |-> Patch(ws), visible |-> loc.visible, ledger |-> ledger]
        /\ pc = "summary" /\ ckpt' = ckpt
    BY <1>5 DEF SaveSummary
  <2>2. summary'.visible = loc.visible /\ summary'.diff = Patch(ws) /\ summary'.status = mem.status
    BY <2>1
  <2>3. Told'
    BY <1>1, <1>2, <2>1, <2>2 DEF Told, Places, Certain, Proven, Patched
  <2>4. Saved'
    BY <1>1, <1>4, <2>1 DEF Ready, Honest, Saved
  <2> QED
    BY <1>1, <1>2, <1>3, <1>4, <2>3, <2>4 DEF Honest
<1>6. CASE Crash
  BY <1>1, <1>2, <1>3, <1>4, <1>6 DEF Crash, records, Ready, Honest, Saved, Told
<1>7. CASE Raise
  <2>1. PICK k : k = [mem EXCEPT !.status = "interrupted"]
    OBVIOUS
  <2>2. ckpt' = [state |-> k, ledger |-> ledger, digest |-> ws'] /\ summary' = summary
    BY <1>7, <2>1 DEF Raise
  <2>3. ckpt'.state = k /\ ckpt'.ledger = ledger
    BY <2>2
  <2>4. Kept(mem, k)
    BY <1>2, <2>1, StatusKeeps
  <2>5. Numbered(journal, k) /\ Proven(journal, k.tested)
    BY <1>2, <2>4 DEF Kept, Numbered, Known
  <2>6. k.pendingAction # NoAction => k.pendingAction = k.step /\ k.nextStep = k.step /\ k.step \in Steps
    BY <1>2, <2>4 DEF Kept, Places, Placed
  <2>7. Sound(journal, k)
    BY <1>2, <2>4, <2>5, <2>6, SavedIsSound DEF Kept
  <2>8. Balanced(journal, k, ledger)
    BY <1>2, <2>4, BalancedAlike DEF Kept
  <2>9. Saved'
    BY <1>1, <1>4, <2>3, <2>7, <2>8 DEF Saved
  <2> QED
    BY <1>1, <1>2, <1>3, <1>4, <2>2, <2>9 DEF Ready, Honest, Told
<1> QED
  BY <1>5, <1>6, <1>7

\* The promises of a run outlive every step, unless a tool overran the budget.
LEMMA HonestStep ==
  ASSUME Ready, Next, "overran" \in DOMAIN hist, ~hist'.overran
  PROVE  Honest'
<1>1. ASSUME pc # "off", pc' # "off", Drifts
      PROVE  Honest'
  BY <1>1, DriftKeeps DEF Ready, Drifts
<1>2. CASE Start \/ Resume \/ Recover \/ Raise \/ Crash \/ SaveSummary
  BY <1>2, StartKeeps, ResumeKeeps, RecoverKeeps, GoneKeeps
<1>3. CASE FirstCheckpoint \/ RecordPrompt
  <2>1. pc # "off" /\ pc' # "off"
    BY <1>3 DEF FirstCheckpoint, RecordPrompt
  <2> QED
    BY <1>1, <1>3, <2>1, BeginDrifts
<1>4. CASE InventoryBlocked \/ InventoryRecovered \/ InventorySaved
  <2>1. pc # "off" /\ pc' # "off"
    BY <1>4 DEF InventoryBlocked, InventoryRecovered, InventorySaved, EndWith
  <2> QED
    BY <1>1, <1>4, <2>1, InventoryDrifts
<1>5. CASE InventoryIntent \/ InventoryAttached
  BY <1>5, InventoryIntentKeeps, InventoryAttachedKeeps
<1>6. CASE HeadStep
  <2>1. pc # "off" /\ pc' # "off"
    BY <1>6 DEF HeadStep, LoopEnds, CancellationSeen, StepBlocked, ReuseAnswer, AskModel, StepBegins,
                InLoop, EndWith
  <2> QED
    BY <1>1, <1>6, <2>1, HeadDrifts
<1>7. CASE Answering
  <2>1. pc # "off" /\ pc' # "off"
    BY <1>7 DEF Answering, ModelAnswers, EndWith
  <2> QED
    BY <1>1, <1>7, <2>1, AnswerDrifts
<1>8. CASE InvalidAfterTest \/ InvalidAnswer \/ DoneUnverified \/ DoneAccepted
  <2>1. pc # "off" /\ pc' # "off"
    BY <1>8 DEF InvalidAfterTest, InvalidAnswer, DoneUnverified, DoneAccepted, EndWith, NextStep
  <2> QED
    BY <1>1, <1>8, <2>1, InvalidDrifts, DoneDrifts
<1>9. ASSUME NEW c \in Commands, ReadRefused(c) \/ RepeatRefused(c) \/ ToolBlocked(c)
      PROVE  Honest'
  <2>1. pc # "off" /\ pc' # "off"
    BY <1>9 DEF ReadRefused, RepeatRefused, ToolBlocked, RunsTool, AsksFor, EndWith, NextStep
  <2> QED
    BY <1>1, <1>9, <2>1, RefusalDrifts
<1>10. CASE RefusalSaved \/ IntentSaved
  <2>1. pc # "off" /\ pc' # "off"
    BY <1>10 DEF RefusalSaved, IntentSaved
  <2> QED
    BY <1>1, <1>10, <2>1, SavesDrift
<1>11. ASSUME NEW c \in Commands, ToolIntent(c)
       PROVE  Honest'
  BY <1>11, ToolIntentKeeps
<1>12. ASSUME NEW result, NEW v, NEW d, ToolRuns(result, v, d)
       PROVE  Honest'
  BY <1>12, ToolRunsKeeps
<1>13. ASSUME NEW e \in Durations, ToolSettled(e)
       PROVE  Honest'
  BY <1>13, ToolSettledKeeps
<1>14. ASSUME NEW e \in Durations, ToolOverran(e)
       PROVE  Honest'
  BY <1>14 DEF ToolOverran
<1>15. CASE SettlementSaved
  <2>1. pc # "off" /\ pc' # "off"
    BY <1>15 DEF SettlementSaved, NextStep
  <2> QED
    BY <1>1, <1>15, <2>1, SettledDrifts
<1>16. CASE FinalCheckpoint
  <2>1. pc # "off" /\ pc' # "off"
    BY <1>16 DEF FinalCheckpoint
  <2> QED
    BY <1>1, <1>16, <2>1, FinalDrifts
<1> QED
  BY <1>2, <1>3, <1>4, <1>5, <1>6, <1>7, <1>8, <1>9, <1>10, <1>11, <1>12, <1>13, <1>14, <1>15, <1>16
     DEF Next, Runtime, InventoryStep, ActStep, ToolStep

\* A tool that overran the budget did so for good.
LEMMA OverrunStays ==
  ASSUME Asking, Next, ~hist'.overran
  PROVE  ~hist.overran /\ "overran" \in DOMAIN hist
<1>1. /\ hist = [asked |-> hist.asked, answered |-> hist.answered, overran |-> hist.overran]
      /\ DOMAIN hist = {"asked", "answered", "overran"}
  BY DEF Asking
<1>2. \/ hist' = hist \/ \E x : hist' = [hist EXCEPT !.asked = x] \/ hist' = [hist EXCEPT !.answered = x]
      \/ hist' = [hist EXCEPT !.overran = TRUE]
  <2>1. ASSUME Start \/ Resume \/ Recover \/ Raise \/ Crash
        PROVE  hist' = hist
    BY <2>1 DEF Start, Resume, Recover, Raise, Crash
  <2>2. ASSUME FirstCheckpoint \/ RecordPrompt \/ FinalCheckpoint \/ SaveSummary \/ InventoryStep
        PROVE  hist' = hist
    BY <2>2 DEF FirstCheckpoint, RecordPrompt, FinalCheckpoint, SaveSummary, InventoryStep,
                InventoryBlocked, InventoryRecovered, InventoryIntent, InventoryAttached, InventorySaved
  <2>3. ASSUME HeadStep
        PROVE  hist' = hist \/ hist' = [hist EXCEPT !.asked = @ + 1]
    BY <2>3 DEF HeadStep, LoopEnds, CancellationSeen, StepBlocked, ReuseAnswer, AskModel
  <2>4. ASSUME Answering
        PROVE  hist' = hist \/ hist' = [hist EXCEPT !.answered = @ + 1]
    BY <2>4 DEF Answering, ModelAnswers
  <2>5. ASSUME ActStep
        PROVE  hist' = hist
    BY <2>5 DEF ActStep, InvalidAfterTest, InvalidAnswer, DoneUnverified, DoneAccepted, ReadRefused,
                RepeatRefused, ToolBlocked, ToolIntent, RefusalSaved, IntentSaved, ActOnly
  <2>6. ASSUME ToolStep
        PROVE  hist' = hist \/ hist' = [hist EXCEPT !.overran = TRUE]
    BY <2>6 DEF ToolStep, ToolRuns, ToolSettled, ToolOverran, SettlementSaved, ActOnly
  <2> QED
    BY <2>1, <2>2, <2>3, <2>4, <2>5, <2>6 DEF Next, Runtime
<1> QED
  BY <1>1, <1>2

\* What is certain of a run in every state.
Faithful == Accounts /\ Asking /\ Record

LEMMA FaithfulInit ==
  ASSUME Init
  PROVE  Faithful
<1>1. StateLike(NewState)
  BY DEF NewState, StateLike, Fields
<1>2. Accounts /\ Asking
  BY <1>1, AccountsInit DEF Init, Asking
<1>3. journal = <<>> /\ DOMAIN journal = {} /\ (\E S : journal \in Seq(S))
  BY DEF Init
<1>4. Orderly(journal)
  BY <1>3 DEF Orderly, Paired, Named, Once, Fresh, Answers
<1>5. Begun /\ Alive /\ Saved /\ Told
  BY <1>3 DEF Init, Begun, Alive, Saved, Synced, Told, NoLocals, Looking, Looping
<1> QED
  BY <1>2, <1>4, <1>5 DEF Faithful, Record, Honest

LEMMA FaithfulStep ==
  ASSUME Faithful, [Next]_vars
  PROVE  Faithful'
<1>1. Accounts' /\ Asking'
  BY AccountsStep, AskingStep DEF Faithful
<1>2. CASE UNCHANGED vars
  <2>1. /\ pc' = pc /\ mem' = mem /\ ledger' = ledger /\ loc' = loc /\ ws' = ws /\ ckpt' = ckpt
        /\ journal' = journal /\ summary' = summary /\ starts' = starts /\ hist' = hist
    BY <1>2 DEF vars, process, records
  <2>2. Honest => Honest'
    BY <2>1 DEF Honest, Begun, Alive, Saved, Told, Placed, Certain, Synced, Patched, Current
  <2> QED
    BY <1>1, <2>1, <2>2 DEF Faithful, Record
<1>3. ASSUME Next, ~hist'.overran
      PROVE  Honest'
  <2>1. ~hist.overran /\ "overran" \in DOMAIN hist
    BY <1>3, OverrunStays DEF Faithful
  <2>2. Ready
    BY <2>1 DEF Faithful, Record, Ready, Asking
  <2> QED
    BY <1>3, <2>1, <2>2, HonestStep
<1> QED
  BY <1>1, <1>2, <1>3 DEF Faithful, Record

LEMMA FaithfulAlways == Spec => []Faithful
BY FaithfulInit, FaithfulStep, PTL DEF Spec

-----------------------------------------------------------------------------
\* Every intent has a receipt of its own before the next one, only the last
\* may lack it, and no action is intended or run twice: whatever kills the
\* processes (harness/recovery.py, runtime.py:213-235).
THEOREM OutcomesStayKnown == Spec => []OutcomesAreKnown
<1>1. ASSUME Faithful
      PROVE  OutcomesAreKnown
  <2>1. SUFFICES ASSUME Regular
                 PROVE  /\ EveryActionRunsOnce
                        /\ \A n \in DOMAIN journal : n \in Receipts <=> n % 2 = 0
                        /\ \A n \in Receipts : journal[n].id = journal[n - 1].id
    BY DEF OutcomesAreKnown
  <2>2. Orderly(journal)
    BY <1>1, <2>1 DEF Faithful, Record, Honest, Regular
  <2>3. Receipts = Answers(journal) /\ Intents \subseteq DOMAIN journal \ Answers(journal)
    BY DEF Receipts, Intents, Answers
  <2> QED
    BY <2>2, <2>3 DEF Orderly, Paired, Once, EveryActionRunsOnce
<1> QED
  BY <1>1, FaithfulAlways, PTL

\* No command runs twice on the same version of the workspace, in one process
\* or across restarts (runtime.py:116-152, 457).
THEOREM RunsMakeProgress == Spec => []NoCommandRunsTwiceOnAVersion
<1>1. ASSUME Faithful
      PROVE  NoCommandRunsTwiceOnAVersion
  <2>1. SUFFICES ASSUME Regular, NEW m \in Intents, NEW n \in Intents,
                        SignatureOf(journal[m]) = SignatureOf(journal[n])
                 PROVE  m = n
    BY DEF NoCommandRunsTwiceOnAVersion
  <2>2. Fresh(journal)
    BY <1>1, <2>1 DEF Faithful, Record, Honest, Regular, Orderly
  <2>3. Intents \subseteq DOMAIN journal \ Answers(journal)
    BY DEF Intents, Answers
  <2> QED
    BY <2>1, <2>2, <2>3 DEF Fresh, Commanded, SignatureOf
<1> QED
  BY <1>1, FaithfulAlways, PTL

\* The checkpoint has charged every receipt of the journal but the outstanding
\* one, which a resumed process will charge (runtime.py:229, 512).
THEOREM ToolCallsAreChargedOnce == Spec => []CallsAreChargedOnce
<1>1. ASSUME Faithful
      PROVE  CallsAreChargedOnce
  <2>1. SUFFICES ASSUME Regular, ckpt # None
                 PROVE  /\ ckpt.ledger.calls + Cardinality(Uncharged) = Cardinality(Receipts)
                        /\ Uncharged \subseteq {Len(journal)}
    BY DEF CallsAreChargedOnce
  <2>2. Balanced(journal, ckpt.state, ckpt.ledger)
    BY <1>1, <2>1 DEF Faithful, Record, Honest, Regular, Saved
  <2>3. Receipts = Answers(journal) /\ Uncharged = Owed(journal, ckpt.state)
    BY DEF Receipts, Uncharged, Owed, Answers
  <2> QED
    BY <2>2, <2>3 DEF Balanced
<1> QED
  BY <1>1, FaithfulAlways, PTL

\* A summary that claims a passing visible test is about the very patch that
\* passed it, and when a test is required no patch is completed without one
\* (runtime.py:269, 380, 531).
THEOREM SummariesAreAboutTheTestedPatch == Spec => []SummaryIsAboutTheTestedPatch
<1>1. ASSUME Faithful
      PROVE  SummaryIsAboutTheTestedPatch
  <2>1. SUFFICES ASSUME Regular, summary # None
                 PROVE  /\ summary.visible => summary.diff # NoPatch /\ Passed(summary.diff)
                        /\ RequireTest /\ summary.status = "completed" /\ summary.diff # NoPatch
                             => summary.visible
    BY DEF SummaryIsAboutTheTestedPatch, TestedPatch
  <2>2. Told
    BY <1>1, <2>1 DEF Faithful, Record, Honest, Regular
  <2>3. \A d : PassedIn(journal, d) => Passed(d)
    BY DEF PassedIn, Passed, Receipts, Answers
  <2> QED
    BY <2>1, <2>2, <2>3 DEF Told
<1> QED
  BY <1>1, FaithfulAlways, PTL
=============================================================================

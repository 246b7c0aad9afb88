------------------------ MODULE NativeTeacherSafety ------------------------
(***************************************************************************)
(* What the conversation of the native-tool teacher may say: nothing that  *)
(* did not happen, nothing out of order, and nothing less.                 *)
(***************************************************************************)
EXTENDS NativeTeacher

Answers == Commands \cup {Finish, Malformed}
Texts   == {Failed, Unparsed, Repetition} \cup {Checkpoint(n) : n \in 0 .. MaxSteps}

TypeOK ==
  /\ pc \in {"observe", "sync", "deal", "post", "act", "end"}
  /\ status \in {"running", "failed", "stopped", "interrupted", "completed"}
  /\ (status = "running") = (pc # "end")
  /\ step \in 0 .. MaxSteps /\ action \in Answers \cup {None}
  /\ pending \in Commands \cup {None}
  /\ queued \in Seq(Commands \cup {Finish}) /\ Len(queued) <= MaxCalls
  /\ journal \in Seq([id : 0 .. MaxSteps, command : Commands \cup {Inventory}])
  /\ seen \subseteq {journal[n].id : n \in DOMAIN journal}
  /\ buffered \subseteq heard /\ heard \cup said \subseteq Texts
  /\ version \in Versions /\ ran \cup blocked \subseteq Commands \X Versions
  /\ streak \in 0 .. 2

At(kind)      == {n \in DOMAIN talk : talk[n].kind = kind}
AgentReceipts == {r \in DOMAIN journal : journal[r].command # Inventory}

\* Every result the provider is shown is the receipt of a command that ran, under
\* the call that asked for it, and exactly the receipts before it were shown
\* before: in their order, none left out, and no receipt answers two calls
\* (_sync: "a unique matching real receipt").
ResultsAreReceipts ==
  \A n \in At("result") : \E r \in AgentReceipts :
    /\ journal[r] = [id |-> talk[n].receipt, command |-> talk[n].command]
    /\ {talk[m].receipt : m \in {k \in At("result") : k < n}}
         = {journal[q].id : q \in {k \in AgentReceipts : k < r}}

\* Whenever a paid request goes out, every group of calls in it is followed at
\* once by its results, all of them and in order, with no reminder in between
\* (complete: the API refuses an interrupted group).
RequestsCarryWholeGroups ==
  pc = "post" =>
    \A n \in At("calls") : \A k \in DOMAIN talk[n].calls :
      /\ n + k \in At("result")
      /\ talk[n + k].command = talk[n].calls[k]

\* What ran is what the provider asked for, in its order and once: the commands
\* of the journal are a prefix of the calls of all responses (the serial queue).
Asked == FlattenSeq([n \in DOMAIN talk |-> IF n \in At("calls") THEN talk[n].calls ELSE <<>>])
Done  == FlattenSeq([r \in DOMAIN journal |-> IF r \in AgentReceipts THEN <<journal[r].command>> ELSE <<>>])

KnownCallsRunOnce == IsPrefix(Done, Asked)

\* Every warning still among the runtime's messages is in the request that goes
\* out, and no warning is told twice, through buffering and compression.
WarningsAreToldOnce ==
  /\ pc = "post" => \A w \in said : \E n \in At("reminders") : w \in talk[n].texts
  /\ \A m, n \in At("reminders") : m # n => talk[m].texts \cap talk[n].texts = {}

-----------------------------------------------------------------------------
(* What the docstring says and the code does not do. *)

\* "Each counts as an agent action and needs its own actual receipt": a call
\* that ran and has its receipt is acknowledged.
ReceiptedCallsAreAnswered ==
  pc = "sync" /\ pending # None /\ (\E n \in Unseen : journal[n].command = pending)
    => Acknowledged
=============================================================================

---------------------------- MODULE TrainingData ----------------------------
(***************************************************************************)
(* What becomes of the examples of a run: prepared once                    *)
(* (prepare_aligned_sft.py), gated by readiness and encoded for the next   *)
(* action (scripts/train_aligned_sft.py), or handed to the trainer as they *)
(* are (train_sft.py), on the rungs of the out-of-memory ladder, with the  *)
(* exposure training/sft_sampling.py schedules.                            *)
(*                                                                         *)
(* A message is a header token and one or more body tokens; the chat       *)
(* template only appends, as the templates of the supported models do.     *)
(***************************************************************************)
EXTENDS AlignedExport

CONSTANTS
  SequenceLimit,   \* max_seq_len of the preparation: 8192
  Ladder,          \* max_seq_len of the rungs
  HeadTokens       \* tokens kept of the beginning of a long record: 512

ASSUME TrainingDataAssumption ==
  /\ {SequenceLimit, HeadTokens} \subseteq Nat \ {0}
  /\ Ladder \in Seq(Nat \ {0}) /\ Ladder # <<>>

VARIABLES
  data,     \* the prepared examples, <<>> before
  entry,    \* entry point: aligned, direct; none before training starts
  config,   \* sampling_mode and reject_truncation, <<>> before training starts
  rung,     \* of the ladder
  trained,  \* encoded examples of the last rung that completed
  drawn,    \* which of them the trainer drew
  training  \* none, prepared, running, completed, failed or blocked

trainingVars == <<data, entry, config, rung, trained, drawn, training>>

-----------------------------------------------------------------------------
(* Tokens: [message, header].                                              *)

Messages(example) == Append(example.messages, Assistant(Plain(example.target)))

BodyTokens(m) == IF m.role = "result" THEN 1 + m.receipt.out ELSE 1

TokensOf(m, i) ==
  <<[message |-> i, header |-> TRUE]>> \o [k \in 1 .. BodyTokens(m) |-> [message |-> i, header |-> FALSE]]

Tokens(ms) == FlattenSeq([i \in DOMAIN ms |-> TokensOf(ms[i], i)])

\* Token by token: is it a label?
Labelled(ids, IsLabel(_)) == [ids |-> ids, labels |-> [n \in DOMAIN ids |-> IsLabel(ids[n])]]

TooLong == [ids |-> <<>>, labels |-> <<>>]

\* encode_next_action: everything before the target is masked, its header too.
EncodeNextAction_AllTurns(ms, limit) ==
  LET IsLabel(t) == ms[t.message].role = "assistant" /\ ~t.header IN Labelled(Tokens(ms), IsLabel)

EncodeNextAction(ms, limit) ==
  LET IsLabel(t) == t.message = Len(ms) /\ ~t.header
  IN  IF Len(Tokens(ms)) > limit THEN TooLong ELSE Labelled(Tokens(ms), IsLabel)

\* encode_example: every assistant turn is supervised; of a long record the
\* beginning and the end are kept.
Kept(s, limit) ==
  LET head == Min({HeadTokens, limit \div 2})
  IN  IF Len(s) <= limit THEN s ELSE SubSeq(s, 1, head) \o LastOf(s, limit - head)

EncodeExample(ms, limit) ==
  LET IsLabel(t) == ms[t.message].role = "assistant" IN Labelled(Kept(Tokens(ms), limit), IsLabel)

Supervises(e) == \E n \in DOMAIN e.labels : e.labels[n]

Unfit(ms, limit) ==
  \/ entry = "aligned" /\ EncodeNextAction(ms, limit) = TooLong
  \/ config.rejects /\ Len(Tokens(ms)) > limit

Encode(ms, limit) == IF entry = "aligned" THEN EncodeNextAction(ms, limit) ELSE EncodeExample(ms, limit)

-----------------------------------------------------------------------------
InitTraining ==
  /\ data = <<>> /\ entry = "none" /\ rung = 1 /\ trained = <<>> /\ drawn = {}
  /\ config = <<>>
  /\ training = "none"

\* prepare, for a completed run with a patch (no other passes its evaluation): a
\* source row that is no seed, cannot be converted or has an example
\* that is too long refuses the whole output.
Prepare ==
  /\ status = "completed" /\ Patched /\ training = "none"
  /\ IF /\ SeedOk /\ Converted # <<>>
        /\ \A n \in DOMAIN Converted[1] : EncodeNextAction(Messages(Converted[1][n]), SequenceLimit) # TooLong
     THEN data' = Converted[1] /\ training' = "prepared"
     ELSE training' = "failed" /\ UNCHANGED data
  /\ UNCHANGED <<entry, config, rung, trained, drawn>>

\* train_aligned_sft refuses data that are not ready before a GPU is used.
StartTraining ==
  /\ training = "prepared"
  /\ entry' \in {"aligned", "direct"}
  /\ config' \in [sampling : {"weighted_with_replacement", "coverage_plus_weighted"}, rejects : BOOLEAN]
  /\ training' = IF entry' = "aligned" /\ ~Ready(data) THEN "failed" ELSE "running"
  /\ UNCHANGED <<data, rung, trained, drawn>>

\* Every record fits or the attempt raises; one without a label is dropped.
AttemptRaises ==
  /\ training = "running"
  /\ \E n \in DOMAIN data : Unfit(Messages(data[n]), Ladder[rung])
  /\ training' = "failed"
  /\ UNCHANGED <<data, entry, config, rung, trained, drawn>>

Encoded ==
  LET records == [n \in DOMAIN data |-> Encode(Messages(data[n]), Ladder[rung])]
  IN  Picked(records, {n \in DOMAIN data : Supervises(records[n])})

Fits == training = "running" /\ \A n \in DOMAIN data : ~Unfit(Messages(data[n]), Ladder[rung])

OutOfMemory ==
  /\ Fits /\ Encoded # <<>>
  /\ IF rung = Len(Ladder) THEN training' = "blocked" /\ UNCHANGED rung
     ELSE rung' = rung + 1 /\ UNCHANGED training
  /\ UNCHANGED <<data, entry, config, trained, drawn>>

\* coverage_plus_weighted draws every example once before it draws by weight.
Complete ==
  /\ Fits
  /\ IF Encoded = <<>> THEN training' = "failed" /\ UNCHANGED <<trained, drawn>>
     ELSE /\ training' = "completed" /\ trained' = Encoded
          /\ drawn' \in IF config.sampling = "coverage_plus_weighted" THEN {DOMAIN Encoded}
                        ELSE SUBSET DOMAIN Encoded \ {{}}
  /\ UNCHANGED <<data, entry, config, rung>>

DataInit == Init /\ InitTraining

Train == Prepare \/ StartTraining \/ AttemptRaises \/ OutOfMemory \/ Complete

DataNext ==
  \/ Next /\ UNCHANGED trainingVars
  \/ Train /\ UNCHANGED vars

DataSpec == DataInit /\ [][DataNext]_<<vars, trainingVars>>
=============================================================================

---------------------------- MODULE AgentActions ----------------------------
(***************************************************************************)
(* What the model may ask for and what the fixed source tools answer: the  *)
(* action protocol (adapters/action.py), the typed read, search and edit   *)
(* programs (adapters/source_read.py, source_search.py, text_edit.py,      *)
(* file_tools.py) and the evidence an edit needs                           *)
(* (harness/source_evidence.py, harness/tool_observation.py).              *)
(*                                                                         *)
(* The content of a file is a sequence of lines and stands for its own     *)
(* SHA-256.  The text an edit replaces is a line; texts of several lines,  *)
(* encodings and the sizes of files are left out.                          *)
(***************************************************************************)
EXTENDS Naturals, FiniteSets, Sequences, SequencesExt

CONSTANTS
  Paths,      \* source files
  Lines,      \* their lines ...
  Broken,     \* ... those no Python file compiles with ...
  Wide,       \* ... and those no bounded observation has room for
  Commands,   \* shell commands
  Empty,      \* the command without a character
  ReadMax,    \* lines of one read: 80
  KeptReads   \* observations that are kept: 8

ASSUME AgentActionsAssumption ==
  /\ Broken \cup Wide \subseteq Lines /\ Empty \notin Commands
  /\ {ReadMax, KeptReads} \subseteq Nat \ {0}

-----------------------------------------------------------------------------
(* Actions, and how a response is parsed into one.                         *)

Edit(p, before, after) == [kind |-> "edit", path |-> p, before |-> before, after |-> after]
Read(p, from, to)      == [kind |-> "read", path |-> p, from |-> from, to |-> to]
Search(p, line)        == [kind |-> "search", path |-> p, query |-> line]
Shell(c)               == [kind |-> "command", command |-> c]
Done                   == [kind |-> "done"]
Invalid                == [kind |-> "invalid"]

Tools == {"edit", "read", "search"}

\* A JSON object with the keys of an action, whether `done' is a Boolean, and
\* the arguments of its tool or command.
Object(a) == [keys |-> {a.kind} \ {"done"}, done |-> a.kind = "done", typed |-> TRUE, arg |-> a]

\* A response: one JSON value, bare or fenced ("json"); a labelled fence or a
\* DSML call around a shell command ("call"); an action envelope with broken
\* quotes ("envelope"); or text around some JSON objects ("prose").
Plain(a) == [form |-> "json", objects |-> <<Object(a)>>]

Actions ==
  [kind : {"edit"}, path : Paths, before : Lines, after : Lines]
    \cup [kind : {"read"}, path : Paths, from : Nat, to : Nat]
    \cup [kind : {"search"}, path : Paths, query : Lines]
    \cup [kind : {"command"}, command : Commands \cup {Empty}]
    \cup {Done}

\* Without a tool and `done' the arguments are those of a command.
Objects ==
  {o \in [keys : SUBSET (Tools \cup {"command"}), done : BOOLEAN, typed : BOOLEAN, arg : Actions] :
     o.keys \cap Tools = {} /\ ~o.done => o.arg.kind = "command"}

\* What the model may answer: calls and envelopes are recognised for commands only.
Answers ==
  {r \in [form : {"json", "call", "envelope", "prose"}, objects : Seq(Objects)] :
     r.form \in {"call", "envelope"} /\ r.objects # <<>> => Head(r.objects).arg.kind = "command"}

\* validate_read cuts an oversized request, and keeps where it starts.
Validated(a) ==
  CASE a.kind = "edit" -> IF a.before # a.after THEN a ELSE Invalid
    [] a.kind = "read" -> IF 1 <= a.from /\ a.from <= a.to
                          THEN [a EXCEPT !.to = Min({@, a.from + ReadMax - 1})] ELSE Invalid
    [] a.kind = "command" -> IF a.command # Empty THEN a ELSE Invalid
    [] OTHER -> a

ParseObject(o) ==
  LET Clear == o.keys \cap Tools # {} => o.keys = {o.arg.kind} /\ ~o.done
  IN  IF ~(o.typed /\ Clear) THEN Invalid
      ELSE IF o.done THEN Done ELSE Validated(o.arg)

\* Of an imagined transcript of three or more objects only the first counts,
\* for none of its commands was executed; of two the last.
Chosen(objects) == IF Len(objects) >= 3 THEN Head(objects) ELSE Last(objects)

\* A call without a command is passed over for the JSON objects around it.
ParseAction(r) ==
  LET first == Head(r.objects)
      json  == IF r.form = "call" THEN Tail(r.objects) ELSE r.objects
  IN  IF r.objects = <<>> THEN Invalid ELSE
      CASE r.form = "envelope" -> IF first.done THEN Done ELSE first.arg
        [] r.form = "call" /\ first.arg.command # Empty -> first.arg
        [] OTHER -> IF json = <<>> THEN Invalid ELSE ParseObject(Chosen(json))

Executable(a) == a.kind \in Tools \/ (a.kind = "command" /\ a.command # Empty)
-----------------------------------------------------------------------------
(* The programs that run in the sandbox.                                   *)

\* A receipt: exit code zero without a timeout, the length of its output and
\* whether it was cut, and the packet of a read.
Receipt(ok, out) == [ok |-> ok, out |-> out, cut |-> FALSE, packet |-> <<>>, format |-> "raw"]

\* The last lines a read may end with: those before one that is too wide.
Ends(c, a) ==
  {n \in a.from .. Min({a.to, Len(c)}) : \A k \in a.from .. n : c[k] \notin Wide}

ReadReceipt(c, a) ==
  IF Ends(c, a) = {} THEN Receipt(FALSE, 1)
  ELSE LET text == SubSeq(c, a.from, Max(Ends(c, a)))
       IN  [Receipt(TRUE, Len(text)) EXCEPT !.packet = <<[path |-> a.path, sha |-> c, text |-> text]>>]

Occurrences(c, line) == {n \in DOMAIN c : c[n] = line}

SearchReceipt(c, a) == Receipt(TRUE, Cardinality(Occurrences(c, a.query)))

Updated(c, a) == [n \in DOMAIN c |-> IF c[n] = a.before THEN a.after ELSE c[n]]

Applies_Anywhere(c, a, expected) ==
  Cardinality(Occurrences(c, a.before)) = 1 /\ Broken \cap ToSet(Updated(c, a)) = {}

\* The edit applies to the version that was read, to one place, and compiles.
Applies(c, a, expected) ==
  /\ c = expected
  /\ Cardinality(Occurrences(c, a.before)) = 1
  /\ Broken \cap ToSet(Updated(c, a)) = {}
-----------------------------------------------------------------------------
(* Versioned observations, the evidence for an edit.                       *)

\* The elements of s at the positions in I, in their order.
Picked(s, I) == FlattenSeq([n \in DOMAIN s |-> IF n \in I THEN <<s[n]>> ELSE <<>>])

\* The observations of the file of an edit that show the line it replaces.
Matching(a, observations) ==
  {n \in DOMAIN observations : observations[n].path = a.path /\ Contains(observations[n].text, a.before)}

Grounded(a, observations) == a.kind = "edit" => Matching(a, observations) # {}

\* The version an edit is bound to: that of the latest of them.
ExpectedVersion(a, observations) ==
  IF a.kind = "edit" THEN observations[Max(Matching(a, observations))].sha ELSE <<>>

LastOf(s, n) == SubSeq(s, IF Len(s) > n THEN Len(s) - n + 1 ELSE 1, Len(s))

\* An edit makes what was read of its file worthless, a read of another
\* version the older reads.
ObserveSource(observations, a, receipt) ==
  IF ~receipt.ok THEN observations ELSE
  CASE a.kind = "edit" -> Picked(observations, {n \in DOMAIN observations : observations[n].path # a.path})
    [] a.kind = "read" ->
         LET new == receipt.packet[1]
             Same(o) == o.path # new.path \/ o.sha = new.sha
             same == Picked(observations, {n \in DOMAIN observations : Same(observations[n])})
         IN  Append(LastOf(same, KeptReads - 1), new)
    [] OTHER -> observations

\* The model sees the text of a successful read, decoded once.
ToolObservation(a, receipt) ==
  IF a.kind = "read" /\ receipt.ok THEN [receipt EXCEPT !.format = "source"] ELSE receipt

\* Only a successful read may claim to be decoded.
Observable(a, receipt) == receipt.format = "source" => a.kind = "read" /\ receipt.ok
=============================================================================

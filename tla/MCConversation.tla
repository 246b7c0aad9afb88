--------------------------- MODULE MCConversation ---------------------------
(* One file of two lines, where y may be written over x.  The model reads it *)
(* in an imagined transcript that goes on to finish, and it may answer with  *)
(* no JSON at all; the envelope is a command that has lost its text.         *)
EXTENDS ConversationSafety

CONSTANTS F, x, y, bad, test, sed, empty

MCOriginal == [p \in Paths |-> <<x, y>>]

MCRewritten == {<<y, x>>}

Transcript == [form |-> "prose", objects |-> <<Object(Read(F, 1, 2)), Object(Edit(F, x, bad)), Object(Done)>>]

MCResponses ==
  {Transcript, [form |-> "prose", objects |-> <<>>]}
    \cup {Plain(a) : a \in {Search(F, x), Edit(F, x, bad), Edit(F, x, y), Shell(test), Shell(sed), Done}}

\* Under a bounded policy records have up to 18 tokens, under native also more.
MCLadder == <<18, 16>>

MCEnvelopes == {[form |-> "envelope", objects |-> <<Object(Shell(empty))>>], Plain(Search(F, x)), Plain(Done)}
=============================================================================

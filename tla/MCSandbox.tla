----------------------------- MODULE MCSandbox -----------------------------
(* Small sandboxes for TLC. *)
EXTENDS SandboxSafety, TLC

CONSTANTS r1, r2, r3, r4, github, local, url

RunSet   == {r1, r2, r3, r4}
KeySet   == {github, local, url}
Work     == r1 :> github @@ r2 :> github @@ r3 :> local @@ r4 :> url
Origins1 == github :> "github" @@ local :> "local" @@ url :> "url"

\* One process may be started twice, the others once.
OneRestart == [p \in Procs |-> IF p = CHOOSE q \in Procs : TRUE THEN 0 ELSE 1]
NoRestart  == [p \in Procs |-> 1]

\* The runs of S are still to do or ready; the others cannot be used any more.
Only(S, state) == [r \in RunSet |-> IF r \in S THEN state ELSE "partial"]

\* Workspaces are made, with crashes, but no command is run; commands in one
\* workspace, with crashes; and one command in any workspace, without.
Situations ==
  { [checkout |-> Only({r1, r2}, "absent"), starts |-> OneRestart, begun |-> Cardinality(Commands)],
    [checkout |-> Only({r2, r3, r4}, "absent"), starts |-> OneRestart, begun |-> Cardinality(Commands)],
    [checkout |-> Only({r1}, "absent"), starts |-> OneRestart, begun |-> 0],
    [checkout |-> Only({r1, r2}, "ready"), starts |-> NoRestart, begun |-> 1] }
=============================================================================

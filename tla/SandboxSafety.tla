--------------------------- MODULE SandboxSafety ---------------------------
(* What the workspaces, the sandbox and its supervisor promise. *)
EXTENDS Sandbox

Building  == {"fetch", "fallback", "init", "publish", "clone", "cloning"}
Preparing == {"locked", "copy", "chown", "seal", "mark", "prepared"}
Running   == {"loop", "poll", "wait", "kill"}
Labels    == {"idle", "failed", "beaten", "ready", "leased"} \cup Building \cup Preparing \cup Running

Statuses == {"completed", "cancelled", "timeout", "disk_limit", "output_limit"}
Trees    == [from : SUBSET {"local", "archive", "clone"}, git : BOOLEAN]

\* Every variable has its type.
TypeOK ==
  /\ cache \in [Keys -> Trees] /\ tree \in [Procs -> Trees]
  /\ checkout \in [Runs -> {"absent", "partial", "ready"}]
  /\ at \in [Procs -> Labels] /\ on \in [Procs -> Runs \cup {Nobody}]
  /\ starts \in [Procs -> 0 .. MaxStarts]
  /\ lease \in [Runs -> Uids \cup {0}] /\ owner \in [Runs -> Uids \cup {0}]
  /\ usr \in [Runs -> BOOLEAN] /\ sealed \in [Runs -> BOOLEAN]
  /\ marker \in [Runs -> {"none", "torn", "written"}]
  /\ lock \in [Runs -> Procs \cup {Nobody}]
  /\ sup \in [Procs -> [command : Commands \cup {0}, status : Statuses, heard : 0 .. 1,
                        late : BOOLEAN, cancelled : BOOLEAN]]
  /\ group \in [Commands -> [run : Runs \cup {Nobody}, leader : {"none", "alive", "exited"},
                             writes : BOOLEAN, kid : {"none", "loud", "silent"}, said : 0 .. 1, orphan : BOOLEAN]]
  /\ begun \in Commands \cup {0}

\* A published snapshot is one source's files, all of them, under Git: never
\* the rest of a failed download with a clone on top (workspace.py:136).
SnapshotsAreWhole ==
  \A k \in Keys : cache[k] # NoTree => cache[k].git /\ Cardinality(cache[k].from) = 1

\* A workspace that is marked as prepared, or that has a command in it, is a
\* whole checkout whose preparation somebody finished: its files belong to the
\* uid its commands run as, its .git to the host, and no other workspace has
\* that uid, whatever crashed before.
CommandsRunPrepared ==
  \A r \in Runs : marker[r] = "written" \/ (\E c \in Commands : Alive(c) /\ group[c].run = r) =>
    /\ checkout[r] = "ready" /\ usr[r] /\ sealed[r]
    /\ lease[r] # 0 /\ owner[r] = lease[r]
    /\ \A s \in Runs \ {r} : lease[s] # lease[r]

\* Two commands run in one workspace only if the supervisor of one of them
\* died: the lock goes with the supervisor, its command does not.
CommandsOverlapOnlyAfterCrash ==
  \A c, d \in Commands :
    c # d /\ Alive(c) /\ Alive(d) /\ group[c].run = group[d].run => group[c].orphan \/ group[d].orphan

\* A supervised command comes to its end, whatever its descendants do with
\* the pipes they inherited (bounded_process.py:86).
CommandsEnd ==
  \A c \in Commands : Alive(c) ~> (~Alive(c) \/ group[c].orphan)

\* workspace.py:134 "Another process may have completed the same immutable
\* snapshot [...] The atomic rename makes the winner safe to reuse": losing
\* the race for the cache fails no run.
WinnerIsReused ==
  \A p \in Procs : at[p] # "beaten"
=============================================================================

--------------------------- MODULE SnapshotCache ---------------------------
(***************************************************************************)
(* Workspaces and the snapshot cache they share (sandbox/workspace.py).    *)
(* Harness processes materialise one snapshot per repository and commit in *)
(* a directory of their own, rename it into the cache, and clone it into   *)
(* the checkout of a run.  They build at the same time, fail, and are      *)
(* killed between any two steps; a directory under construction is lost    *)
(* with its builder, the cache and the checkouts stay.                     *)
(*                                                                         *)
(* A snapshot is what it was unpacked from and whether Git tracks it.  The *)
(* outcomes of downloads, archives and clones are chosen.                  *)
(***************************************************************************)
EXTENDS Naturals, FiniteSets

CONSTANTS
  Procs,        \* harness processes
  Runs,         \* run ids
  Keys,         \* digests of repository and commit
  KeyOf,        \* KeyOf[r]: the key of the task of run r
  Origin,       \* Origin[k]: where the repository is, one of Origins
  RenameErrors, \* what rename(2) may say of a directory that is not empty
  MaxStarts,    \* bound: how often one process is started
  Nobody        \* a process without a run

Origins == {"local", "github", "url"}

ASSUME SnapshotCacheAssumption ==
  /\ KeyOf \in [Runs -> Keys] /\ Origin \in [Keys -> Origins]
  /\ RenameErrors \subseteq {"EEXIST", "ENOTEMPTY"} /\ MaxStarts \in Nat
  /\ Nobody \notin Runs \cup Procs

VARIABLES
  cache,     \* cache[k]: the snapshot published under k
  checkout,  \* checkout[r]: "absent", "partial" or "ready"
  at,        \* at[p]: where the process is
  on,        \* on[p]: the run it works for
  tree,      \* tree[p]: the directory it builds a snapshot in
  starts     \* starts[p]: how often it was started

store  == <<cache, checkout>>
making == <<at, on, tree, starts>>

NoTree == [from |-> {}, git |-> FALSE]

KeyOn(p) == KeyOf[on[p]]

Goto(p, label) == at' = [at EXCEPT ![p] = label] /\ UNCHANGED on

\* The process ends with an error; its private directory is removed.
Fail(p) ==
  /\ at' = [at EXCEPT ![p] = "failed"]
  /\ on' = [on EXCEPT ![p] = Nobody]
  /\ tree' = [tree EXCEPT ![p] = NoTree]

Walk(p, label) == Goto(p, label) /\ UNCHANGED tree

Whole(k) == [from |-> {IF Origin[k] = "local" THEN "local" ELSE "clone"}, git |-> TRUE]

\* Earlier processes may have left checkouts, and then the snapshots they
\* were cloned from; used[p] is what they took of the bound on starts.
CacheInit(left, used) ==
  /\ checkout = left
  /\ cache = [k \in Keys |-> IF \E r \in Runs : KeyOf[r] = k /\ left[r] # "absent"
                             THEN Whole(k) ELSE NoTree]
  /\ at = [p \in Procs |-> "idle"]
  /\ on = [p \in Procs |-> Nobody]
  /\ tree = [p \in Procs |-> NoTree]
  /\ starts = used
-----------------------------------------------------------------------------
\* WorkspaceManager.create: a checkout is never reused; a snapshot is.
Create(p, r) ==
  /\ at[p] = "idle" /\ starts[p] < MaxStarts
  /\ starts' = [starts EXCEPT ![p] = @ + 1]
  /\ at' = [at EXCEPT ![p] = CASE checkout[r] # "absent"     -> "failed"
                               [] cache[KeyOf[r]].git      -> "clone"
                               [] cache[KeyOf[r]] = NoTree -> "fetch"
                               [] OTHER                    -> "failed"]
  /\ on' = [on EXCEPT ![p] = r]
  /\ UNCHANGED <<store, tree>>

\* Unpacking refuses a directory that exists already.
MayUnpack_Over(p) == TRUE
MayUnpack(p) == tree[p] = NoTree

Unpack(p, source) ==
  IF MayUnpack(p)
  THEN tree' = [tree EXCEPT ![p].from = @ \cup {source}] /\ Goto(p, "init")
  ELSE Fail(p)

\* The archive, or the plain copy, of a repository on this machine.
FetchLocal(p) ==
  /\ at[p] = "fetch" /\ Origin[KeyOn(p)] = "local"
  /\ Unpack(p, "local") \/ Fail(p)
  /\ UNCHANGED <<store, starts>>

\* The archive GitHub serves.  The download may fail, and so may the
\* unpacking, which has made its directory by then; a link or a path outside
\* is refused for good.
FetchArchive(p) ==
  /\ at[p] = "fetch" /\ Origin[KeyOn(p)] = "github"
  /\ \/ Unpack(p, "archive")
     \/ Walk(p, "fallback")
     \/ Goto(p, "fallback") /\ tree' = [tree EXCEPT ![p].from = {"archive"}]
     \/ Fail(p)
  /\ UNCHANGED <<store, starts>>

\* A clone of the remote and the archive of its commit: the second chance of
\* a GitHub repository, the only one of any other remote.
FetchClone(p) ==
  /\ \/ at[p] = "fallback"
     \/ at[p] = "fetch" /\ Origin[KeyOn(p)] = "url"
  /\ Unpack(p, "clone") \/ Fail(p)
  /\ UNCHANGED <<store, starts>>

\* git init, add and commit of the unpacked files.
InitLocalRepo(p) ==
  /\ at[p] = "init"
  /\ \/ tree' = [tree EXCEPT ![p].git = TRUE] /\ Goto(p, "publish")
     \/ Fail(p)
  /\ UNCHANGED <<store, starts>>

\* Renaming a directory replaces nothing but an empty one.
Vacant(k) == cache[k] = NoTree

\* staging.replace(cached), and what follows when another builder was first:
\* only EEXIST is Python's FileExistsError.
Publish(p) ==
  /\ at[p] = "publish"
  /\ tree' = [tree EXCEPT ![p] = NoTree]
  /\ \/ /\ Vacant(KeyOn(p))
        /\ cache' = [cache EXCEPT ![KeyOn(p)] = tree[p]]
        /\ Goto(p, "clone")
     \/ /\ ~Vacant(KeyOn(p))
        /\ \E error \in RenameErrors :
             Goto(p, IF error = "EEXIST" /\ cache[KeyOn(p)].git THEN "clone" ELSE "beaten")
        /\ UNCHANGED cache
  /\ UNCHANGED <<checkout, starts>>

\* git clone into the checkout: it creates the directory, unless another
\* process did since, and fills it.  A clone that fails cleans up after
\* itself, one that is killed at its timeout cannot.
CloneStarts(p) ==
  /\ at[p] = "clone"
  /\ IF checkout[on[p]] = "absent"
     THEN checkout' = [checkout EXCEPT ![on[p]] = "partial"] /\ Walk(p, "cloning")
     ELSE UNCHANGED checkout /\ Fail(p)
  /\ UNCHANGED <<cache, starts>>

CloneEnds(p) ==
  /\ at[p] = "cloning"
  /\ \/ checkout' = [checkout EXCEPT ![on[p]] = "ready"] /\ Walk(p, "ready")
     \/ checkout' = [checkout EXCEPT ![on[p]] = "absent"] /\ Fail(p)
     \/ UNCHANGED checkout /\ Fail(p)
  /\ UNCHANGED <<cache, starts>>

\* An existing run is taken up again by this or another process (cli.py); it
\* has a run.json only if its checkout was finished.
Resume(p, r) ==
  /\ at[p] = "idle" /\ starts[p] < MaxStarts
  /\ checkout[r] = "ready"
  /\ starts' = [starts EXCEPT ![p] = @ + 1]
  /\ at' = [at EXCEPT ![p] = "ready"] /\ on' = [on EXCEPT ![p] = r]
  /\ UNCHANGED <<store, tree>>

\* The process is killed, or one that ended is started again: only what is
\* on disk stays.
Leave(p) ==
  /\ at[p] # "idle" /\ starts[p] < MaxStarts
  /\ at' = [at EXCEPT ![p] = "idle"]
  /\ on' = [on EXCEPT ![p] = Nobody]
  /\ tree' = [tree EXCEPT ![p] = NoTree]
  /\ UNCHANGED <<store, starts>>

MakeWorkspace(p) ==
  \/ \E r \in Runs : Create(p, r) \/ Resume(p, r)
  \/ FetchLocal(p) \/ FetchArchive(p) \/ FetchClone(p) \/ InitLocalRepo(p)
  \/ Publish(p) \/ CloneStarts(p) \/ CloneEnds(p)
=============================================================================

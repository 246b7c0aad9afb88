------------------------------ MODULE Sandbox ------------------------------
(***************************************************************************)
(* Commands in the NsJail sandbox (sandbox/nsjail.py) under the process    *)
(* supervisor (sandbox/bounded_process.py), on the workspaces of           *)
(* SnapshotCache.  A harness process leases a uid for its workspace, locks *)
(* the run, prepares the chroot once, and supervises one command: it reads *)
(* the output, watches the deadline, the disk and the cancellation, and    *)
(* kills the whole process group.                                          *)
(*                                                                         *)
(* The command is the environment: its leader writes, forks, closes its    *)
(* pipes and exits as it likes.  Harness processes are killed anywhere;    *)
(* what they wrote, and the group they started, stay.  No command leaves   *)
(* its process group: the seccomp policy denies setsid and setpgid.        *)
(***************************************************************************)
EXTENDS SnapshotCache

CONSTANTS
  Uids,      \* the uids that can be leased: 100000 .. 199999
  Commands,  \* bound: the commands that are started, 1 .. n in that order
  Leftovers  \* what a behaviour starts from: checkouts, and what is used up of
             \* the bounds on starts and commands

ASSUME SandboxAssumption ==
  /\ Uids \subseteq Nat /\ 0 \notin Uids /\ Commands \subseteq Nat \ {0}
  /\ Leftovers \subseteq [checkout : [Runs -> {"absent", "partial", "ready"}],
                          starts : [Procs -> 0 .. MaxStarts], begun : Commands \cup {0}]

VARIABLES
  lease,   \* lease[r]: the uid of the workspace, 0 for none
  usr,     \* usr[r]: the template was copied, at least in part
  owner,   \* owner[r]: who owns the files, 0 before they are handed over
  sealed,  \* sealed[r]: .git is the host's and read-only
  marker,  \* marker[r]: "none", "torn" or "written" (nsjail-prepared.json)
  lock,    \* lock[r]: the process that holds nsjail.lock
  sup,     \* sup[p]: the supervisor of the command p runs
  group,   \* group[c]: the process group of command c
  begun    \* how many commands were started

jail == <<lease, usr, owner, sealed, marker>>
vars == <<store, making, jail, lock, sup, group, begun>>

NoSup   == [command |-> 0, status |-> "completed", heard |-> 0, late |-> FALSE, cancelled |-> FALSE]
NoGroup == [run |-> Nobody, leader |-> "none", writes |-> FALSE, kid |-> "none", said |-> 0, orphan |-> FALSE]

Init ==
  /\ \E left \in Leftovers : CacheInit(left.checkout, left.starts) /\ begun = left.begun
  /\ lease = [r \in Runs |-> 0]
  /\ usr = [r \in Runs |-> FALSE] /\ sealed = [r \in Runs |-> FALSE]
  /\ owner = [r \in Runs |-> 0]
  /\ marker = [r \in Runs |-> "none"]
  /\ lock = [r \in Runs |-> Nobody]
  /\ sup = [p \in Procs |-> NoSup]
  /\ group = [c \in Commands |-> NoGroup]

CommandOf(p) == sup[p].command
GroupOf(p)   == group[CommandOf(p)]

Alive(c) == group[c].leader = "alive" \/ group[c].kid # "none"

\* Somebody can still write to the pipes of the command.
Open(c) == (group[c].leader = "alive" /\ group[c].writes) \/ group[c].kid = "loud"

\* SIGKILL to the group of a leader that has exited.
LeaderOnly(g) == [g EXCEPT !.kid = "none"]
-----------------------------------------------------------------------------
\* The first uid of the pool that no workspace has, 0 when all are leased.
Leases == {lease[r] : r \in Runs} \ {0}

FreeUid == LET free == Uids \ Leases
           IN  IF free = {} THEN 0 ELSE CHOOSE u \in free : \A v \in free : u <= v

\* _lease_uid: a workspace keeps its uid for good; a new one takes a free one.
Lease(p) ==
  /\ at[p] = "ready"
  /\ \/ lease[on[p]] # 0 /\ Walk(p, "leased") /\ UNCHANGED lease
     \/ /\ lease[on[p]] = 0
        /\ IF FreeUid = 0 THEN Fail(p) ELSE Walk(p, "leased")
        /\ lease' = [lease EXCEPT ![on[p]] = FreeUid]
  /\ UNCHANGED <<store, starts, usr, owner, sealed, marker, lock, sup, group, begun>>

Unlocked_Always(r) == TRUE
Unlocked(r) == lock[r] = Nobody

\* NsjailSandbox.execute: a second command in the workspace is refused, never
\* queued.
Lock(p) ==
  /\ at[p] = "leased"
  /\ IF Unlocked(on[p])
     THEN lock' = [lock EXCEPT ![on[p]] = p] /\ Walk(p, "locked")
     ELSE UNCHANGED lock /\ Fail(p)
  /\ UNCHANGED <<store, starts, jail, sup, group, begun>>

\* An error under the lock gives the lock back.
FailLocked(p) == Fail(p) /\ lock' = [lock EXCEPT ![on[p]] = Nobody]

Prepared_Copied(r) == usr[r]
Prepared(r) == marker[r] = "written"

\* _prepare, in the order of its effects on disk: a written marker says it is
\* done, a copied template without one says it never will be.
Recognise(p) ==
  /\ at[p] = "locked"
  /\ \/ Prepared(on[p]) /\ Walk(p, "prepared") /\ UNCHANGED lock
     \/ marker[on[p]] = "torn" /\ FailLocked(p)
     \/ marker[on[p]] = "none" /\ usr[on[p]] /\ FailLocked(p)
     \/ marker[on[p]] = "none" /\ ~usr[on[p]] /\ Walk(p, "copy") /\ UNCHANGED lock
  /\ UNCHANGED <<store, starts, jail, sup, group, begun>>

CopyTemplate(p) ==
  /\ at[p] = "copy"
  /\ \E copied \in BOOLEAN : usr' = [usr EXCEPT ![on[p]] = copied]
  /\ \/ usr'[on[p]] /\ Walk(p, "chown") /\ UNCHANGED lock
     \/ FailLocked(p)
  /\ UNCHANGED <<store, starts, lease, owner, sealed, marker, sup, group, begun>>

HandOver(p) ==
  /\ at[p] = "chown"
  /\ owner' = [owner EXCEPT ![on[p]] = lease[on[p]]]
  /\ Walk(p, "seal")
  /\ UNCHANGED <<store, starts, lease, usr, sealed, marker, lock, sup, group, begun>>

SealGit(p) ==
  /\ at[p] = "seal"
  /\ sealed' = [sealed EXCEPT ![on[p]] = TRUE]
  /\ Walk(p, "mark")
  /\ UNCHANGED <<store, starts, lease, usr, owner, marker, lock, sup, group, begun>>

\* The marker is written in place: a crash may leave half of it.
WriteMarker(p) ==
  /\ at[p] = "mark"
  /\ marker' = [marker EXCEPT ![on[p]] = "written"]
  /\ Walk(p, "prepared")
  /\ UNCHANGED <<store, starts, lease, usr, owner, sealed, lock, sup, group, begun>>
-----------------------------------------------------------------------------
\* run_bounded, up to the start of the command in a session of its own; a
\* cancelled run or a full disk starts nothing.
Begin(p) ==
  /\ at[p] = "prepared"
  /\ \/ FailLocked(p) /\ UNCHANGED <<sup, group, begun>>
     \/ /\ begun + 1 \in Commands
        /\ begun' = begun + 1
        /\ group' = [group EXCEPT ![begun'] =
                       [NoGroup EXCEPT !.run = on[p], !.leader = "alive", !.writes = TRUE]]
        /\ sup' = [sup EXCEPT ![p] = [NoSup EXCEPT !.command = begun']]
        /\ Walk(p, "loop") /\ UNCHANGED lock
  /\ UNCHANGED <<store, starts, jail>>

\* Leaving the loop for the kill in the finally clause.
Stop(p, status) ==
  /\ sup' = [sup EXCEPT ![p].status = status]
  /\ Walk(p, "kill")

\* The deadline is looked at as long as anything of the command may go on.
Overdue_Reading(p) == sup[p].late /\ at[p] # "wait"
Overdue(p) == sup[p].late

\* Everything was read and nobody can write any more.
Drained(p) == GroupOf(p).said = sup[p].heard /\ ~Open(CommandOf(p))

\* One turn of the loop over the open pipes: cancellation and deadline first,
\* then the output that is there; pipes that are closed end the loop.
Loop(p) ==
  /\ at[p] = "loop"
  /\ \/ sup[p].cancelled /\ Stop(p, "cancelled")
     \/ ~sup[p].cancelled /\ Overdue(p) /\ Stop(p, "timeout")
     \/ /\ ~sup[p].cancelled /\ ~Overdue(p)
        /\ sup' = [sup EXCEPT ![p].heard = GroupOf(p).said]
        /\ Walk(p, IF Drained(p) THEN "wait" ELSE "poll")
  /\ UNCHANGED <<store, starts, jail, lock, group, begun>>

\* The end of a turn: a leader that has exited takes its descendants with it;
\* what is still in the pipes is read in the next turns.
AfterExit == "loop"

Poll(p) ==
  /\ at[p] = "poll"
  /\ IF GroupOf(p).leader = "alive"
     THEN Walk(p, "loop") /\ UNCHANGED group
     ELSE Walk(p, AfterExit) /\ group' = [group EXCEPT ![CommandOf(p)] = LeaderOnly(@)]
  /\ UNCHANGED <<store, starts, jail, lock, sup, begun>>

\* In such a turn the command is found to have filled the disk (it is scanned
\* twice a second) or to have flooded the pipes.
LimitHit(p) ==
  /\ at[p] = "loop" /\ ~sup[p].cancelled /\ ~Overdue(p) /\ Alive(CommandOf(p))
  /\ \/ Stop(p, "disk_limit")
     \/ Open(CommandOf(p)) /\ Stop(p, "output_limit")
  /\ UNCHANGED <<store, starts, jail, lock, group, begun>>

\* The pipes are closed; the leader may still run.
Wait(p) ==
  /\ at[p] = "wait"
  /\ \/ GroupOf(p).leader # "alive" /\ Stop(p, "completed")
     \/ GroupOf(p).leader = "alive" /\ sup[p].cancelled /\ Stop(p, "cancelled")
     \/ GroupOf(p).leader = "alive" /\ ~sup[p].cancelled /\ Overdue(p) /\ Stop(p, "timeout")
  /\ UNCHANGED <<store, starts, jail, lock, group, begun>>

\* The finally clause: the group is killed and the leader reaped; then the
\* result, with an exit code if the command completed, and the lock.
Kill(p) ==
  /\ at[p] = "kill"
  /\ group' = [group EXCEPT ![CommandOf(p)] = NoGroup]
  /\ sup' = [sup EXCEPT ![p] = NoSup]
  /\ lock' = [lock EXCEPT ![on[p]] = Nobody]
  /\ Walk(p, "ready")
  /\ UNCHANGED <<store, starts, jail, begun>>

DeadlinePasses(p) ==
  /\ at[p] \in {"loop", "poll", "wait"} /\ ~sup[p].late
  /\ sup' = [sup EXCEPT ![p].late = TRUE]
  /\ UNCHANGED <<store, making, jail, lock, group, begun>>

CancellationComes(p) ==
  /\ at[p] \in {"loop", "poll", "wait"} /\ ~sup[p].cancelled
  /\ sup' = [sup EXCEPT ![p].cancelled = TRUE]
  /\ UNCHANGED <<store, making, jail, lock, group, begun>>
-----------------------------------------------------------------------------
\* What a command does: its leader writes, closes its pipes, forks a
\* descendant that keeps the pipes or not, and exits.
Behave(c) ==
  LET g == group[c] IN
  /\ g.leader = "alive"
  /\ \/ g.writes /\ g.said = 0 /\ group' = [group EXCEPT ![c].said = 1]
     \/ g.writes /\ group' = [group EXCEPT ![c].writes = FALSE]
     \/ /\ g.kid = "none"
        /\ \E kid \in {"silent"} \cup IF g.writes THEN {"loud"} ELSE {} :
             group' = [group EXCEPT ![c].kid = kid]
     \/ group' = [group EXCEPT ![c].leader = IF g.orphan THEN "none" ELSE "exited"]
  /\ UNCHANGED <<store, making, jail, lock, sup, begun>>

\* NsJail's own time limit ends a command nobody supervises any more; it
\* does not know of the descendants.
JailExpires(c) ==
  /\ group[c].orphan /\ group[c].leader = "alive"
  /\ group' = [group EXCEPT ![c].leader = "none"]
  /\ UNCHANGED <<store, making, jail, lock, sup, begun>>

\* The command of a supervisor that died: nobody reads its pipes.
Orphan(g) == [NoGroup EXCEPT !.run = g.run, !.orphan = TRUE,
                             !.leader = IF g.leader = "alive" THEN "alive" ELSE "none",
                             !.kid = IF g.kid = "none" THEN "none" ELSE "silent"]

\* A harness process dies; the kernel drops its lock, and the command lives
\* on.  A template that was being copied is there in part, a marker that was
\* being written is torn.
Crash(p) ==
  /\ Leave(p)
  /\ lock' = [r \in Runs |-> IF lock[r] = p THEN Nobody ELSE lock[r]]
  /\ sup' = [sup EXCEPT ![p] = NoSup]
  /\ group' = IF CommandOf(p) = 0 THEN group ELSE [group EXCEPT ![CommandOf(p)] = Orphan(@)]
  /\ \/ UNCHANGED <<usr, marker>>
     \/ at[p] = "copy" /\ usr' = [usr EXCEPT ![on[p]] = TRUE] /\ UNCHANGED marker
     \/ at[p] = "mark" /\ marker' = [marker EXCEPT ![on[p]] = "torn"] /\ UNCHANGED usr
  /\ UNCHANGED <<lease, owner, sealed, begun>>

Supervise(p) == Loop(p) \/ Poll(p) \/ Wait(p) \/ Kill(p)

Next ==
  \/ \E p \in Procs :
       \/ MakeWorkspace(p) /\ UNCHANGED <<jail, lock, sup, group, begun>>
       \/ Lease(p) \/ Lock(p) \/ Recognise(p) \/ CopyTemplate(p) \/ HandOver(p) \/ SealGit(p)
       \/ WriteMarker(p) \/ Begin(p) \/ Supervise(p) \/ LimitHit(p)
       \/ DeadlinePasses(p) \/ CancellationComes(p) \/ Crash(p)
  \/ \E c \in Commands : Behave(c) \/ JailExpires(c)

Spec == Init /\ [][Next]_vars

\* The supervisor is scheduled and the clock runs; nothing is asked of the
\* command.
FairSpec ==
  /\ Spec
  /\ \A p \in Procs : WF_vars(Supervise(p)) /\ WF_vars(DeadlinePasses(p))
=============================================================================

--------------------------- MODULE SandboxProofs ---------------------------
(***************************************************************************)
(* For any processes, runs, repositories, uids and crashes: snapshots are  *)
(* whole, commands run in prepared workspaces of their own uid, and two of *)
(* them meet in one workspace only after a crash.                          *)
(***************************************************************************)
EXTENDS SandboxSafety, FiniteSetTheorems, WellFoundedInduction, TLAPS

Groups == [run : Runs \cup {Nobody}, leader : {"none", "alive", "exited"}, writes : BOOLEAN,
           kid : {"none", "loud", "silent"}, said : 0 .. 1, orphan : BOOLEAN]

Sups == [command : Commands \cup {0}, status : Statuses, heard : 0 .. 1,
         late : BOOLEAN, cancelled : BOOLEAN]

\* The steps of a harness process, and of a command.
ProcStep(p) ==
  \/ MakeWorkspace(p) /\ UNCHANGED <<jail, lock, sup, group, begun>>
  \/ Lease(p) \/ Lock(p) \/ Recognise(p) \/ CopyTemplate(p) \/ HandOver(p) \/ SealGit(p)
  \/ WriteMarker(p) \/ Begin(p) \/ Supervise(p) \/ LimitHit(p)
  \/ DeadlinePasses(p) \/ CancellationComes(p) \/ Crash(p)

CommandStep(c) == Behave(c) \/ JailExpires(c)

\* The supervisor of a process watches a command exactly while it runs.
Watching ==
  \A p \in Procs : /\ at[p] \in Running => sup[p].command \in Commands
                   /\ at[p] \notin Running => sup[p] = NoSup
                   /\ at[p] \notin {"idle", "failed"} => on[p] \in Runs

\* The smallest of a set of numbers.
LEMMA Smallest ==
  ASSUME NEW S, S \subseteq Nat, S # {}
  PROVE  \E u \in S : \A v \in S : u <= v
<1>1. PICK u \in S : \A v \in S : <<v, u>> \notin OpToRel(<, Nat)
  BY NatLessThanWellFounded, WFMin, Zenon
<1>2. ASSUME NEW v \in S PROVE u <= v
  <2>1. ~(v < u)
    BY <1>1 DEF OpToRel
  <2> QED
    BY <2>1
<1> QED
  BY <1>2

\* A leased uid is in the pool and nobody else has it.
LEMMA FreeUidIsFree ==
  FreeUid = 0 \/ (FreeUid \in Uids /\ FreeUid \notin Leases /\ FreeUid # 0)
<1> DEFINE free == Uids \ Leases
<1>1. CASE free = {}
  BY <1>1 DEF FreeUid
<1>2. CASE free # {}
  <2>1. \E u \in free : \A v \in free : u <= v
    BY <1>2, Smallest, SandboxAssumption
  <2>2. FreeUid \in free
    BY <1>2, <2>1 DEF FreeUid
  <2> QED
    BY <2>2, SandboxAssumption
<1> QED
  BY <1>1, <1>2

\* A process changes its own place, run, directory and supervisor only.
LEMMA Local ==
  ASSUME TypeOK, NEW p \in Procs, ProcStep(p), NEW q \in Procs \ {p}
  PROVE  at'[q] = at[q] /\ on'[q] = on[q] /\ tree'[q] = tree[q] /\ sup'[q] = sup[q]
<1>a. /\ at \in [Procs -> Labels] /\ on \in [Procs -> Runs \cup {Nobody}]
      /\ tree \in [Procs -> Trees] /\ sup \in [Procs -> Sups]
  BY DEF TypeOK, Sups
<1> USE <1>a DEF Goto, Walk, Fail
<1>1. CASE MakeWorkspace(p) /\ sup' = sup
  <2>1. ASSUME NEW r \in Runs, Create(p, r) \/ Resume(p, r)
        PROVE  at'[q] = at[q] /\ on'[q] = on[q] /\ tree'[q] = tree[q]
    BY <2>1 DEF Create, Resume
  <2>2. ASSUME NEW source, Unpack(p, source)
        PROVE  at'[q] = at[q] /\ on'[q] = on[q] /\ tree'[q] = tree[q]
    BY <2>2 DEF Unpack
  <2>3. CASE FetchLocal(p) \/ FetchClone(p)
    BY <1>1, <2>2, <2>3 DEF FetchLocal, FetchClone
  <2>4. CASE FetchArchive(p)
    BY <1>1, <2>2, <2>4 DEF FetchArchive
  <2>5. CASE InitLocalRepo(p) \/ Publish(p)
    BY <1>1, <2>5 DEF InitLocalRepo, Publish
  <2>6. CASE CloneStarts(p) \/ CloneEnds(p)
    BY <1>1, <2>6 DEF CloneStarts, CloneEnds
  <2> QED
    BY <1>1, <2>1, <2>3, <2>4, <2>5, <2>6 DEF MakeWorkspace
<1>2. CASE Lease(p) \/ Lock(p) \/ Recognise(p) \/ CopyTemplate(p)
  BY <1>2 DEF Lease, Lock, Recognise, CopyTemplate, FailLocked
<1>3. CASE HandOver(p) \/ SealGit(p) \/ WriteMarker(p) \/ Begin(p)
  BY <1>3 DEF HandOver, SealGit, WriteMarker, Begin, FailLocked
<1>4. CASE Supervise(p) \/ LimitHit(p)
  BY <1>4 DEF Supervise, Loop, Poll, Wait, Kill, LimitHit, Stop
<1>5. CASE DeadlinePasses(p) \/ CancellationComes(p) \/ Crash(p)
  BY <1>5 DEF DeadlinePasses, CancellationComes, Crash, Leave, making
<1> QED
  BY <1>1, <1>2, <1>3, <1>4, <1>5 DEF ProcStep

\* A command changes its own group only, gives no life to what is dead, and
\* stays whose and where it is.
LEMMA CommandMoves ==
  ASSUME TypeOK, NEW c \in Commands, CommandStep(c)
  PROVE  /\ UNCHANGED <<store, making, jail, lock, sup, begun>>
         /\ group' \in [Commands -> Groups]
         /\ \A d \in Commands : /\ group'[d].run = group[d].run
                                /\ group'[d].orphan = group[d].orphan
                                /\ Alive(d) \/ group'[d] = group[d]
<1>a. group \in [Commands -> Groups] /\ group[c] \in Groups
  BY DEF TypeOK, Groups
<1>1. UNCHANGED <<store, making, jail, lock, sup, begun>> /\ group[c].leader = "alive"
  BY DEF CommandStep, Behave, JailExpires
<1>2. \E g \in Groups : /\ group' = [group EXCEPT ![c] = g]
                        /\ g.run = group[c].run /\ g.orphan = group[c].orphan
  <2>1. \/ group' = [group EXCEPT ![c].said = 1]
        \/ group' = [group EXCEPT ![c].writes = FALSE]
        \/ \E kid \in {"silent", "loud"} : group' = [group EXCEPT ![c].kid = kid]
        \/ \E leader \in {"none", "exited"} : group' = [group EXCEPT ![c].leader = leader]
    BY DEF CommandStep, Behave, JailExpires
  <2>2. CASE group' = [group EXCEPT ![c].said = 1]
    <3>1. [group[c] EXCEPT !.said = 1] \in Groups
      BY <1>a DEF Groups
    <3> QED
      BY <1>a, <2>2, <3>1 DEF Groups
  <2>3. CASE group' = [group EXCEPT ![c].writes = FALSE]
    <3>1. [group[c] EXCEPT !.writes = FALSE] \in Groups
      BY <1>a DEF Groups
    <3> QED
      BY <1>a, <2>3, <3>1 DEF Groups
  <2>4. ASSUME NEW kid \in {"silent", "loud"}, group' = [group EXCEPT ![c].kid = kid]
        PROVE  \E g \in Groups : /\ group' = [group EXCEPT ![c] = g]
                                 /\ g.run = group[c].run /\ g.orphan = group[c].orphan
    <3>1. [group[c] EXCEPT !.kid = kid] \in Groups
      BY <1>a DEF Groups
    <3> QED
      BY <1>a, <2>4, <3>1 DEF Groups
  <2>5. ASSUME NEW leader \in {"none", "exited"}, group' = [group EXCEPT ![c].leader = leader]
        PROVE  \E g \in Groups : /\ group' = [group EXCEPT ![c] = g]
                                 /\ g.run = group[c].run /\ g.orphan = group[c].orphan
    <3>1. [group[c] EXCEPT !.leader = leader] \in Groups
      BY <1>a DEF Groups
    <3> QED
      BY <1>a, <2>5, <3>1 DEF Groups
  <2> QED
    BY <2>1, <2>2, <2>3, <2>4, <2>5
<1>3. PICK g \in Groups : /\ group' = [group EXCEPT ![c] = g]
                          /\ g.run = group[c].run /\ g.orphan = group[c].orphan
  BY <1>2
<1>4. group' \in [Commands -> Groups]
  BY <1>a, <1>3
<1>5. ASSUME NEW d \in Commands
      PROVE  /\ group'[d].run = group[d].run
             /\ group'[d].orphan = group[d].orphan
             /\ Alive(d) \/ group'[d] = group[d]
  <2>1. CASE d = c
    BY <1>a, <1>1, <1>3, <2>1 DEF Alive
  <2>2. CASE d # c
    BY <1>a, <1>3, <2>2
  <2> QED
    BY <2>1, <2>2
<1> QED
  BY <1>1, <1>4, <1>5

-----------------------------------------------------------------------------
(* Types.                                                                  *)

\* What the builders and checkouts consist of, and what the sandbox.
CacheTypes ==
  /\ cache \in [Keys -> Trees] /\ tree \in [Procs -> Trees]
  /\ checkout \in [Runs -> {"absent", "partial", "ready"}]
  /\ at \in [Procs -> Labels] /\ on \in [Procs -> Runs \cup {Nobody}]
  /\ starts \in [Procs -> 0 .. MaxStarts]

JailTypes ==
  /\ lease \in [Runs -> Uids \cup {0}] /\ owner \in [Runs -> Uids \cup {0}]
  /\ usr \in [Runs -> BOOLEAN] /\ sealed \in [Runs -> BOOLEAN]
  /\ marker \in [Runs -> {"none", "torn", "written"}]
  /\ lock \in [Runs -> Procs \cup {Nobody}]

CommandTypes ==
  /\ sup \in [Procs -> Sups] /\ group \in [Commands -> Groups]
  /\ begun \in Commands \cup {0}

\* The type invariant, in three parts.
LEMMA Types == TypeOK <=> CacheTypes /\ JailTypes /\ CommandTypes
BY DEF TypeOK, CacheTypes, JailTypes, CommandTypes, Sups, Groups

\* The place and run of the process that moves, after a step of the cache.
LEMMA CacheTyping ==
  ASSUME CacheTypes, Watching, NEW p \in Procs, MakeWorkspace(p)
  PROVE  /\ CacheTypes'
         /\ at[p] \notin Running /\ at'[p] \notin Running
         /\ at'[p] \notin {"idle", "failed"} => on'[p] \in Runs
<1>a. /\ cache \in [Keys -> Trees] /\ tree \in [Procs -> Trees]
      /\ checkout \in [Runs -> {"absent", "partial", "ready"}]
      /\ at \in [Procs -> Labels] /\ on \in [Procs -> Runs \cup {Nobody}]
      /\ starts \in [Procs -> 0 .. MaxStarts] /\ MaxStarts \in Nat
  BY SnapshotCacheAssumption DEF CacheTypes
<1>b. NoTree \in Trees
  BY DEF NoTree, Trees
<1> DEFINE Goal == /\ CacheTypes'
                   /\ at[p] \notin Running /\ at'[p] \notin Running
                   /\ at'[p] \notin {"idle", "failed"} => on'[p] \in Runs
<1> DEFINE Moved == /\ at' \in [Procs -> Labels] /\ on' \in [Procs -> Runs \cup {Nobody}]
                    /\ tree' \in [Procs -> Trees]
                    /\ at[p] \notin Running /\ at'[p] \notin Running
                    /\ at'[p] \notin {"idle", "failed"} => on'[p] \in Runs
<1>1. ASSUME NEW r \in Runs, Create(p, r) \/ Resume(p, r) PROVE Goal
  <2>1. at[p] = "idle" /\ starts' \in [Procs -> 0 .. MaxStarts]
    BY <1>a, <1>1 DEF Create, Resume
  <2>2. \E label \in {"failed", "clone", "fetch", "ready"} : at' = [at EXCEPT ![p] = label]
    BY <1>1 DEF Create, Resume
  <2>3. on' = [on EXCEPT ![p] = r] /\ UNCHANGED <<cache, checkout, tree>>
    BY <1>1 DEF Create, Resume, store
  <2> QED
    BY <1>a, <2>1, <2>2, <2>3 DEF CacheTypes, Labels, Running, Building
<1>2. ASSUME Fail(p), at[p] \notin Running PROVE Moved
  BY <1>a, <1>b, <1>2 DEF Fail, Labels, Running
<1>3. ASSUME NEW label \in Building \cup {"ready", "beaten"}, Goto(p, label), tree' \in [Procs -> Trees],
             at[p] \in Building
      PROVE  Moved
  BY <1>a, <1>3 DEF Goto, Labels, Running, Building, Watching
<1>4. ASSUME NEW source \in {"local", "archive", "clone"}, Unpack(p, source), at[p] \in Building PROVE Moved
  <2>1. CASE Fail(p)
    BY <1>2, <1>4, <2>1 DEF Building, Running
  <2>2. CASE tree' = [tree EXCEPT ![p].from = @ \cup {source}] /\ Goto(p, "init")
    <3>1. [tree[p] EXCEPT !.from = @ \cup {source}] \in Trees
      BY <1>a DEF Trees
    <3>2. tree' \in [Procs -> Trees]
      BY <1>a, <2>2, <3>1
    <3> QED
      BY <1>3, <1>4, <2>2, <3>2 DEF Building
  <2> QED
    BY <1>4, <2>1, <2>2 DEF Unpack
<1>5. ASSUME FetchLocal(p) \/ FetchClone(p) PROVE Goal
  <2>1. Moved
    BY <1>2, <1>4, <1>5 DEF FetchLocal, FetchClone, Building, Running
  <2> QED
    BY <1>a, <1>5, <2>1 DEF FetchLocal, FetchClone, store, CacheTypes
<1>6. ASSUME FetchArchive(p) PROVE Goal
  <2>1. at[p] = "fetch"
    BY <1>6 DEF FetchArchive
  <2>2. ASSUME Unpack(p, "archive") \/ Fail(p) PROVE Moved
    BY <1>2, <1>4, <2>1, <2>2 DEF Building, Running
  <2>3. ASSUME Walk(p, "fallback") PROVE Moved
    BY <1>a, <1>3, <2>1, <2>3 DEF Walk, Building
  <2>4. ASSUME Goto(p, "fallback") /\ tree' = [tree EXCEPT ![p].from = {"archive"}] PROVE Moved
    <3>1. [tree[p] EXCEPT !.from = {"archive"}] \in Trees
      BY <1>a DEF Trees
    <3>2. tree' \in [Procs -> Trees]
      BY <1>a, <2>4, <3>1
    <3> QED
      BY <1>3, <2>1, <2>4, <3>2 DEF Building
  <2>5. Moved
    BY <1>6, <2>2, <2>3, <2>4 DEF FetchArchive
  <2> QED
    BY <1>a, <1>6, <2>5 DEF FetchArchive, store, CacheTypes
<1>7. ASSUME InitLocalRepo(p) PROVE Goal
  <2>1. ASSUME Fail(p) PROVE Moved
    BY <1>2, <1>7, <2>1 DEF InitLocalRepo, Running
  <2>2. ASSUME tree' = [tree EXCEPT ![p].git = TRUE] /\ Goto(p, "publish") PROVE Moved
    <3>1. [tree[p] EXCEPT !.git = TRUE] \in Trees
      BY <1>a DEF Trees
    <3>2. tree' \in [Procs -> Trees]
      BY <1>a, <2>2, <3>1
    <3> QED
      BY <1>3, <1>7, <2>2, <3>2 DEF InitLocalRepo, Building
  <2>3. Moved
    BY <1>7, <2>1, <2>2 DEF InitLocalRepo
  <2> QED
    BY <1>a, <1>7, <2>3 DEF InitLocalRepo, store, CacheTypes
<1>8. ASSUME Publish(p) PROVE Goal
  <2>1. at[p] = "publish" /\ tree' = [tree EXCEPT ![p] = NoTree] /\ UNCHANGED <<checkout, starts>>
    BY <1>8 DEF Publish
  <2>2. \E label \in {"clone", "beaten"} : Goto(p, label)
    BY <1>8 DEF Publish
  <2>3. cache' \in [Keys -> Trees]
    BY <1>a, <1>8 DEF Publish
  <2>4. tree' \in [Procs -> Trees]
    BY <1>a, <1>b, <2>1
  <2>5. Moved
    BY <1>3, <2>1, <2>2, <2>4 DEF Building
  <2> QED
    BY <1>a, <2>1, <2>3, <2>5 DEF CacheTypes
<1>9. ASSUME CloneStarts(p) \/ CloneEnds(p) PROVE Goal
  <2>1. at[p] \in {"clone", "cloning"} /\ UNCHANGED <<cache, starts>>
    BY <1>9 DEF CloneStarts, CloneEnds
  <2>2. checkout' \in [Runs -> {"absent", "partial", "ready"}]
    BY <1>a, <1>9 DEF CloneStarts, CloneEnds
  <2>3. Fail(p) \/ Walk(p, "cloning") \/ Walk(p, "ready")
    BY <1>9 DEF CloneStarts, CloneEnds
  <2>4. Moved
    BY <1>a, <1>2, <1>3, <2>1, <2>3 DEF Walk, Building, Running
  <2> QED
    BY <1>a, <2>1, <2>2, <2>4 DEF CacheTypes
<1> QED
  BY <1>1, <1>5, <1>6, <1>7, <1>8, <1>9 DEF MakeWorkspace

\* A process moves on, or ends, and the rest of its state keeps its type.
LEMMA Walking ==
  ASSUME CacheTypes, NEW p \in Procs, NEW label \in Labels, Walk(p, label), UNCHANGED <<store, starts>>
  PROVE  CacheTypes' /\ at'[p] = label /\ on' = on /\ tree' = tree
BY DEF CacheTypes, Walk, Goto, store

\* A process that ends drops its directory and its run.
LEMMA Failing ==
  ASSUME CacheTypes, NEW p \in Procs, Fail(p), UNCHANGED <<store, starts>>
  PROVE  CacheTypes' /\ at'[p] = "failed"
BY DEF CacheTypes, Fail, store, Labels, NoTree, Trees

\* What holds of the process that moves.
Posted(p) ==
  /\ at[p] \in Running => sup[p].command \in Commands
  /\ at[p] \notin Running => sup[p] = NoSup
  /\ at[p] \notin {"idle", "failed"} => on[p] \in Runs

\* The steps that lease a uid, lock a run and prepare it keep the types.
LEMMA JailTyping ==
  ASSUME TypeOK, NEW p \in Procs, Posted(p),
         \/ Lease(p) \/ Lock(p) \/ Recognise(p) \/ CopyTemplate(p) \/ HandOver(p) \/ SealGit(p)
         \/ WriteMarker(p)
  PROVE  TypeOK' /\ Posted(p)'
<1>a. CacheTypes /\ JailTypes /\ CommandTypes
  BY Types
<1>b. UNCHANGED <<sup, group, begun>> /\ UNCHANGED <<store, starts>>
  BY DEF Lease, Lock, Recognise, CopyTemplate, HandOver, SealGit, WriteMarker, jail
<1>c. CommandTypes'
  BY <1>a, <1>b DEF CommandTypes
<1>d. at[p] \in Labels /\ at[p] \notin Running \cup {"idle", "failed"}
  BY <1>a DEF CacheTypes, Lease, Lock, Recognise, CopyTemplate, HandOver, SealGit, WriteMarker, Running
<1>1. ASSUME Fail(p) PROVE CacheTypes' /\ Posted(p)'
  BY <1>1, <1>a, <1>b, <1>d, Failing DEF Posted, Running
<1>2. ASSUME NEW label \in {"leased"} \cup Preparing, Walk(p, label) PROVE CacheTypes' /\ Posted(p)'
  <2>1. CacheTypes' /\ at'[p] = label /\ on' = on
    BY <1>2, <1>a, <1>b, Walking DEF Labels
  <2> QED
    BY <2>1, <1>b, <1>d DEF Posted, Running, Preparing
<1>3. ASSUME Lease(p) PROVE JailTypes' /\ CacheTypes' /\ Posted(p)'
  <2>1. JailTypes'
    BY <1>a, <1>3, FreeUidIsFree DEF Lease, JailTypes
  <2>2. Fail(p) \/ Walk(p, "leased")
    BY <1>3 DEF Lease
  <2> QED
    BY <1>1, <1>2, <2>1, <2>2
<1>4. ASSUME Lock(p) PROVE JailTypes' /\ CacheTypes' /\ Posted(p)'
  <2>1. JailTypes'
    BY <1>a, <1>4 DEF Lock, JailTypes, jail
  <2>2. Fail(p) \/ Walk(p, "locked")
    BY <1>4 DEF Lock
  <2> QED
    BY <1>1, <1>2, <2>1, <2>2 DEF Preparing
<1>5. ASSUME Recognise(p) PROVE JailTypes' /\ CacheTypes' /\ Posted(p)'
  <2>1. JailTypes'
    BY <1>a, <1>5 DEF Recognise, FailLocked, JailTypes, jail
  <2>2. Fail(p) \/ Walk(p, "prepared") \/ Walk(p, "copy")
    BY <1>5 DEF Recognise, FailLocked
  <2> QED
    BY <1>1, <1>2, <2>1, <2>2 DEF Preparing
<1>6. ASSUME CopyTemplate(p) PROVE JailTypes' /\ CacheTypes' /\ Posted(p)'
  <2>1. JailTypes'
    BY <1>a, <1>6 DEF CopyTemplate, FailLocked, JailTypes
  <2>2. Fail(p) \/ Walk(p, "chown")
    BY <1>6 DEF CopyTemplate, FailLocked
  <2> QED
    BY <1>1, <1>2, <2>1, <2>2 DEF Preparing
<1>7. ASSUME HandOver(p) PROVE JailTypes' /\ CacheTypes' /\ Posted(p)'
  <2>1. JailTypes'
    BY <1>a, <1>7, <1>d DEF HandOver, JailTypes, Posted
  <2> QED
    BY <1>2, <1>7, <2>1 DEF HandOver, Preparing
<1>8. ASSUME SealGit(p) \/ WriteMarker(p) PROVE JailTypes' /\ CacheTypes' /\ Posted(p)'
  <2>1. JailTypes'
    BY <1>a, <1>8 DEF SealGit, WriteMarker, JailTypes
  <2>2. Walk(p, "mark") \/ Walk(p, "prepared")
    BY <1>8 DEF SealGit, WriteMarker
  <2> QED
    BY <1>2, <2>1, <2>2 DEF Preparing
<1>9. JailTypes' /\ CacheTypes' /\ Posted(p)'
  BY <1>3, <1>4, <1>5, <1>6, <1>7, <1>8
<1> QED
  BY <1>c, <1>9 DEF TypeOK, CacheTypes, JailTypes, CommandTypes, Sups, Groups

\* The supervisor and the crash.
LEMMA CommandTyping ==
  ASSUME TypeOK, NEW p \in Procs, Posted(p),
         \/ Begin(p) \/ Supervise(p) \/ LimitHit(p)
         \/ DeadlinePasses(p) \/ CancellationComes(p) \/ Crash(p)
  PROVE  TypeOK' /\ Posted(p)'
<1>a. CacheTypes /\ JailTypes /\ CommandTypes
  BY Types
<1>b. NoSup \in Sups /\ NoGroup \in Groups
  BY DEF NoSup, NoGroup, Sups, Groups, Statuses
<1>c. ASSUME at[p] \in Running
      PROVE  /\ CommandOf(p) \in Commands /\ group[CommandOf(p)] \in Groups
             /\ sup[p] \in Sups /\ on[p] \in Runs
  BY <1>a, <1>c DEF Posted, CommandOf, CommandTypes, Running
<1>s. ASSUME NEW status \in Statuses, Stop(p, status), at[p] \in Running, UNCHANGED <<store, starts>>
      PROVE  CacheTypes' /\ sup' \in [Procs -> Sups] /\ Posted(p)'
  <2>1. CacheTypes' /\ at'[p] = "kill" /\ on' = on
    BY <1>s, <1>a, Walking DEF Stop, Labels, Running
  <2>2. [sup[p] EXCEPT !.status = status] \in Sups
    BY <1>c, <1>s DEF Sups
  <2>3. sup' = [sup EXCEPT ![p] = [sup[p] EXCEPT !.status = status]]
    BY <1>s DEF Stop
  <2>4. sup'[p].command = sup[p].command
    BY <1>a, <1>c, <1>s, <2>3 DEF CommandTypes, Sups
  <2> QED
    BY <1>a, <1>c, <1>s, <2>1, <2>2, <2>3, <2>4 DEF CommandTypes, Posted, Running
<1>1. CASE Begin(p)
  <2>0. at[p] = "prepared" /\ on[p] \in Runs /\ UNCHANGED <<store, starts>> /\ UNCHANGED jail
    BY <1>1 DEF Begin, Posted
  <2>1. CASE FailLocked(p) /\ UNCHANGED <<sup, group, begun>>
    <3>1. CacheTypes' /\ at'[p] = "failed"
      BY <1>a, <2>0, <2>1, Failing DEF FailLocked
    <3>2. JailTypes' /\ CommandTypes'
      BY <1>a, <2>0, <2>1 DEF FailLocked, JailTypes, CommandTypes, jail
    <3> QED
      BY <2>0, <2>1, <3>1, <3>2 DEF Posted, Running, TypeOK, CacheTypes, JailTypes, CommandTypes, Sups, Groups
  <2>2. CASE ~(FailLocked(p) /\ UNCHANGED <<sup, group, begun>>)
    <3> DEFINE g == [NoGroup EXCEPT !.run = on[p], !.leader = "alive", !.writes = TRUE]
               u == [NoSup EXCEPT !.command = begun']
    <3>1. /\ begun' = begun + 1 /\ begun' \in Commands /\ Walk(p, "loop") /\ UNCHANGED lock
          /\ group' = [group EXCEPT ![begun'] = g] /\ sup' = [sup EXCEPT ![p] = u]
      BY <1>1, <2>2 DEF Begin
    <3>2. g \in Groups /\ u \in Sups /\ u.command = begun'
      BY <1>b, <2>0, <3>1 DEF NoGroup, NoSup, Groups, Sups, Statuses
    <3>3. CacheTypes' /\ at'[p] = "loop" /\ on' = on
      BY <1>a, <2>0, <3>1, Walking DEF Labels, Running
    <3>4. JailTypes' /\ CommandTypes'
      BY <1>a, <2>0, <3>1, <3>2 DEF JailTypes, CommandTypes, jail
    <3>5. Posted(p)'
      BY <1>a, <2>0, <3>1, <3>2, <3>3 DEF Posted, Running, CommandTypes
    <3> QED
      BY <3>3, <3>4, <3>5 DEF TypeOK, CacheTypes, JailTypes, CommandTypes, Sups, Groups
  <2> QED
    BY <2>1, <2>2
<1>2. CASE Loop(p)
  <2>0. at[p] = "loop" /\ at[p] \in Running /\ UNCHANGED <<store, starts>> /\ UNCHANGED <<jail, lock, group, begun>>
    BY <1>2 DEF Loop, Running
  <2>1. CASE Stop(p, "cancelled") \/ Stop(p, "timeout")
    BY <1>s, <2>0, <2>1, <1>a DEF Statuses, TypeOK, CacheTypes, JailTypes, CommandTypes, Sups, Groups, jail
  <2>2. CASE ~(Stop(p, "cancelled") \/ Stop(p, "timeout"))
    <3> DEFINE u == [sup[p] EXCEPT !.heard = GroupOf(p).said]
    <3>1. sup' = [sup EXCEPT ![p] = u] /\ (Walk(p, "wait") \/ Walk(p, "poll"))
      BY <1>2, <2>2 DEF Loop
    <3>2. u \in Sups /\ u.command = sup[p].command
      BY <1>c, <2>0 DEF Sups, Groups, GroupOf
    <3>3. CacheTypes' /\ at'[p] \in Running /\ on' = on
      BY <1>a, <2>0, <3>1, Walking DEF Labels, Running
    <3>4. JailTypes' /\ CommandTypes' /\ sup'[p] = u
      BY <1>a, <2>0, <3>1, <3>2 DEF JailTypes, CommandTypes, jail
    <3> QED
      BY <1>c, <2>0, <3>2, <3>3, <3>4
         DEF Posted, Running, CommandOf, TypeOK, CacheTypes, JailTypes, CommandTypes, Sups, Groups
  <2> QED
    BY <2>1, <2>2
<1>3. CASE Poll(p)
  <2>0. at[p] = "poll" /\ at[p] \in Running /\ UNCHANGED <<store, starts>> /\ UNCHANGED <<jail, lock, sup, begun>>
    BY <1>3 DEF Poll, Running
  <2>1. Walk(p, "loop")
    BY <1>3 DEF Poll, AfterExit
  <2>2. CacheTypes' /\ at'[p] \in Running /\ on' = on
    BY <1>a, <2>0, <2>1, Walking DEF Labels, Running
  <2>3. LeaderOnly(group[CommandOf(p)]) \in Groups
    BY <1>c, <2>0 DEF LeaderOnly, Groups
  <2>4. CommandTypes'
    BY <1>a, <1>3, <2>0, <2>3 DEF Poll, CommandTypes
  <2> QED
    BY <1>a, <1>c, <2>0, <2>2, <2>4
       DEF Posted, Running, CommandOf, TypeOK, CacheTypes, JailTypes, CommandTypes, Sups, Groups, jail
<1>4. CASE Wait(p) \/ LimitHit(p)
  <2>0. at[p] \in Running /\ UNCHANGED <<store, starts>> /\ UNCHANGED <<jail, lock, group, begun>>
    BY <1>4 DEF Wait, LimitHit, Running
  <2>1. \E status \in Statuses : Stop(p, status)
    BY <1>4 DEF Wait, LimitHit, Statuses
  <2>2. CacheTypes' /\ sup' \in [Procs -> Sups] /\ Posted(p)'
    BY <1>s, <2>0, <2>1
  <2> QED
    BY <2>0, <2>2, <1>a DEF TypeOK, CacheTypes, JailTypes, CommandTypes, Sups, Groups, jail
<1>5. CASE Kill(p)
  <2>0. at[p] \in Running /\ UNCHANGED <<store, starts>> /\ Walk(p, "ready")
    BY <1>5 DEF Kill, Running
  <2>1. CacheTypes' /\ at'[p] = "ready" /\ on' = on
    BY <1>a, <2>0, Walking DEF Labels
  <2>2. JailTypes' /\ CommandTypes' /\ sup'[p] = NoSup
    BY <1>a, <1>b, <1>c, <2>0, <1>5 DEF Kill, JailTypes, CommandTypes, jail
  <2> QED
    BY <1>c, <2>0, <2>1, <2>2 DEF Posted, Running, TypeOK, CacheTypes, JailTypes, CommandTypes, Sups, Groups
<1>6. CASE DeadlinePasses(p) \/ CancellationComes(p)
  <2>0. at[p] \in Running /\ UNCHANGED <<store, making, jail, lock, group, begun>>
    BY <1>6 DEF DeadlinePasses, CancellationComes, Running
  <2>1. \E u \in Sups : u.command = sup[p].command /\ sup' = [sup EXCEPT ![p] = u]
    <3>1. /\ [sup[p] EXCEPT !.late = TRUE] \in Sups /\ [sup[p] EXCEPT !.cancelled = TRUE] \in Sups
          /\ [sup[p] EXCEPT !.late = TRUE].command = sup[p].command
          /\ [sup[p] EXCEPT !.cancelled = TRUE].command = sup[p].command
      BY <1>c, <2>0 DEF Sups
    <3>2. \/ sup' = [sup EXCEPT ![p] = [sup[p] EXCEPT !.late = TRUE]]
          \/ sup' = [sup EXCEPT ![p] = [sup[p] EXCEPT !.cancelled = TRUE]]
      BY <1>6 DEF DeadlinePasses, CancellationComes
    <3> QED
      BY <3>1, <3>2
  <2>2. sup' \in [Procs -> Sups] /\ sup'[p].command = sup[p].command
    BY <1>a, <2>1 DEF CommandTypes
  <2> QED
    BY <1>a, <1>c, <2>0, <2>2
       DEF Posted, Running, CommandOf, TypeOK, CacheTypes, JailTypes, CommandTypes, Sups, Groups, jail, store, making
<1>7. CASE Crash(p)
  <2>1. CacheTypes' /\ at'[p] = "idle"
    BY <1>a, <1>7 DEF Crash, Leave, CacheTypes, store, Labels, NoTree, Trees
  <2>2. JailTypes'
    <3>1. \/ UNCHANGED <<usr, marker>>
          \/ usr' = [usr EXCEPT ![on[p]] = TRUE] /\ UNCHANGED marker
          \/ marker' = [marker EXCEPT ![on[p]] = "torn"] /\ UNCHANGED usr
      BY <1>7 DEF Crash
    <3>2. usr' \in [Runs -> BOOLEAN] /\ marker' \in [Runs -> {"none", "torn", "written"}]
      BY <1>a, <3>1 DEF JailTypes
    <3>3. lock' \in [Runs -> Procs \cup {Nobody}]
      BY <1>a, <1>7 DEF Crash, JailTypes
    <3> QED
      BY <1>a, <1>7, <3>2, <3>3 DEF Crash, JailTypes
  <2>3. CommandTypes' /\ sup'[p] = NoSup
    <3>1. sup' = [sup EXCEPT ![p] = NoSup] /\ begun' = begun
      BY <1>7 DEF Crash
    <3>2. ASSUME NEW c \in Commands PROVE Orphan(group[c]) \in Groups
      <4>1. group[c] \in Groups
        BY <1>a DEF CommandTypes
      <4>2. /\ (IF group[c].leader = "alive" THEN "alive" ELSE "none") \in {"none", "alive", "exited"}
            /\ (IF group[c].kid = "none" THEN "none" ELSE "silent") \in {"none", "loud", "silent"}
        OBVIOUS
      <4>3. group[c].run \in Runs \cup {Nobody}
        BY <4>1 DEF Groups
      <4>4. ASSUME NEW run \in Runs \cup {Nobody}, NEW leader \in {"none", "alive", "exited"},
                   NEW kid \in {"none", "loud", "silent"}
            PROVE  [NoGroup EXCEPT !.run = run, !.orphan = TRUE, !.leader = leader, !.kid = kid] \in Groups
        <5>1. [NoGroup EXCEPT !.run = run] \in Groups
          BY <1>b DEF Groups
        <5>2. [[NoGroup EXCEPT !.run = run] EXCEPT !.orphan = TRUE] \in Groups
          BY <5>1 DEF Groups
        <5>3. [[NoGroup EXCEPT !.run = run, !.orphan = TRUE] EXCEPT !.leader = leader] \in Groups
          BY <5>2 DEF Groups
        <5>4. [[NoGroup EXCEPT !.run = run, !.orphan = TRUE, !.leader = leader] EXCEPT !.kid = kid] \in Groups
          BY <5>3 DEF Groups
        <5> QED
          BY <5>4
      <4> QED
        BY <4>2, <4>3, <4>4 DEF Orphan
    <3>3. group' \in [Commands -> Groups]
      BY <1>a, <1>7, <3>2 DEF Crash, CommandTypes
    <3> QED
      BY <1>a, <1>b, <3>1, <3>3 DEF CommandTypes
  <2> QED
    BY <2>1, <2>2, <2>3 DEF Posted, Running, TypeOK, CacheTypes, JailTypes, CommandTypes, Sups, Groups
<1> QED
  BY <1>1, <1>2, <1>3, <1>4, <1>5, <1>6, <1>7 DEF Supervise

\* A machine with earlier checkouts and nothing running.
LEMMA SandboxInit == Init => TypeOK /\ Watching
<1> SUFFICES ASSUME Init PROVE TypeOK /\ Watching
  OBVIOUS
<1>1. PICK left \in Leftovers : CacheInit(left.checkout, left.starts) /\ begun = left.begun
  BY DEF Init
<1>2. /\ left.checkout \in [Runs -> {"absent", "partial", "ready"}]
      /\ left.starts \in [Procs -> 0 .. MaxStarts] /\ left.begun \in Commands \cup {0}
  BY SandboxAssumption
<1>3. CacheTypes
  BY <1>1, <1>2 DEF CacheInit, CacheTypes, Whole, NoTree, Trees, Labels
<1>4. JailTypes /\ CommandTypes
  BY <1>1, <1>2 DEF Init, JailTypes, CommandTypes, NoSup, NoGroup, Sups, Groups, Statuses
<1>5. Watching
  BY <1>1 DEF Init, CacheInit, Watching, Running
<1> QED
  BY <1>3, <1>4, <1>5, Types

\* A step is one of a process or one of a command.
LEMMA SandboxSteps ==
  ASSUME [Next]_vars
  PROVE  \/ \E p \in Procs : ProcStep(p)
         \/ \E c \in Commands : CommandStep(c)
         \/ UNCHANGED vars
BY DEF Next, ProcStep, CommandStep

\* Every step keeps the types and the watch.
LEMMA SandboxTyping == TypeOK /\ Watching /\ [Next]_vars => (TypeOK /\ Watching)'
<1> SUFFICES ASSUME TypeOK, Watching, [Next]_vars PROVE TypeOK' /\ Watching'
  OBVIOUS
<1>1. ASSUME NEW p \in Procs, ProcStep(p) PROVE TypeOK' /\ Watching'
  <2>1. Posted(p)
    BY DEF Posted, Watching
  <2>2. TypeOK' /\ Posted(p)'
    <3>1. CASE MakeWorkspace(p) /\ UNCHANGED <<jail, lock, sup, group, begun>>
      <4>1. /\ CacheTypes' /\ at[p] \notin Running /\ at'[p] \notin Running
            /\ at'[p] \notin {"idle", "failed"} => on'[p] \in Runs
        BY <3>1, CacheTyping, Types
      <4>2. JailTypes' /\ CommandTypes'
        BY <3>1, Types DEF JailTypes, CommandTypes, jail
      <4> QED
        BY <2>1, <3>1, <4>1, <4>2 DEF Posted, TypeOK, CacheTypes, JailTypes, CommandTypes, Sups, Groups
    <3> QED
      BY <1>1, <2>1, <3>1, JailTyping, CommandTyping DEF ProcStep
  <2>3. ASSUME NEW q \in Procs \ {p} PROVE at'[q] = at[q] /\ on'[q] = on[q] /\ sup'[q] = sup[q]
    BY <1>1, <2>3, Local
  <2> QED
    BY <2>2, <2>3 DEF Watching, Posted
<1>2. ASSUME NEW c \in Commands, CommandStep(c) PROVE TypeOK' /\ Watching'
  <2>1. UNCHANGED <<store, making, jail, lock, sup, begun>> /\ group' \in [Commands -> Groups]
    BY <1>2, CommandMoves
  <2> QED
    BY <2>1 DEF TypeOK, Watching, store, making, jail, Groups
<1>3. CASE UNCHANGED vars
  BY <1>3 DEF TypeOK, Watching, vars, store, making, jail
<1> QED
  BY <1>1, <1>2, <1>3, SandboxSteps

\* Every reachable state is well typed, from any checkouts left by earlier
\* processes.
THEOREM SandboxIsTyped == Spec => []TypeOK
<1>1. TypeOK /\ Watching /\ [Next]_vars => (TypeOK /\ Watching)'
  BY SandboxTyping
<1> QED
  BY <1>1, SandboxInit, PTL DEF Spec

\* A process watches a command from its start to the end of the supervision
\* and at no other time (run_bounded).
THEOREM SupervisorsWatch == Spec => []Watching
<1>1. TypeOK /\ Watching /\ [Next]_vars => (TypeOK /\ Watching)'
  BY SandboxTyping
<1> QED
  BY <1>1, SandboxInit, PTL DEF Spec

-----------------------------------------------------------------------------
(* Snapshots.                                                              *)

Single(S) == \E x : S = {x}

\* A builder unpacks into an empty directory of its own and adds nothing.
Sources ==
  /\ \A p \in Procs : /\ at[p] \in {"idle", "fetch"} => tree[p] = NoTree
                      /\ at[p] \in {"init", "publish"} => Single(tree[p].from)
                      /\ at[p] = "publish" => tree[p].git
  /\ \A k \in Keys : cache[k] # NoTree => cache[k].git /\ Single(cache[k].from)

\* Earlier snapshots were whole.
LEMMA SourcesInit == Init => Sources
<1> SUFFICES ASSUME Init PROVE Sources
  OBVIOUS
<1>1. PICK left \in Leftovers : CacheInit(left.checkout, left.starts)
  BY DEF Init
<1>2. ASSUME NEW k \in Keys, cache[k] # NoTree PROVE cache[k].git /\ Single(cache[k].from)
  <2>1. cache[k] = Whole(k)
    BY <1>1, <1>2 DEF CacheInit
  <2>2. Whole(k).git /\ Whole(k).from = {IF Origin[k] = "local" THEN "local" ELSE "clone"}
    BY DEF Whole
  <2> QED
    BY <2>1, <2>2 DEF Single
<1> QED
  BY <1>1, <1>2 DEF CacheInit, Sources

\* No step of a builder, or of anything after it, mixes two sources.
LEMMA SourcesStep ==
  ASSUME TypeOK, Watching, Sources, NEW p \in Procs, ProcStep(p)
  PROVE  Sources'
<1>a. /\ at \in [Procs -> Labels] /\ tree \in [Procs -> Trees] /\ cache \in [Keys -> Trees]
      /\ on \in [Procs -> Runs \cup {Nobody}]
  BY DEF TypeOK
<1> DEFINE Mine == /\ at'[p] \in {"idle", "fetch"} => tree'[p] = NoTree
                   /\ at'[p] \in {"init", "publish"} => Single(tree'[p].from)
                   /\ at'[p] = "publish" => tree'[p].git
           Cached == \A k \in Keys : cache'[k] # NoTree => cache'[k].git /\ Single(cache'[k].from)
<1>c. ASSUME cache' = cache PROVE Cached
  BY <1>c DEF Sources
<1>f. ASSUME Fail(p) PROVE Mine
  BY <1>a, <1>f DEF Fail
<1>w. ASSUME NEW label, Goto(p, label), label \notin {"idle", "fetch", "init", "publish"} PROVE Mine
  BY <1>a, <1>w DEF Goto
<1>u. ASSUME NEW source, Unpack(p, source) PROVE Mine
  <2>1. CASE MayUnpack(p)
    <3>1. tree[p].from = {} /\ tree[p].from \cup {source} = {source}
      BY <2>1 DEF MayUnpack, NoTree
    <3>2. tree' = [tree EXCEPT ![p].from = @ \cup {source}] /\ Goto(p, "init")
      BY <1>u, <2>1 DEF Unpack
    <3>3. tree'[p].from = {source} /\ at'[p] = "init"
      BY <1>a, <3>1, <3>2 DEF Trees, Goto
    <3> QED
      BY <3>3 DEF Single
  <2> QED
    BY <1>f, <1>u, <2>1 DEF Unpack
<1>1. CASE MakeWorkspace(p)
  <2>1. ASSUME NEW r \in Runs, Create(p, r) \/ Resume(p, r) PROVE Mine /\ Cached
    <3>1. at[p] = "idle" /\ tree' = tree /\ cache' = cache
      BY <2>1 DEF Create, Resume, store
    <3>2. at'[p] \in {"failed", "clone", "fetch", "ready"}
      BY <1>a, <2>1 DEF Create, Resume
    <3> QED
      BY <1>c, <3>1, <3>2 DEF Sources
  <2>2. ASSUME FetchLocal(p) \/ FetchClone(p) PROVE Mine /\ Cached
    BY <1>c, <1>f, <1>u, <2>2 DEF FetchLocal, FetchClone, store
  <2>3. ASSUME FetchArchive(p) PROVE Mine /\ Cached
    <3>1. Unpack(p, "archive") \/ Goto(p, "fallback") \/ Fail(p)
      BY <2>3 DEF FetchArchive, Walk
    <3> QED
      BY <1>c, <1>f, <1>u, <1>w, <2>3, <3>1 DEF FetchArchive, store
  <2>4. ASSUME InitLocalRepo(p) PROVE Mine /\ Cached
    <3>1. at[p] = "init" /\ cache' = cache
      BY <2>4 DEF InitLocalRepo, store
    <3>2. ASSUME tree' = [tree EXCEPT ![p].git = TRUE], Goto(p, "publish") PROVE Mine
      <4>1. tree'[p].git /\ tree'[p].from = tree[p].from /\ at'[p] = "publish"
        BY <1>a, <3>2 DEF Trees, Goto
      <4> QED
        BY <3>1, <4>1 DEF Sources
    <3> QED
      BY <1>c, <1>f, <2>4, <3>1, <3>2 DEF InitLocalRepo
  <2>5. ASSUME Publish(p) PROVE Mine /\ Cached
    <3>1. at[p] = "publish" /\ (Goto(p, "clone") \/ Goto(p, "beaten"))
      BY <2>5 DEF Publish
    <3>2. cache' = cache \/ cache' = [cache EXCEPT ![KeyOn(p)] = tree[p]]
      BY <2>5 DEF Publish
    <3>3. Cached
      BY <1>a, <1>c, <3>1, <3>2 DEF Sources
    <3> QED
      BY <1>w, <3>1, <3>3
  <2>6. ASSUME CloneStarts(p) \/ CloneEnds(p) PROVE Mine /\ Cached
    BY <1>c, <1>f, <1>w, <2>6 DEF CloneStarts, CloneEnds, Walk
  <2> QED
    BY <1>1, <2>1, <2>2, <2>3, <2>4, <2>5, <2>6, Local DEF MakeWorkspace, Sources
<1>2. ASSUME Lease(p) \/ Lock(p) \/ Recognise(p) \/ CopyTemplate(p) \/ HandOver(p) \/ SealGit(p) \/ WriteMarker(p)
      PROVE  Mine /\ Cached
  <2>1. \/ Fail(p)
        \/ \E label \in {"leased", "locked", "prepared", "copy", "chown", "seal", "mark"} : Goto(p, label)
    BY <1>2 DEF Lease, Lock, Recognise, CopyTemplate, HandOver, SealGit, WriteMarker, FailLocked, Walk
  <2>2. cache' = cache
    BY <1>2 DEF Lease, Lock, Recognise, CopyTemplate, HandOver, SealGit, WriteMarker, store
  <2> QED
    BY <1>c, <1>f, <1>w, <2>1, <2>2
<1>3. ASSUME Begin(p) \/ Supervise(p) \/ LimitHit(p) PROVE Mine /\ Cached
  <2>1. Fail(p) \/ \E label \in {"loop", "wait", "poll", "kill", "ready"} : Goto(p, label)
    BY <1>3 DEF Begin, Supervise, Loop, Poll, Wait, Kill, LimitHit, Stop, FailLocked, Walk, AfterExit
  <2>2. cache' = cache
    BY <1>3 DEF Begin, Supervise, Loop, Poll, Wait, Kill, LimitHit, store
  <2> QED
    BY <1>c, <1>f, <1>w, <2>1, <2>2
<1>4. ASSUME DeadlinePasses(p) \/ CancellationComes(p) PROVE Mine /\ Cached
  BY <1>c, <1>4 DEF DeadlinePasses, CancellationComes, making, store, Sources
<1>5. ASSUME Crash(p) PROVE Mine /\ Cached
  BY <1>a, <1>c, <1>5 DEF Crash, Leave, store
<1>6. Mine /\ Cached
  BY <1>1, <1>2, <1>3, <1>4, <1>5 DEF ProcStep, Sources
<1> QED
  BY <1>6, Local DEF Sources

\* A published snapshot is the files of one source under Git, whoever builds,
\* falls back to a clone or is killed meanwhile (WorkspaceManager.create).
THEOREM SnapshotsArePublishedWhole == Spec => []SnapshotsAreWhole
<1>1. TypeOK /\ Watching /\ Sources /\ [Next]_vars => Sources'
  <2> SUFFICES ASSUME TypeOK, Watching, Sources, [Next]_vars PROVE Sources'
    OBVIOUS
  <2>1. ASSUME NEW c \in Commands, CommandStep(c) PROVE Sources'
    BY <2>1, CommandMoves DEF Sources, store, making
  <2>2. CASE UNCHANGED vars
    BY <2>2 DEF Sources, vars, store, making
  <2> QED
    BY <2>1, <2>2, SourcesStep, SandboxSteps
<1>2. Sources => SnapshotsAreWhole
  <2>1. ASSUME NEW S, Single(S) PROVE Cardinality(S) = 1
    BY <2>1, FS_Singleton DEF Single
  <2> QED
    BY <2>1 DEF Sources, SnapshotsAreWhole
<1> QED
  BY <1>1, <1>2, SourcesInit, SandboxIsTyped, SupervisorsWatch, PTL DEF Spec

-----------------------------------------------------------------------------
(* Locks and supervisors.                                                  *)

Locking == Preparing \cup Running

\* A process that prepares a workspace or runs a command in it has its lock;
\* a command whose supervisor lives is watched in its workspace; commands are
\* numbered as they start.
Supervised ==
  /\ \A p \in Procs : at[p] \in Locking => lock[on[p]] = p
  /\ \A p \in Procs : at[p] \in Running => sup[p].command <= begun
  /\ \A c \in Commands : c > begun => group[c] = NoGroup
  /\ \A c \in Commands : (Alive(c) /\ ~group[c].orphan) =>
       \E p \in Procs : at[p] \in Running /\ sup[p].command = c /\ on[p] = group[c].run

\* The lock of a run is taken when it is free and given back by its holder.
LEMMA LockMoves ==
  ASSUME TypeOK, Watching, Supervised, NEW p \in Procs, ProcStep(p)
  PROVE  /\ \A r \in Runs : lock[r] \in Procs \ {p} => lock'[r] = lock[r]
         /\ at'[p] \in Locking => lock'[on'[p]] = p
<1>a. /\ at \in [Procs -> Labels] /\ on \in [Procs -> Runs \cup {Nobody}]
      /\ lock \in [Runs -> Procs \cup {Nobody}] /\ Nobody \notin Procs
  BY SnapshotCacheAssumption DEF TypeOK
<1>b. /\ at[p] \in Locking => lock[on[p]] = p
      /\ at[p] \notin {"idle", "failed"} => on[p] \in Runs
  BY DEF Supervised, Watching
<1>f. ASSUME FailLocked(p), at[p] \in Preparing
      PROVE  /\ \A r \in Runs : lock[r] \in Procs \ {p} => lock'[r] = lock[r]
             /\ at'[p] \notin Locking
  BY <1>a, <1>b, <1>f DEF FailLocked, Fail, Locking, Preparing, Running
<1>k. ASSUME UNCHANGED lock, at'[p] \notin Locking \/ (at[p] \in Locking /\ on' = on)
      PROVE  /\ \A r \in Runs : lock[r] \in Procs \ {p} => lock'[r] = lock[r]
             /\ at'[p] \in Locking => lock'[on'[p]] = p
  BY <1>b, <1>k
<1>w. ASSUME NEW label, Walk(p, label) PROVE at'[p] = label /\ on' = on
  BY <1>a, <1>w DEF Walk, Goto
<1>x. ASSUME Fail(p) PROVE at'[p] = "failed"
  BY <1>a, <1>x DEF Fail
<1>1. CASE MakeWorkspace(p) /\ UNCHANGED <<jail, lock, sup, group, begun>>
  <2>1. at'[p] \in {"failed", "clone", "fetch", "ready", "init", "fallback", "publish", "beaten", "cloning"}
    <3>1. ASSUME NEW r \in Runs, Create(p, r) \/ Resume(p, r)
          PROVE  at'[p] \in {"failed", "clone", "fetch", "ready"}
      BY <1>a, <3>1 DEF Create, Resume
    <3>2. CASE FetchLocal(p) \/ FetchArchive(p) \/ FetchClone(p)
      BY <1>a, <3>2 DEF FetchLocal, FetchArchive, FetchClone, Unpack, Walk, Goto, Fail
    <3>3. CASE InitLocalRepo(p) \/ Publish(p)
      BY <1>a, <3>3 DEF InitLocalRepo, Publish, Goto, Fail
    <3>4. CASE CloneStarts(p) \/ CloneEnds(p)
      BY <1>a, <3>4 DEF CloneStarts, CloneEnds, Walk, Goto, Fail
    <3> QED
      BY <1>1, <3>1, <3>2, <3>3, <3>4 DEF MakeWorkspace
  <2> QED
    BY <1>1, <1>k, <2>1 DEF Locking, Preparing, Running
<1>2. CASE Lease(p)
  BY <1>2, <1>k, <1>w, <1>x DEF Lease, Locking, Preparing, Running
<1>3. CASE Lock(p)
  <2>1. at[p] = "leased" /\ on[p] \in Runs
    BY <1>3, <1>b DEF Lock
  <2>2. CASE lock[on[p]] = Nobody
    BY <1>3, <1>a, <1>w, <2>1, <2>2 DEF Lock, Unlocked
  <2>3. CASE lock[on[p]] # Nobody
    BY <1>3, <1>k, <1>x, <2>3 DEF Lock, Unlocked, Locking, Preparing, Running
  <2> QED
    BY <2>2, <2>3
<1>4. CASE Recognise(p) \/ CopyTemplate(p) \/ Begin(p)
  <2>1. at[p] \in Preparing
    BY <1>4 DEF Recognise, CopyTemplate, Begin, Preparing
  <2>2. FailLocked(p) \/ (UNCHANGED lock /\ \E label : Walk(p, label))
    BY <1>4 DEF Recognise, CopyTemplate, Begin
  <2> QED
    BY <1>f, <1>k, <1>w, <2>1, <2>2 DEF Locking
<1>5. CASE HandOver(p) \/ SealGit(p) \/ WriteMarker(p)
  <2>1. at[p] \in Preparing /\ UNCHANGED lock /\ \E label : Walk(p, label)
    BY <1>5 DEF HandOver, SealGit, WriteMarker, Preparing
  <2> QED
    BY <1>k, <1>w, <2>1 DEF Locking
<1>6. CASE Loop(p) \/ Poll(p) \/ Wait(p) \/ LimitHit(p)
  <2>1. at[p] \in Running /\ UNCHANGED lock /\ \E label : Walk(p, label)
    BY <1>6 DEF Loop, Poll, Wait, LimitHit, Stop, Running
  <2> QED
    BY <1>k, <1>w, <2>1 DEF Locking
<1>7. CASE Kill(p)
  <2>1. at[p] \in Locking /\ at'[p] = "ready" /\ lock' = [lock EXCEPT ![on[p]] = Nobody]
    BY <1>7, <1>w DEF Kill, Locking, Running
  <2> QED
    BY <1>a, <1>b, <2>1 DEF Locking, Preparing, Running
<1>8. CASE DeadlinePasses(p) \/ CancellationComes(p)
  BY <1>8, <1>k DEF DeadlinePasses, CancellationComes, making, Locking, Running
<1>9. CASE Crash(p)
  <2>1. at'[p] = "idle" /\ lock' = [r \in Runs |-> IF lock[r] = p THEN Nobody ELSE lock[r]]
    BY <1>9, <1>a DEF Crash, Leave
  <2> QED
    BY <2>1 DEF Locking, Preparing, Running
<1> QED
  BY <1>1, <1>2, <1>3, <1>4, <1>5, <1>6, <1>7, <1>8, <1>9 DEF ProcStep, Supervise

\* The command a process watches.
Watches(p, c) == at[p] \in Running /\ sup[p].command = c

\* A group is changed by the supervisor that watches it: it goes on, or the
\* command is dead or left behind; a new group is watched from its start.
Begins(p, c) ==
  /\ Begin(p) /\ c = begun + 1 /\ begun' = c
  /\ Watches(p, c)' /\ on' = on /\ group'[c].run = on[p]

LEMMA GroupMoves ==
  ASSUME TypeOK, Watching, NEW p \in Procs, ProcStep(p), NEW c \in Commands
  PROVE  \/ /\ group'[c] = group[c]
            /\ Watches(p, c) => (Watches(p, c)' /\ on'[p] = on[p]) \/ group'[c].orphan \/ ~Alive(c)'
         \/ /\ Watches(p, c)
            /\ \/ ~Alive(c)' /\ group'[c] = NoGroup
               \/ /\ Alive(c)' => Alive(c)
                  /\ group'[c].run = group[c].run
                  /\ group'[c].orphan \/ (Watches(p, c)' /\ on'[p] = on[p] /\ group'[c].orphan = group[c].orphan)
         \/ Begins(p, c)
<1>a. /\ at \in [Procs -> Labels] /\ on \in [Procs -> Runs \cup {Nobody}]
      /\ sup \in [Procs -> Sups] /\ group \in [Commands -> Groups] /\ begun \in Commands \cup {0}
      /\ Commands \subseteq Nat \ {0}
  BY SandboxAssumption DEF TypeOK, Sups, Groups
<1>b. /\ at[p] \in Running => sup[p].command \in Commands
      /\ at[p] \notin Running => sup[p] = NoSup
  BY DEF Watching
<1>w. ASSUME NEW label, Walk(p, label) PROVE at'[p] = label /\ on' = on
  BY <1>a, <1>w DEF Walk, Goto
<1>s. ASSUME NEW status, Stop(p, status), at[p] \in Running
      PROVE  at'[p] \in Running /\ on' = on /\ sup'[p].command = sup[p].command
  <2>1. at'[p] = "kill" /\ on' = on
    BY <1>s, <1>w DEF Stop
  <2>2. sup'[p].command = sup[p].command
    BY <1>a, <1>s DEF Stop, Sups
  <2> QED
    BY <2>1, <2>2 DEF Running
<1>1. CASE MakeWorkspace(p) /\ UNCHANGED <<jail, lock, sup, group, begun>>
  <2>1. at[p] \notin Running
    BY <1>1, Types, CacheTyping
  <2> QED
    BY <1>1, <2>1 DEF Watches
<1>2. CASE Lease(p) \/ Lock(p) \/ Recognise(p) \/ CopyTemplate(p) \/ HandOver(p) \/ SealGit(p) \/ WriteMarker(p)
  <2>1. at[p] \notin Running /\ group' = group
    BY <1>2 DEF Lease, Lock, Recognise, CopyTemplate, HandOver, SealGit, WriteMarker, Running
  <2> QED
    BY <2>1 DEF Watches
<1>3. CASE Begin(p)
  <2>1. at[p] = "prepared"
    BY <1>3 DEF Begin
  <2>2. CASE group' = group
    BY <2>1, <2>2 DEF Watches, Running
  <2>3. CASE group' # group
    <3> DEFINE g == [NoGroup EXCEPT !.run = on[p], !.leader = "alive", !.writes = TRUE]
               u == [NoSup EXCEPT !.command = begun']
    <3>1. /\ begun' = begun + 1 /\ begun' \in Commands /\ Walk(p, "loop")
          /\ group' = [group EXCEPT ![begun'] = g] /\ sup' = [sup EXCEPT ![p] = u]
      BY <1>3, <2>3 DEF Begin
    <3>2. g.run = on[p] /\ u.command = begun'
      BY DEF NoGroup, NoSup
    <3>3. sup'[p].command = begun' /\ group'[begun'].run = on[p] /\ at'[p] = "loop" /\ on' = on
      BY <1>a, <1>w, <3>1, <3>2
    <3>4. CASE c = begun'
      BY <1>3, <3>1, <3>3, <3>4 DEF Begins, Watches, Running
    <3>5. CASE c # begun'
      BY <1>a, <2>1, <3>1, <3>5 DEF Watches, Running
    <3> QED
      BY <3>4, <3>5
  <2> QED
    BY <2>2, <2>3
<1>4. CASE Loop(p)
  <2>1. at[p] \in Running /\ group' = group
    BY <1>4 DEF Loop, Running
  <2>2. at'[p] \in Running /\ on' = on /\ sup'[p].command = sup[p].command
    <3>1. CASE \E status : Stop(p, status)
      BY <1>s, <2>1, <3>1
    <3>2. CASE sup' = [sup EXCEPT ![p].heard = GroupOf(p).said] /\ (Walk(p, "wait") \/ Walk(p, "poll"))
      BY <1>a, <1>w, <3>2 DEF Running, Sups
    <3> QED
      BY <1>4, <3>1, <3>2 DEF Loop
  <2> QED
    BY <2>1, <2>2 DEF Watches
<1>5. CASE Poll(p)
  <2>1. at[p] \in Running /\ sup' = sup /\ at'[p] \in Running /\ on' = on
    BY <1>5, <1>w DEF Poll, AfterExit, Running
  <2>2. CASE group' = group
    BY <2>1, <2>2 DEF Watches
  <2>3. CASE group' # group
    <3>1. group' = [group EXCEPT ![CommandOf(p)] = LeaderOnly(@)] /\ GroupOf(p).leader # "alive"
      BY <1>5, <2>3 DEF Poll
    <3>2. CASE c # CommandOf(p)
      BY <1>a, <2>1, <3>1, <3>2 DEF Watches, CommandOf
    <3>3. CASE c = CommandOf(p)
      <4>1. group'[c] = LeaderOnly(group[c]) /\ group[c] \in Groups
        BY <1>a, <3>1, <3>3
      <4>2. LeaderOnly(group[c]).run = group[c].run /\ LeaderOnly(group[c]).orphan = group[c].orphan
            /\ LeaderOnly(group[c]).leader = group[c].leader /\ LeaderOnly(group[c]).kid = "none"
        BY <4>1 DEF LeaderOnly, Groups
      <4> QED
        BY <2>1, <3>1, <3>3, <4>1, <4>2 DEF Watches, CommandOf, GroupOf, Alive
    <3> QED
      BY <3>2, <3>3
  <2> QED
    BY <2>2, <2>3
<1>6. CASE Wait(p) \/ LimitHit(p)
  <2>1. at[p] \in Running /\ group' = group /\ \E status : Stop(p, status)
    BY <1>6 DEF Wait, LimitHit, Running
  <2> QED
    BY <1>s, <2>1 DEF Watches
<1>7. CASE Kill(p)
  <2>1. at[p] \in Running /\ group' = [group EXCEPT ![CommandOf(p)] = NoGroup]
    BY <1>7 DEF Kill, Running
  <2>2. CASE c # CommandOf(p)
    BY <1>a, <2>1, <2>2 DEF Watches, CommandOf
  <2>3. CASE c = CommandOf(p)
    BY <1>a, <2>1, <2>3 DEF Watches, CommandOf, Alive, NoGroup
  <2> QED
    BY <2>2, <2>3
<1>8. CASE DeadlinePasses(p) \/ CancellationComes(p)
  <2>1. at' = at /\ on' = on /\ group' = group /\ sup'[p].command = sup[p].command
    BY <1>8, <1>a DEF DeadlinePasses, CancellationComes, making, Sups
  <2> QED
    BY <2>1 DEF Watches
<1>9. CASE Crash(p)
  <2>1. CASE CommandOf(p) = 0
    <3>1. at[p] \notin Running /\ group' = group
      BY <1>9, <1>a, <1>b, <2>1 DEF Crash, CommandOf
    <3> QED
      BY <3>1 DEF Watches
  <2>2. CASE CommandOf(p) # 0
    <3>1. at[p] \in Running /\ group' = [group EXCEPT ![CommandOf(p)] = Orphan(@)]
      BY <1>9, <1>b, <2>2 DEF Crash, CommandOf, NoSup
    <3>2. CASE c # CommandOf(p)
      BY <1>a, <3>1, <3>2 DEF Watches, CommandOf
    <3>3. CASE c = CommandOf(p)
      <4>1. group'[c] = Orphan(group[c])
        BY <1>a, <3>1, <3>3
      <4>2. /\ Orphan(group[c]).run = group[c].run /\ Orphan(group[c]).orphan
            /\ Orphan(group[c]).leader = (IF group[c].leader = "alive" THEN "alive" ELSE "none")
            /\ Orphan(group[c]).kid = (IF group[c].kid = "none" THEN "none" ELSE "silent")
        BY DEF Orphan, NoGroup
      <4> QED
        BY <3>1, <3>3, <4>1, <4>2 DEF Watches, CommandOf, Alive
    <3> QED
      BY <3>2, <3>3
  <2> QED
    BY <2>1, <2>2
<1> QED
  BY <1>1, <1>2, <1>3, <1>4, <1>5, <1>6, <1>7, <1>8, <1>9 DEF ProcStep, Supervise

\* What a step does to the count of commands and to the command of a process.
LEMMA CountMoves ==
  ASSUME TypeOK, Watching, NEW p \in Procs, ProcStep(p)
  PROVE  /\ begun' \in {begun, begun + 1} /\ begun \in Nat
         /\ at'[p] \in Running => sup'[p].command = begun' \/ (at[p] \in Running /\ sup'[p].command = sup[p].command)
<1>a. /\ at \in [Procs -> Labels] /\ on \in [Procs -> Runs \cup {Nobody}]
      /\ sup \in [Procs -> Sups] /\ begun \in Commands \cup {0} /\ begun \in Nat
  BY SandboxAssumption DEF TypeOK, Sups
<1>1. CASE MakeWorkspace(p) /\ UNCHANGED <<jail, lock, sup, group, begun>>
  <2>1. at'[p] \notin Running
    BY <1>1, Types, CacheTyping
  <2> QED
    BY <1>a, <1>1, <2>1
<1>2. CASE Lease(p) \/ Lock(p) \/ Recognise(p) \/ CopyTemplate(p) \/ HandOver(p) \/ SealGit(p) \/ WriteMarker(p)
  <2>1. begun' = begun
    BY <1>2 DEF Lease, Lock, Recognise, CopyTemplate, HandOver, SealGit, WriteMarker
  <2>2. Fail(p) \/ \E label \in {"leased", "locked", "prepared", "copy", "chown", "seal", "mark"} : Walk(p, label)
    BY <1>2 DEF Lease, Lock, Recognise, CopyTemplate, HandOver, SealGit, WriteMarker, FailLocked
  <2>3. at'[p] \notin Running
    BY <1>a, <2>2 DEF Fail, Walk, Goto, Running
  <2> QED
    BY <1>a, <2>1, <2>3
<1>3. CASE Begin(p)
  <2>1. CASE FailLocked(p) /\ UNCHANGED <<sup, group, begun>>
    BY <1>a, <2>1 DEF FailLocked, Fail, Running
  <2>2. CASE begun' = begun + 1 /\ sup' = [sup EXCEPT ![p] = [NoSup EXCEPT !.command = begun']]
    BY <1>a, <2>2 DEF NoSup
  <2> QED
    BY <1>3, <2>1, <2>2 DEF Begin
<1>4. CASE Loop(p) \/ Poll(p) \/ Wait(p) \/ LimitHit(p) \/ DeadlinePasses(p) \/ CancellationComes(p)
  <2>1. at[p] \in Running /\ begun' = begun
    BY <1>4 DEF Loop, Poll, Wait, LimitHit, DeadlinePasses, CancellationComes, Running
  <2>2. \/ \E status : sup' = [sup EXCEPT ![p].status = status]
        \/ \E said : sup' = [sup EXCEPT ![p].heard = said]
        \/ sup' = [sup EXCEPT ![p].late = TRUE]
        \/ sup' = [sup EXCEPT ![p].cancelled = TRUE]
        \/ sup' = sup
    BY <1>4 DEF Loop, Poll, Wait, LimitHit, DeadlinePasses, CancellationComes, Stop
  <2>3. sup'[p].command = sup[p].command
    <3>1. ASSUME NEW status, sup' = [sup EXCEPT ![p].status = status] PROVE sup'[p].command = sup[p].command
      BY <1>a, <3>1 DEF Sups
    <3>2. ASSUME NEW said, sup' = [sup EXCEPT ![p].heard = said] PROVE sup'[p].command = sup[p].command
      BY <1>a, <3>2 DEF Sups
    <3>3. CASE sup' = [sup EXCEPT ![p].late = TRUE] \/ sup' = [sup EXCEPT ![p].cancelled = TRUE]
      BY <1>a, <3>3 DEF Sups
    <3> QED
      BY <2>2, <3>1, <3>2, <3>3
  <2> QED
    BY <1>a, <2>1, <2>3
<1>5. CASE Kill(p) \/ Crash(p)
  BY <1>a, <1>5 DEF Kill, Crash, Leave, Walk, Goto, Running
<1> QED
  BY <1>1, <1>2, <1>3, <1>4, <1>5 DEF ProcStep, Supervise

\* Every step of a process keeps locks and supervisors together.
LEMMA SupervisedStep ==
  ASSUME TypeOK, Watching, Supervised, NEW p \in Procs, ProcStep(p)
  PROVE  Supervised'
<1>a. /\ \A q \in Procs : sup[q].command \in Nat
      /\ \A q \in Procs : at[q] \in Running => sup[q].command \in Commands
      /\ Commands \subseteq Nat \ {0} /\ begun \in Nat
  <2>1. sup \in [Procs -> Sups] /\ begun \in Nat
    BY CountMoves DEF TypeOK, Sups
  <2>2. Commands \subseteq Nat \ {0}
    BY SandboxAssumption
  <2>3. \A q \in Procs : sup[q].command \in Commands \cup {0}
    BY <2>1 DEF Sups
  <2>4. ASSUME NEW q \in Procs PROVE sup[q].command \in Nat
    <3>1. sup[q].command \in Commands \/ sup[q].command = 0
      BY <2>3
    <3>2. \A x \in Commands : x \in Nat
      BY <2>2
    <3>3. CASE sup[q].command \in Commands
      BY <3>2, <3>3, Zenon
    <3>4. CASE sup[q].command = 0
      BY <3>4
    <3> QED
      BY <3>1, <3>3, <3>4
  <2>5. \A q \in Procs : at[q] \in Running => sup[q].command \in Commands
    BY DEF Watching
  <2> QED
    BY <2>1, <2>2, <2>4, <2>5
<1>b. \A q \in Procs \ {p} : at'[q] = at[q] /\ on'[q] = on[q] /\ sup'[q] = sup[q]
  BY Local
<1>1. ASSUME NEW q \in Procs, at'[q] \in Locking PROVE lock'[on'[q]] = q
  <2>1. CASE q = p
    BY <1>1, <2>1, LockMoves
  <2>2. CASE q # p
    <3>1. at[q] \in Locking /\ on[q] \in Runs /\ lock[on[q]] = q
      BY <1>1, <1>b, <2>2 DEF Supervised, Watching, Locking, Preparing, Running
    <3> QED
      BY <1>b, <2>2, <3>1, LockMoves
  <2> QED
    BY <2>1, <2>2
<1>2. ASSUME NEW q \in Procs, at'[q] \in Running PROVE sup'[q].command <= begun'
  BY <1>2, <1>a, <1>b, CountMoves DEF Supervised
<1>3. ASSUME NEW c \in Commands, c > begun' PROVE group'[c] = NoGroup
  <2>1. c > begun /\ group[c] = NoGroup /\ ~Watches(p, c) /\ ~Begins(p, c)
    BY <1>3, <1>a, CountMoves DEF Supervised, Watches, Begins
  <2> QED
    BY <2>1, GroupMoves
<1>4. ASSUME NEW c \in Commands, Alive(c)', ~group'[c].orphan
      PROVE  \E q \in Procs : at'[q] \in Running /\ sup'[q].command = c /\ on'[q] = group'[c].run
  <2>1. CASE Begins(p, c)
    BY <2>1 DEF Begins, Watches
  <2>2. CASE ~Begins(p, c)
    <3>1. Alive(c) /\ group'[c].run = group[c].run
      BY <1>4, <2>2, GroupMoves DEF Alive
    <3>2. ~group[c].orphan
      BY <1>4, <2>2, GroupMoves
    <3>3. PICK q \in Procs : at[q] \in Running /\ sup[q].command = c /\ on[q] = group[c].run
      BY <3>1, <3>2 DEF Supervised
    <3>4. CASE q # p
      BY <1>b, <3>1, <3>3, <3>4
    <3>5. CASE q = p
      <4>1. Watches(p, c)' /\ on'[p] = on[p]
        BY <1>4, <2>2, <3>3, <3>5, GroupMoves DEF Watches
      <4> QED
        BY <3>1, <3>3, <3>5, <4>1 DEF Watches
    <3> QED
      BY <3>4, <3>5
  <2> QED
    BY <2>1, <2>2
<1> QED
  BY <1>1, <1>2, <1>3, <1>4 DEF Supervised

\* Nothing is locked at the start.
LEMMA SupervisedInit == Init => Supervised
BY DEF Init, CacheInit, Supervised, Locking, Preparing, Running, Alive, NoGroup

\* The lock of a run belongs to the process that prepares it or runs a command
\* in it, and a command nobody abandoned has its supervisor there.
THEOREM SupervisorsHoldTheLock == Spec => []Supervised
<1>1. TypeOK /\ Watching /\ Supervised /\ [Next]_vars => Supervised'
  <2> SUFFICES ASSUME TypeOK, Watching, Supervised, [Next]_vars PROVE Supervised'
    OBVIOUS
  <2>1. ASSUME NEW c \in Commands, CommandStep(c) PROVE Supervised'
    <3>1. UNCHANGED <<at, on, lock, sup, begun>>
      BY <2>1, CommandMoves DEF making
    <3>2. \A d \in Commands : /\ group'[d].run = group[d].run /\ group'[d].orphan = group[d].orphan
                              /\ Alive(d) \/ group'[d] = group[d]
      BY <2>1, CommandMoves
    <3>3. \A d \in Commands : Alive(d)' => Alive(d)
      BY <3>2 DEF Alive
    <3>4. \A d \in Commands : d > begun => ~Alive(d)
      BY DEF Supervised, NoGroup, Alive
    <3>5. \A d \in Commands : d > begun' => group'[d] = NoGroup
      BY <3>1, <3>2, <3>4 DEF Supervised
    <3> QED
      BY <3>1, <3>2, <3>3, <3>5 DEF Supervised
  <2>2. CASE UNCHANGED vars
    BY <2>2 DEF Supervised, Alive, vars, making
  <2> QED
    BY <2>1, <2>2, SupervisedStep, SandboxSteps
<1> QED
  BY <1>1, SupervisedInit, SandboxIsTyped, SupervisorsWatch, PTL DEF Spec

\* Two commands are at work in one workspace only if the supervisor of one of
\* them died, for any number of processes and commands (NsjailSandbox.execute,
\* run_bounded).
THEOREM CommandsMeetAfterACrash == Spec => []CommandsOverlapOnlyAfterCrash
<1>1. Watching /\ Supervised => CommandsOverlapOnlyAfterCrash
  <2> SUFFICES ASSUME Watching, Supervised,
                      NEW c \in Commands, NEW d \in Commands, c # d, Alive(c), Alive(d),
                      group[c].run = group[d].run, ~group[c].orphan, ~group[d].orphan
               PROVE  FALSE
    BY DEF CommandsOverlapOnlyAfterCrash
  <2>1. PICK p \in Procs : at[p] \in Running /\ sup[p].command = c /\ on[p] = group[c].run
    BY DEF Supervised
  <2>2. PICK q \in Procs : at[q] \in Running /\ sup[q].command = d /\ on[q] = group[d].run
    BY DEF Supervised
  <2>3. lock[on[p]] = p /\ lock[on[q]] = q
    BY <2>1, <2>2 DEF Supervised, Locking
  <2> QED
    BY <2>1, <2>2, <2>3
<1> QED
  BY <1>1, SupervisorsWatch, SupervisorsHoldTheLock, PTL

-----------------------------------------------------------------------------
(* Prepared workspaces.                                                    *)

Owning == {"leased"} \cup Locking

\* Checkouts: one process clones into a directory, and what is used is ready.
Checked ==
  /\ \A p, q \in Procs : (at[p] = "cloning" /\ at[q] = "cloning" /\ on[p] = on[q]) => p = q
  /\ \A p \in Procs : at[p] = "cloning" => checkout[on[p]] = "partial"
  /\ \A p \in Procs : at[p] \in {"ready"} \cup Owning => checkout[on[p]] = "ready"

\* Uids: leased for good, to one workspace each.
Leased ==
  /\ \A r, s \in Runs : (lease[r] # 0 /\ lease[r] = lease[s]) => r = s
  /\ \A p \in Procs : at[p] \in Owning => lease[on[p]] # 0

\* The steps of the preparation and what they leave behind them.
Prepares ==
  \A p \in Procs :
    /\ at[p] \in {"copy", "chown", "seal", "mark"} => marker[on[p]] = "none"
    /\ at[p] \in {"chown", "seal", "mark"} => usr[on[p]]
    /\ at[p] \in {"seal", "mark"} => owner[on[p]] = lease[on[p]]
    /\ at[p] = "mark" => sealed[on[p]]
    /\ at[p] \in {"prepared"} \cup Running => marker[on[p]] = "written"

Marked ==
  \A r \in Runs : marker[r] = "written" =>
    checkout[r] = "ready" /\ usr[r] /\ sealed[r] /\ lease[r] # 0 /\ owner[r] = lease[r]

Housed == \A c \in Commands : Alive(c) => group[c].run \in Runs /\ marker[group[c].run] = "written"

Ready == Checked /\ Leased /\ Prepares /\ Marked /\ Housed

\* The invariant implies the property.
LEMMA ReadyIsPrepared == Ready => CommandsRunPrepared
BY DEF Ready, Marked, Housed, Leased, CommandsRunPrepared

\* No workspace is prepared at the start.
LEMMA ReadyInit == Init => Ready
BY DEF Init, CacheInit, Ready, Checked, Leased, Prepares, Marked, Housed, Owning, Locking, Preparing,
   Running, Alive, NoGroup

\* A finished checkout stays, and so does one under construction by another.
LEMMA CheckoutMoves ==
  ASSUME TypeOK, Watching, Checked, NEW p \in Procs, ProcStep(p)
  PROVE  /\ \A r \in Runs : checkout[r] = "ready" => checkout'[r] = "ready"
         /\ Checked'
<1>a. /\ at \in [Procs -> Labels] /\ on \in [Procs -> Runs \cup {Nobody}]
      /\ checkout \in [Runs -> {"absent", "partial", "ready"}]
      /\ \A q \in Procs : at[q] \notin {"idle", "failed"} => on[q] \in Runs
  BY DEF TypeOK, Watching
<1>b. \A q \in Procs \ {p} : at'[q] = at[q] /\ on'[q] = on[q]
  BY Local
<1>w. ASSUME NEW label, Walk(p, label) PROVE at'[p] = label /\ on' = on
  BY <1>a, <1>w DEF Walk, Goto
<1>x. ASSUME Fail(p) PROVE at'[p] = "failed"
  BY <1>a, <1>x DEF Fail
<1> DEFINE Goal == (\A r \in Runs : checkout[r] = "ready" => checkout'[r] = "ready") /\ Checked'
<1>k. ASSUME checkout' = checkout, at'[p] # "cloning",
             at'[p] \in {"ready"} \cup Owning => checkout[on'[p]] = "ready"
      PROVE  Goal
  <2>1. \A q \in Procs : at'[q] = "cloning" => at[q] = "cloning" /\ on'[q] = on[q]
    BY <1>b, <1>k
  <2>2. \A q \in Procs : at'[q] \in {"ready"} \cup Owning => checkout[on'[q]] = "ready"
    BY <1>b, <1>k DEF Checked
  <2> QED
    BY <1>k, <2>1, <2>2 DEF Checked
<1>1. ASSUME MakeWorkspace(p) PROVE Goal
  <2>1. ASSUME NEW r \in Runs, Create(p, r) PROVE Goal
    <3>1. checkout' = checkout /\ at'[p] \in {"failed", "clone", "fetch"}
      BY <1>a, <2>1 DEF Create, store
    <3> QED
      BY <1>k, <3>1 DEF Owning, Locking, Preparing, Running
  <2>2. ASSUME NEW r \in Runs, Resume(p, r) PROVE Goal
    <3>1. checkout' = checkout /\ at'[p] = "ready" /\ on'[p] = r /\ checkout[r] = "ready"
      BY <1>a, <2>2 DEF Resume, store
    <3> QED
      BY <1>k, <3>1
  <2>3. ASSUME FetchLocal(p) \/ FetchArchive(p) \/ FetchClone(p) \/ InitLocalRepo(p) \/ Publish(p) PROVE Goal
    <3>1. checkout' = checkout
      BY <2>3 DEF FetchLocal, FetchArchive, FetchClone, InitLocalRepo, Publish, store
    <3>2. at'[p] \in {"init", "failed", "fallback", "publish", "clone", "beaten"}
      <4>1. CASE FetchLocal(p) \/ FetchArchive(p) \/ FetchClone(p)
        BY <1>a, <4>1 DEF FetchLocal, FetchArchive, FetchClone, Unpack, Walk, Goto, Fail
      <4>2. CASE InitLocalRepo(p) \/ Publish(p)
        BY <1>a, <4>2 DEF InitLocalRepo, Publish, Goto, Fail
      <4> QED
        BY <2>3, <4>1, <4>2
    <3> QED
      BY <1>k, <3>1, <3>2 DEF Owning, Locking, Preparing, Running
  <2>4. ASSUME CloneStarts(p) PROVE Goal
    <3>1. CASE checkout[on[p]] # "absent"
      BY <1>k, <1>x, <2>4, <3>1 DEF CloneStarts, Owning, Locking, Preparing, Running
    <3>2. CASE checkout[on[p]] = "absent"
      <4>1. /\ on[p] \in Runs /\ checkout' = [checkout EXCEPT ![on[p]] = "partial"]
            /\ at'[p] = "cloning" /\ on' = on
        BY <1>a, <1>w, <2>4, <3>2 DEF CloneStarts
      <4>2. \A q \in Procs \ {p} : at[q] = "cloning" => on[q] # on[p]
        BY <3>2 DEF Checked
      <4>3. \A r \in Runs : checkout[r] = "ready" => checkout'[r] = "ready"
        BY <1>a, <3>2, <4>1
      <4>4. \A q \in Procs \ {p} : at'[q] = "cloning" => checkout'[on'[q]] = "partial"
        BY <1>a, <1>b, <4>1 DEF Checked
      <4>5. \A q \in Procs : at'[q] \in {"ready"} \cup Owning => checkout'[on'[q]] = "ready"
        <5> SUFFICES ASSUME NEW q \in Procs, at'[q] \in {"ready"} \cup Owning PROVE checkout'[on'[q]] = "ready"
          OBVIOUS
        <5>1. q # p
          BY <4>1 DEF Owning, Locking, Preparing, Running
        <5>2. at[q] \in {"ready"} \cup Owning /\ on'[q] = on[q] /\ on[q] \in Runs
          BY <1>a, <1>b, <5>1 DEF Owning, Locking, Preparing, Running
        <5> QED
          BY <4>3, <5>2 DEF Checked
      <4> QED
        BY <1>a, <1>b, <4>1, <4>2, <4>3, <4>4, <4>5 DEF Checked
    <3> QED
      BY <3>1, <3>2
  <2>5. ASSUME CloneEnds(p) PROVE Goal
    <3>1. at[p] = "cloning" /\ on[p] \in Runs /\ checkout[on[p]] = "partial"
      BY <1>a, <2>5 DEF CloneEnds, Checked
    <3>2. \/ checkout' = [checkout EXCEPT ![on[p]] = "ready"] /\ at'[p] = "ready" /\ on' = on
          \/ checkout' = [checkout EXCEPT ![on[p]] = "absent"] /\ at'[p] = "failed"
          \/ checkout' = checkout /\ at'[p] = "failed"
      BY <1>w, <1>x, <2>5 DEF CloneEnds
    <3>3. \A r \in Runs : checkout[r] = "ready" => checkout'[r] = "ready"
      BY <1>a, <3>1, <3>2
    <3>4. \A r \in Runs \ {on[p]} : checkout'[r] = checkout[r]
      BY <1>a, <3>2
    <3>5. ASSUME NEW q \in Procs, at'[q] = "cloning"
          PROVE  at[q] = "cloning" /\ on'[q] = on[q] /\ checkout'[on'[q]] = "partial"
      <4>1. q # p /\ at[q] = "cloning" /\ on'[q] = on[q] /\ on[q] \in Runs
        BY <1>a, <1>b, <3>2, <3>5
      <4> QED
        BY <3>1, <3>4, <4>1 DEF Checked
    <3>6. ASSUME NEW q \in Procs, at'[q] \in {"ready"} \cup Owning PROVE checkout'[on'[q]] = "ready"
      <4>1. CASE q = p
        BY <1>a, <3>1, <3>2, <3>6, <4>1 DEF Owning, Locking, Preparing, Running
      <4>2. CASE q # p
        <5>1. at[q] \in {"ready"} \cup Owning /\ on'[q] = on[q] /\ on[q] \in Runs
          BY <1>a, <1>b, <3>6, <4>2 DEF Owning, Locking, Preparing, Running
        <5> QED
          BY <3>3, <5>1 DEF Checked
      <4> QED
        BY <4>1, <4>2
    <3> QED
      BY <3>3, <3>5, <3>6 DEF Checked
  <2> QED
    BY <1>1, <2>1, <2>2, <2>3, <2>4, <2>5 DEF MakeWorkspace
<1>2. ASSUME \/ Lease(p) \/ Lock(p) \/ Recognise(p) \/ CopyTemplate(p) \/ HandOver(p) \/ SealGit(p)
             \/ WriteMarker(p) \/ Begin(p) \/ Supervise(p) \/ LimitHit(p)
      PROVE  Goal
  <2>1. checkout' = checkout /\ at[p] \in {"ready"} \cup Owning
    BY <1>2 DEF Lease, Lock, Recognise, CopyTemplate, HandOver, SealGit, WriteMarker, Begin, Supervise, Loop, Poll,
       Wait, Kill, LimitHit, store, Owning, Locking, Preparing, Running
  <2>2. \/ Fail(p)
        \/ \E label \in {"leased", "locked", "prepared", "copy", "chown", "seal", "mark",
                         "loop", "wait", "poll", "kill", "ready"} : Walk(p, label)
    BY <1>2 DEF Lease, Lock, Recognise, CopyTemplate, HandOver, SealGit, WriteMarker, Begin, Supervise, Loop, Poll,
       Wait, Kill, LimitHit, Stop, FailLocked, AfterExit
  <2>3. CASE Fail(p)
    BY <1>k, <1>x, <2>1, <2>3 DEF Owning, Locking, Preparing, Running
  <2>4. CASE ~Fail(p)
    <3>1. on' = on /\ at'[p] # "cloning"
      BY <1>w, <2>2, <2>4
    <3> QED
      BY <1>k, <2>1, <3>1 DEF Checked
  <2> QED
    BY <2>3, <2>4
<1>3. ASSUME DeadlinePasses(p) \/ CancellationComes(p) PROVE Goal
  BY <1>3 DEF DeadlinePasses, CancellationComes, making, store, Checked
<1>4. ASSUME Crash(p) PROVE Goal
  <2>1. checkout' = checkout /\ at'[p] = "idle"
    BY <1>a, <1>4 DEF Crash, Leave, store
  <2> QED
    BY <1>k, <2>1 DEF Owning, Locking, Preparing, Running
<1> QED
  BY <1>1, <1>2, <1>3, <1>4 DEF ProcStep

\* What is prepared is prepared by the process at that step of the preparation.
Same(r) == usr'[r] = usr[r] /\ owner'[r] = owner[r] /\ sealed'[r] = sealed[r] /\ marker'[r] = marker[r]

LEMMA JailMoves ==
  ASSUME TypeOK, Watching, NEW p \in Procs, ProcStep(p)
  PROVE  /\ \A r \in Runs : r = on[p] \/ Same(r)
         /\ at[p] \notin {"copy", "chown", "seal", "mark"} =>
              UNCHANGED <<usr, owner, sealed, marker>>
<1>a. /\ usr \in [Runs -> BOOLEAN] /\ owner \in [Runs -> Uids \cup {0}]
      /\ sealed \in [Runs -> BOOLEAN] /\ marker \in [Runs -> {"none", "torn", "written"}]
  BY DEF TypeOK
<1>1. CASE \/ MakeWorkspace(p) /\ UNCHANGED <<jail, lock, sup, group, begun>>
           \/ Lease(p) \/ Lock(p) \/ Recognise(p) \/ Begin(p) \/ Supervise(p) \/ LimitHit(p)
           \/ DeadlinePasses(p) \/ CancellationComes(p)
  <2>1. UNCHANGED <<usr, owner, sealed, marker>>
    BY <1>1 DEF Lease, Lock, Recognise, Begin, Supervise, Loop, Poll, Wait, Kill, LimitHit,
       DeadlinePasses, CancellationComes, jail
  <2> QED
    BY <2>1 DEF Same
<1>2. CASE CopyTemplate(p)
  BY <1>a, <1>2 DEF CopyTemplate, Same
<1>3. CASE HandOver(p) \/ SealGit(p) \/ WriteMarker(p)
  BY <1>a, <1>3 DEF HandOver, SealGit, WriteMarker, Same
<1>4. CASE Crash(p)
  <2>1. /\ owner' = owner /\ sealed' = sealed
        /\ \/ UNCHANGED <<usr, marker>>
           \/ at[p] = "copy" /\ usr' = [usr EXCEPT ![on[p]] = TRUE] /\ UNCHANGED marker
           \/ at[p] = "mark" /\ marker' = [marker EXCEPT ![on[p]] = "torn"] /\ UNCHANGED usr
    BY <1>4 DEF Crash
  <2> QED
    BY <1>a, <2>1 DEF Same
<1> QED
  BY <1>1, <1>2, <1>3, <1>4 DEF ProcStep

\* A leased uid stays; a new one belongs to no other workspace.
LEMMA LeaseMoves ==
  ASSUME TypeOK, Watching, Leased, NEW p \in Procs, ProcStep(p)
  PROVE  /\ \A r \in Runs : lease[r] # 0 => lease'[r] = lease[r]
         /\ Leased'
<1>a. /\ at \in [Procs -> Labels] /\ on \in [Procs -> Runs \cup {Nobody}]
      /\ lease \in [Runs -> Uids \cup {0}]
      /\ \A q \in Procs : at[q] \notin {"idle", "failed"} => on[q] \in Runs
  BY DEF TypeOK, Watching
<1>b. \A q \in Procs \ {p} : at'[q] = at[q] /\ on'[q] = on[q]
  BY Local
<1>w. ASSUME NEW label, Walk(p, label) PROVE at'[p] = label /\ on' = on
  BY <1>a, <1>w DEF Walk, Goto
<1>x. ASSUME Fail(p) PROVE at'[p] = "failed"
  BY <1>a, <1>x DEF Fail
<1>k. ASSUME lease' = lease, at'[p] \in Owning => at[p] \in Owning /\ on' = on
      PROVE  (\A r \in Runs : lease[r] # 0 => lease'[r] = lease[r]) /\ Leased'
  BY <1>b, <1>k DEF Leased
<1>1. CASE MakeWorkspace(p) /\ UNCHANGED <<jail, lock, sup, group, begun>>
  <2>1. at'[p] \notin Owning
    <3>1. ASSUME NEW r \in Runs, Create(p, r) \/ Resume(p, r) PROVE at'[p] \in {"failed", "clone", "fetch", "ready"}
      BY <1>a, <3>1 DEF Create, Resume
    <3>2. CASE FetchLocal(p) \/ FetchArchive(p) \/ FetchClone(p)
      BY <1>a, <3>2 DEF FetchLocal, FetchArchive, FetchClone, Unpack, Walk, Goto, Fail, Owning, Locking, Preparing, Running
    <3>3. CASE InitLocalRepo(p) \/ Publish(p) \/ CloneStarts(p) \/ CloneEnds(p)
      BY <1>a, <3>3 DEF InitLocalRepo, Publish, CloneStarts, CloneEnds, Walk, Goto, Fail, Owning, Locking, Preparing, Running
    <3> QED
      BY <1>1, <3>1, <3>2, <3>3 DEF MakeWorkspace, Owning, Locking, Preparing, Running
  <2> QED
    BY <1>1, <1>k, <2>1 DEF jail
<1>2. CASE Lease(p)
  <2>1. at[p] = "ready" /\ on[p] \in Runs
    BY <1>a, <1>2 DEF Lease
  <2>2. CASE lease[on[p]] # 0
    <3>1. lease' = lease /\ at'[p] = "leased" /\ on' = on
      BY <1>2, <1>w, <2>2 DEF Lease
    <3> QED
      BY <1>b, <2>2, <3>1 DEF Leased
  <2>3. CASE lease[on[p]] = 0
    <3>1. /\ lease' = [lease EXCEPT ![on[p]] = FreeUid]
          /\ (FreeUid = 0 /\ at'[p] = "failed") \/ (FreeUid # 0 /\ at'[p] = "leased" /\ on' = on)
      BY <1>2, <1>w, <1>x, <2>3 DEF Lease
    <3>2. \A r \in Runs : lease[r] # 0 => lease'[r] = lease[r]
      BY <1>a, <2>3, <3>1
    <3>3. \A r \in Runs : FreeUid # 0 => lease[r] # FreeUid
      BY FreeUidIsFree DEF Leases
    <3>4. ASSUME NEW r \in Runs, NEW s \in Runs, lease'[r] # 0, lease'[r] = lease'[s] PROVE r = s
      <4>1. \A t \in Runs \ {on[p]} : lease'[t] = lease[t]
        BY <1>a, <3>1
      <4>2. lease'[on[p]] = FreeUid
        BY <1>a, <2>1, <3>1
      <4> QED
        BY <3>3, <3>4, <4>1, <4>2 DEF Leased
    <3>5. ASSUME NEW q \in Procs, at'[q] \in Owning PROVE lease'[on'[q]] # 0
      <4>1. CASE q = p
        BY <1>a, <2>1, <3>1, <3>5, <4>1 DEF Owning, Locking, Preparing, Running
      <4>2. CASE q # p
        <5>1. at[q] \in Owning /\ on'[q] = on[q] /\ on[q] \in Runs
          BY <1>a, <1>b, <3>5, <4>2 DEF Owning, Locking, Preparing, Running
        <5> QED
          BY <3>2, <5>1 DEF Leased
      <4> QED
        BY <4>1, <4>2
    <3> QED
      BY <3>2, <3>4, <3>5 DEF Leased
  <2> QED
    BY <2>2, <2>3
<1>3. CASE \/ Lock(p) \/ Recognise(p) \/ CopyTemplate(p) \/ HandOver(p) \/ SealGit(p)
           \/ WriteMarker(p) \/ Begin(p) \/ Loop(p) \/ Poll(p) \/ Wait(p) \/ LimitHit(p)
  <2>1. lease' = lease /\ at[p] \in Owning
    BY <1>3 DEF Lock, Recognise, CopyTemplate, HandOver, SealGit, WriteMarker, Begin, Loop, Poll,
       Wait, LimitHit, jail, Owning, Locking, Preparing, Running
  <2>2. Fail(p) \/ \E label : Walk(p, label)
    BY <1>3 DEF Lock, Recognise, CopyTemplate, HandOver, SealGit, WriteMarker, Begin, Loop, Poll,
       Wait, LimitHit, Stop, FailLocked
  <2>3. CASE Fail(p)
    BY <1>k, <1>x, <2>1, <2>3 DEF Owning, Locking, Preparing, Running
  <2>4. CASE ~Fail(p)
    BY <1>k, <1>w, <2>1, <2>2, <2>4
  <2> QED
    BY <2>3, <2>4
<1>4. CASE Kill(p) \/ Crash(p)
  <2>1. lease' = lease /\ at'[p] \in {"ready", "idle"}
    BY <1>a, <1>4 DEF Kill, Crash, Leave, Walk, Goto, jail
  <2> QED
    BY <1>k, <2>1 DEF Owning, Locking, Preparing, Running
<1>5. CASE DeadlinePasses(p) \/ CancellationComes(p)
  BY <1>5, <1>k DEF DeadlinePasses, CancellationComes, making, jail
<1> QED
  BY <1>1, <1>2, <1>3, <1>4, <1>5 DEF ProcStep, Supervise

\* The place of the process that prepares.
LEMMA PreparesMoves ==
  ASSUME TypeOK, Watching, Checked, Leased, Prepares, Marked, NEW p \in Procs, ProcStep(p)
  PROVE  /\ at'[p] \in {"copy", "chown", "seal", "mark"} => marker'[on'[p]] = "none"
         /\ at'[p] \in {"chown", "seal", "mark"} => usr'[on'[p]]
         /\ at'[p] \in {"seal", "mark"} => owner'[on'[p]] = lease'[on'[p]]
         /\ at'[p] = "mark" => sealed'[on'[p]]
         /\ at'[p] \in {"prepared"} \cup Running => marker'[on'[p]] = "written"
<1>a. /\ at \in [Procs -> Labels] /\ on \in [Procs -> Runs \cup {Nobody}]
      /\ usr \in [Runs -> BOOLEAN] /\ owner \in [Runs -> Uids \cup {0}]
      /\ sealed \in [Runs -> BOOLEAN] /\ marker \in [Runs -> {"none", "torn", "written"}]
      /\ at[p] \notin {"idle", "failed"} => on[p] \in Runs
  BY DEF TypeOK, Watching
<1>w. ASSUME NEW label, Walk(p, label) PROVE at'[p] = label /\ on' = on
  BY <1>a, <1>w DEF Walk, Goto
<1>x. ASSUME Fail(p) PROVE at'[p] = "failed"
  BY <1>a, <1>x DEF Fail
<1>k. ASSUME at'[p] \notin {"copy", "chown", "seal", "mark", "prepared"} \cup Running
      PROVE  /\ at'[p] \in {"copy", "chown", "seal", "mark"} => marker'[on'[p]] = "none"
             /\ at'[p] \in {"chown", "seal", "mark"} => usr'[on'[p]]
             /\ at'[p] \in {"seal", "mark"} => owner'[on'[p]] = lease'[on'[p]]
             /\ at'[p] = "mark" => sealed'[on'[p]]
             /\ at'[p] \in {"prepared"} \cup Running => marker'[on'[p]] = "written"
  BY <1>k
<1>1. CASE MakeWorkspace(p) /\ UNCHANGED <<jail, lock, sup, group, begun>>
  <2>1. at'[p] \notin {"copy", "chown", "seal", "mark", "prepared"} \cup Running
    <3>1. ASSUME NEW r \in Runs, Create(p, r) \/ Resume(p, r) PROVE at'[p] \in {"failed", "clone", "fetch", "ready"}
      BY <1>a, <3>1 DEF Create, Resume
    <3>2. CASE FetchLocal(p) \/ FetchArchive(p) \/ FetchClone(p)
      BY <1>a, <3>2 DEF FetchLocal, FetchArchive, FetchClone, Unpack, Walk, Goto, Fail, Running
    <3>3. CASE InitLocalRepo(p) \/ Publish(p) \/ CloneStarts(p) \/ CloneEnds(p)
      BY <1>a, <3>3 DEF InitLocalRepo, Publish, CloneStarts, CloneEnds, Walk, Goto, Fail, Running
    <3> QED
      BY <1>1, <3>1, <3>2, <3>3 DEF MakeWorkspace, Running
  <2> QED
    BY <1>k, <2>1
<1>2. CASE Lease(p) \/ Lock(p) \/ Crash(p) \/ Kill(p)
  <2>1. at'[p] \in {"failed", "leased", "locked", "idle", "ready"}
    BY <1>a, <1>2, <1>w, <1>x DEF Lease, Lock, Crash, Leave, Kill
  <2> QED
    BY <1>k, <2>1 DEF Running
<1>3. CASE Recognise(p)
  <2>1. CASE Fail(p)
    BY <1>k, <1>x, <2>1 DEF Running
  <2>2. CASE marker[on[p]] = "written" /\ Walk(p, "prepared")
    BY <1>3, <1>w, <2>2 DEF Recognise, jail, Running
  <2>3. CASE marker[on[p]] = "none" /\ Walk(p, "copy")
    BY <1>3, <1>w, <2>3 DEF Recognise, jail, Running
  <2> QED
    BY <1>3, <2>1, <2>2, <2>3 DEF Recognise, FailLocked, Prepared
<1>4. CASE CopyTemplate(p)
  <2>1. at[p] = "copy" /\ on[p] \in Runs /\ marker' = marker /\ marker[on[p]] = "none"
    BY <1>a, <1>4 DEF CopyTemplate, Prepares
  <2>2. CASE Fail(p)
    BY <1>k, <1>x, <2>2 DEF Running
  <2>3. CASE usr'[on[p]] /\ Walk(p, "chown")
    BY <1>w, <2>1, <2>3 DEF Running
  <2> QED
    BY <1>4, <2>2, <2>3 DEF CopyTemplate, FailLocked
<1>5. CASE HandOver(p)
  <2>1. /\ at[p] = "chown" /\ on[p] \in Runs /\ marker[on[p]] = "none" /\ usr[on[p]]
        /\ UNCHANGED <<marker, usr, lease>>
    BY <1>a, <1>5 DEF HandOver, Prepares
  <2>2. owner'[on[p]] = lease[on[p]] /\ at'[p] = "seal" /\ on' = on
    BY <1>a, <1>5, <1>w, <2>1 DEF HandOver
  <2> QED
    BY <2>1, <2>2 DEF Running
<1>6. CASE SealGit(p)
  <2>1. /\ at[p] = "seal" /\ on[p] \in Runs /\ marker[on[p]] = "none" /\ usr[on[p]]
        /\ owner[on[p]] = lease[on[p]] /\ UNCHANGED <<marker, usr, lease, owner>>
    BY <1>a, <1>6 DEF SealGit, Prepares
  <2>2. sealed'[on[p]] /\ at'[p] = "mark" /\ on' = on
    BY <1>a, <1>6, <1>w, <2>1 DEF SealGit
  <2> QED
    BY <2>1, <2>2 DEF Running
<1>7. CASE WriteMarker(p)
  <2>1. at[p] = "mark" /\ on[p] \in Runs
    BY <1>a, <1>7 DEF WriteMarker
  <2>2. marker'[on[p]] = "written" /\ at'[p] = "prepared" /\ on' = on
    BY <1>a, <1>7, <1>w, <2>1 DEF WriteMarker
  <2> QED
    BY <2>2 DEF Running
<1>8. CASE Begin(p) \/ Loop(p) \/ Poll(p) \/ Wait(p) \/ LimitHit(p)
  <2>1. marker[on[p]] = "written" /\ marker' = marker
    BY <1>8 DEF Begin, Loop, Poll, Wait, LimitHit, jail, Prepares, Running
  <2>2. Fail(p) \/ \E label \in Running : Walk(p, label)
    BY <1>8 DEF Begin, Loop, Poll, Wait, LimitHit, Stop, FailLocked, AfterExit, Running
  <2>3. CASE Fail(p)
    BY <1>k, <1>x, <2>3 DEF Running
  <2>4. CASE \E label \in Running : Walk(p, label)
    BY <1>w, <2>1, <2>4 DEF Running
  <2> QED
    BY <2>2, <2>3, <2>4
<1>9. CASE DeadlinePasses(p) \/ CancellationComes(p)
  BY <1>9 DEF DeadlinePasses, CancellationComes, making, jail, Prepares
<1> QED
  BY <1>1, <1>2, <1>3, <1>4, <1>5, <1>6, <1>7, <1>8, <1>9 DEF ProcStep, Supervise

\* Every step of a process keeps workspaces ready.
LEMMA ReadyStep ==
  ASSUME TypeOK, Watching, Supervised, Ready, NEW p \in Procs, ProcStep(p)
  PROVE  Ready'
<1>a. /\ \A q \in Procs : at[q] \notin {"idle", "failed"} => on[q] \in Runs
      /\ \A q \in Procs \ {p} : at'[q] = at[q] /\ on'[q] = on[q]
  BY Local DEF Watching
<1>r. Checked /\ Leased /\ Prepares /\ Marked /\ Housed
  BY DEF Ready
<1>1. Checked' /\ \A r \in Runs : checkout[r] = "ready" => checkout'[r] = "ready"
  BY <1>r, CheckoutMoves
<1>2. Leased' /\ \A r \in Runs : lease[r] # 0 => lease'[r] = lease[r]
  BY <1>r, LeaseMoves
<1>3. Prepares'
  <2> SUFFICES ASSUME NEW q \in Procs \ {p}, at'[q] \in {"copy", "chown", "seal", "mark", "prepared"} \cup Running
               PROVE  Same(on[q]) /\ at'[q] = at[q] /\ on'[q] = on[q] /\ lease'[on[q]] = lease[on[q]]
    BY <1>r, PreparesMoves DEF Prepares, Same
  <2>1. at'[q] = at[q] /\ on'[q] = on[q] /\ on[q] \in Runs /\ at[q] \in Locking
    BY <1>a DEF Locking, Preparing, Running
  <2>2. lease'[on[q]] = lease[on[q]]
    BY <1>r, <1>2, <2>1 DEF Leased, Owning
  <2>3. CASE at[p] \in {"copy", "chown", "seal", "mark"}
    <3>1. lock[on[p]] = p /\ lock[on[q]] = q
      BY <2>1, <2>3 DEF Supervised, Locking, Preparing
    <3> QED
      BY <2>1, <2>2, <3>1, JailMoves
  <2>4. CASE at[p] \notin {"copy", "chown", "seal", "mark"}
    BY <2>1, <2>2, <2>4, JailMoves DEF Same
  <2> QED
    BY <2>3, <2>4
<1>4. Marked' /\ \A r \in Runs : marker[r] = "written" => marker'[r] = "written"
  <2>1. ASSUME NEW r \in Runs, Same(r)
        PROVE  /\ marker[r] = "written" => marker'[r] = "written"
               /\ marker'[r] = "written" =>
                    checkout'[r] = "ready" /\ usr'[r] /\ sealed'[r] /\ lease'[r] # 0 /\ owner'[r] = lease'[r]
    BY <1>r, <1>1, <1>2, <2>1 DEF Same, Marked
  <2>2. ASSUME NEW r \in Runs, r = on[p], at[p] \in {"copy", "chown", "seal", "mark"}
        PROVE  /\ marker[r] # "written"
               /\ marker'[r] = "written" =>
                    checkout'[r] = "ready" /\ usr'[r] /\ sealed'[r] /\ lease'[r] # 0 /\ owner'[r] = lease'[r]
    <3>1. marker[r] = "none"
      BY <1>r, <2>2 DEF Prepares
    <3>2. CASE marker'[r] # "written"
      BY <3>1, <3>2
    <3>3. CASE marker'[r] = "written"
      <4>1. WriteMarker(p)
        <5>1. marker \in [Runs -> {"none", "torn", "written"}]
          BY DEF TypeOK
        <5>2. ASSUME ~WriteMarker(p) PROVE marker' = marker \/ marker' = [marker EXCEPT ![on[p]] = "torn"]
          BY <2>2, <5>2 DEF ProcStep, MakeWorkspace, jail, Lease, Lock, Recognise, CopyTemplate, HandOver, SealGit,
             Begin, Supervise, Loop, Poll, Wait, Kill, LimitHit, DeadlinePasses, CancellationComes, Crash
        <5> QED
          BY <2>2, <3>1, <3>3, <5>1, <5>2
      <4>2. at[p] = "mark" /\ UNCHANGED <<lease, usr, owner, sealed>>
        BY <4>1 DEF WriteMarker
      <4>3. usr[r] /\ sealed[r] /\ owner[r] = lease[r] /\ checkout[r] = "ready" /\ lease[r] # 0
        BY <1>r, <2>2, <4>2 DEF Prepares, Checked, Leased, Owning, Locking, Preparing
      <4> QED
        BY <1>1, <3>1, <4>2, <4>3
    <3> QED
      BY <3>2, <3>3
  <2>3. \A r \in Runs : Same(r) \/ (r = on[p] /\ at[p] \in {"copy", "chown", "seal", "mark"})
    BY JailMoves DEF Same
  <2> QED
    BY <2>1, <2>2, <2>3 DEF Marked
<1>5. Housed'
  <2> SUFFICES ASSUME NEW c \in Commands, Alive(c)'
               PROVE  group'[c].run \in Runs /\ marker'[group'[c].run] = "written"
    BY DEF Housed
  <2>1. CASE Begins(p, c)
    <3>1. at[p] = "prepared" /\ group'[c].run = on[p] /\ on[p] \in Runs
      BY <1>a, <2>1 DEF Begins, Begin
    <3> QED
      BY <1>r, <1>4, <3>1 DEF Prepares
  <2>2. CASE ~Begins(p, c)
    <3>1. Alive(c) /\ group'[c].run = group[c].run
      BY <2>2, GroupMoves DEF Alive
    <3> QED
      BY <1>r, <1>4, <3>1 DEF Housed
  <2> QED
    BY <2>1, <2>2
<1> QED
  BY <1>1, <1>2, <1>3, <1>4, <1>5 DEF Ready

\* A command runs in a finished checkout, prepared to the end, under a uid that
\* no other workspace has, whatever crashed (_lease_uid, _prepare).
THEOREM WorkspacesArePrepared == Spec => []CommandsRunPrepared
<1>1. TypeOK /\ Watching /\ Supervised /\ Ready /\ [Next]_vars => Ready'
  <2> SUFFICES ASSUME TypeOK, Watching, Supervised, Ready, [Next]_vars PROVE Ready'
    OBVIOUS
  <2>1. ASSUME NEW c \in Commands, CommandStep(c) PROVE Ready'
    <3>1. UNCHANGED <<at, on, checkout, lease, usr, owner, sealed, marker>>
      BY <2>1, CommandMoves DEF making, store, jail
    <3>2. \A d \in Commands : group'[d].run = group[d].run /\ (Alive(d)' => Alive(d))
      BY <2>1, CommandMoves DEF Alive
    <3> QED
      BY <3>1, <3>2 DEF Ready, Checked, Leased, Prepares, Marked, Housed
  <2>2. CASE UNCHANGED vars
    BY <2>2 DEF Ready, Checked, Leased, Prepares, Marked, Housed, Alive, vars, making, store, jail
  <2> QED
    BY <2>1, <2>2, ReadyStep, SandboxSteps
<1> QED
  BY <1>1, ReadyInit, ReadyIsPrepared, SandboxIsTyped, SupervisorsWatch, SupervisorsHoldTheLock, PTL DEF Spec
=============================================================================

-------------------------- MODULE NsBackendProofs --------------------------
(***************************************************************************)
(* Safety of the backend's life cycle of sandboxes, for any number of      *)
(* host tasks, sandboxes and snapshots, any mix of operations and any      *)
(* number of failures, as long as op.lock itself can be opened.            *)
(***************************************************************************)
EXTENDS NsBackendTypes

-----------------------------------------------------------------------------
(* The inductive invariant *)

\* Which operation each step belongs to, and when a task has a sandbox and an
\* open op.lock.
Control ==
    \A p \in Procs :
        /\ pc[p] \in ReconcilePc => op[p] = "reconcile"
        /\ pc[p] \in SpawnPc => op[p] = "spawn"
        /\ pc[p] \in SnapPc => op[p] = "snapshot"
        /\ pc[p] \in {"open", "lock"} => op[p] \in {"spawn", "snapshot", "destroy"}
        /\ pc[p] \in {"off", "idle"} => op[p] = "none"
        /\ pc[p] \in TeardownPc => op[p] \in {"spawn", "destroy", "reconcile"}
        /\ pc[p] \in {"off", "idle", "rc_next"} <=> sb[p] = None
        /\ pc[p] \in {"off", "idle", "open", "rc_next", "rc_drop", "rc_try", "rc_thaw"}
             <=> fd[p] = 0

\* flock: one holder per inode; the directory's entries hang together.
Locking ==
    /\ \A p, q \in Procs :
         Held(p) /\ Held(q) /\ sb[p] = sb[q] /\ fd[p] = fd[q] => p = q
    /\ \A i \in Ids : "op.lock" \in disk[i] <=> inode[i] # 0
    /\ \A i \in Ids : disk[i] # {} => "dir" \in disk[i]

\* An id without a row yet belongs to the one spawn that drew it.
Fresh ==
    /\ \A p \in Procs : sb[p] # None /\ row[sb[p]] = "new" =>
         /\ op[p] = "spawn"
         /\ pc[p] \in {"open", "lock", "seed", "insert"}
         /\ disk[sb[p]] # {}
    /\ \A p \in Procs : op[p] = "spawn" /\ pc[p] \in {"open", "lock", "seed", "insert"}
         => row[sb[p]] = "new"
    /\ \A p \in Procs : op[p] = "spawn" /\ pc[p] = "lock" =>
         {"dir", "op.lock"} \subseteq disk[sb[p]] /\ inode[sb[p]] = fd[p]
    /\ \A p, q \in Procs : op[p] = "spawn" /\ op[q] = "spawn" /\ sb[p] = sb[q] => p = q
    /\ \A p \in Procs : \A i \in todo[p] : row[i] # "new"
    /\ \A i \in Ids : row[i] = "new" =>
         guest[i] = "none" /\ setup[i] = "none" /\ cgroup[i] = "none"

\* A spawn that builds its sandbox holds the linked op.lock, every other task
\* that has one open has the same, and nobody found the directory missing.
Built(p) ==
    /\ {"dir", "op.lock"} \subseteq disk[sb[p]] /\ inode[sb[p]] = fd[p]
    /\ \A q \in Procs : sb[q] = sb[p] => fd[q] \in {0, fd[p]} /\ pc[q] # "rc_drop"
    /\ pc[p] \notin {"seed", "insert"} => row[sb[p]] = "creating"

Build == \A p \in Procs : pc[p] \in SpawnPc => Built(p)

\* How far the build is.
Stage(p) ==
    LET i == sb[p] IN
    /\ pc[p] \in {"cgroup", "cgfile", "setup"} => setup[i] = "none" /\ guest[i] = "none"
    /\ pc[p] = "cgroup" => ~CgroupExists(i)
    /\ pc[p] \in {"setup", "drive", "drive_pid", "pidfile", "ready"} /\ CgroupExists(i)
         => "cgroup.path" \in disk[i]
    /\ pc[p] \in {"drive_pid", "pidfile", "ready"} => setup[i] = "gone"
    /\ pc[p] \in {"pidfile", "ready"} => guest[i] \in {"alive", "dead"}
    /\ pc[p] = "ready" => "guest.pid" \in disk[i]

Stages == \A p \in Procs : pc[p] \in SpawnPc => Stage(p)

\* What setup and guest have said, and what the pidfile says, of them.
Told(i) ==
    /\ setup[i] \in {"none", "waiting", "going"} => guest[i] = "none"
    /\ "guest.pid" \in disk[i] => setup[i] = "gone" /\ guest[i] \in {"alive", "dead"}
    /\ \A n \in 1..Len(out[i]) :
         /\ out[i][n] = "ready" => guest[i] \in {"alive", "dead"}
         /\ out[i][n] = "pid" => setup[i] = "gone"

Said == \A i \in Ids : Told(i)

\* A directory that a teardown has emptied, or that a pass found missing, stays
\* without user data, records and processes; so does a dropped sandbox.
Gone ==
    /\ DroppedIsEmpty
    /\ \A p \in Procs : pc[p] \in {"row", "rc_drop"} =>
         disk[sb[p]] \subseteq {"dir", "op.lock"}

\* A Ready sandbox that runs has a pidfile, and a teardown that is past the kill
\* has killed the guest that the pidfile names.
Recorded ==
    /\ \A i \in Ids : row[i] = "ready" => setup[i] = "gone" /\ guest[i] \in {"alive", "dead"}
    /\ \A i \in Ids : row[i] = "ready" /\ guest[i] = "alive" => "guest.pid" \in disk[i]
    /\ \A p \in Procs : pc[p] \in {"cg", "rm"} /\ "guest.pid" \in disk[sb[p]]
         => guest[sb[p]] # "alive"

\* A cgroup in which something runs, or is about to.
Loose(i) == CgroupExists(i) /\ (Running(i) \/ setup[i] \in {"going", "forked"})

\* cgroup.path names every such cgroup, and none is left once a teardown has
\* been through it, except where cgroup::destroy left it standing.
Covered ==
    /\ \A i \in Ids : Loose(i) => "cgroup.path" \in disk[i] \/ i \in faults.spared
    /\ \A p \in Procs : pc[p] = "rm" /\ Loose(sb[p]) => sb[p] \in faults.spared

Inv == Control /\ Locking /\ Fresh /\ Build /\ Stages /\ Said /\ Gone /\ Recorded /\ Covered

-----------------------------------------------------------------------------
(* What the invariant gives every step *)

\* The history of surviving cgroups only grows.
Sparing == faults.spared \subseteq faults'.spared

\* A failure that is counted adds nothing to it.
LEMMA FaultSpares ==
    ASSUME Typed, NEW k, Fault(k)
    PROVE  Sparing
BY DEF Typed, TypeOK, TasksOK, FaultLog, Fault, Sparing

\* Every step keeps the history.
LEMMA NextSpares ==
    ASSUME Typed, [Next]_vars
    PROVE  Sparing
<1>1. CASE UNCHANGED faults
  BY <1>1 DEF Sparing
<1>2. CASE UNCHANGED vars
  BY <1>1, <1>2 DEF vars
<1>3. ASSUME NEW p \in Procs, TeardownStep(p) PROVE Sparing
  <2>1. CASE DestroyCgroupFails(p)
    BY <2>1 DEF DestroyCgroupFails, Typed, TypeOK, TasksOK, FaultLog, Sparing
  <2> QED BY <1>1, <1>3, <2>1, FaultSpares
          DEF TeardownStep, OpenLock, LockEx, LockFails, KillGuest, KillGuestFails, DestroyCgroup,
              UnlinkEntry, RemoveDir, RemoveDirFails, DropRow, DropRowFails
<1>4. ASSUME NEW p \in Procs, SpawnStep(p) PROVE Sparing
  BY <1>1, <1>4, FaultSpares
     DEF SpawnStep, SpawnMkdir, SpawnSeed, SpawnSeedFails, SpawnInsert, SpawnInsertFails,
         SpawnCgroup, SpawnCgroupFails, SpawnRecordCgroup, SpawnSetup, SpawnGo, DriveRead,
         DriveFails, SpawnPidfile, SpawnReady, SpawnStepFails
<1>5. ASSUME NEW p \in Procs, SnapshotStep(p) PROVE Sparing
  BY <1>1, <1>5, FaultSpares
     DEF SnapshotStep, SnapshotStart, SnapshotCreateDir, SnapshotRefused, SnapshotInsert,
         SnapshotInsertFails, SnapshotFreeze, SnapshotCopyBegin, SnapshotCopyEnd,
         SnapshotCopyFails, SnapshotThaw, SnapshotDone, SnapshotUndoDir, SnapshotUndoRow
<1>6. ASSUME NEW p \in Procs, ReconcileStep(p) PROVE Sparing
  BY <1>1, <1>6, FaultSpares
     DEF ReconcileStep, ReconcileStart, ReconcileRow, ReconcileEnd, ReconcileDrop, ReconcileReap,
         ReconcileThawLock, TryLock, ReconcileSkip, ReconcileUnfreeze
<1>7. ASSUME NEW p \in Procs, DestroyStart(p) \/ Crash(p) \/ Exit(p) PROVE Sparing
  BY <1>1, <1>7, FaultSpares DEF DestroyStart, Crash, Exit
<1>8. ASSUME NEW i \in Ids, SandboxStep(i) PROVE Sparing
  BY <1>1, <1>8, FaultSpares
     DEF SandboxStep, SetupFails, SetupFork, SetupReportPid, GuestReady, GuestBootFails, GuestDies,
         FreezeTakes
<1> QED BY <1>2, <1>3, <1>4, <1>5, <1>6, <1>7, <1>8 DEF Next, TaskStep

\* While a spawn builds a sandbox, every other task that works on it is still
\* waiting for the op-lock, or about to try it.
LEMMA BuilderAlone ==
    ASSUME Typed, Inv, NEW p \in Procs, pc[p] \in SpawnPc,
           NEW q \in Procs \ {p}, sb[q] = sb[p]
    PROVE  pc[q] \in {"open", "lock", "rc_try", "rc_thaw"} /\ op[q] # "spawn"
<1>1. op[p] = "spawn" /\ sb[p] # None /\ fd[p] # 0 /\ pc[p] # "lock"
  BY DEF Inv, Control, SpawnPc
<1>2. op[q] # "spawn"
  BY <1>1 DEF Inv, Fresh
<1>3. fd[q] \in {0, fd[p]} /\ pc[q] # "rc_drop"
  BY DEF Inv, Build, Built
<1>4. ~Held(q)
  BY <1>1, <1>3 DEF Inv, Locking, Held
<1> QED BY <1>1, <1>2, <1>3, <1>4 DEF Inv, Control, Held

\* The spawn that drew an id is alone with it until the row is there.
LEMMA DrawerAlone ==
    ASSUME Typed, Inv, NEW p \in Procs, op[p] = "spawn", pc[p] \in {"open", "lock", "seed", "insert"},
           NEW q \in Procs, sb[q] = sb[p]
    PROVE  p = q
<1>1. sb[p] # None /\ row[sb[p]] = "new"
  BY DEF Inv, Control, Fresh, SpawnPc
<1> QED BY <1>1 DEF Inv, Fresh

\* Nothing new runs in a cgroup, and no teardown gets past one.
LEMMA CoveredKept ==
    ASSUME Typed, Inv, Sparing,
           \A j \in Ids : Loose(j)' =>
             Loose(j) /\ ("cgroup.path" \in disk[j] => "cgroup.path" \in disk'[j]),
           \A q \in Procs : pc'[q] = "rm" => pc[q] = "rm" /\ sb'[q] = sb[q]
    PROVE  Covered'
<1>1. \A q \in Procs : pc[q] = "rm" => sb[q] \in Ids
  BY DEF Typed, Assigned
<1>2. \A j \in Ids : Loose(j)' => "cgroup.path" \in disk'[j] \/ j \in faults'.spared
  BY DEF Inv, Covered, Sparing
<1>3. ASSUME NEW q \in Procs, pc'[q] = "rm", Loose(sb[q])'
      PROVE  sb'[q] \in faults'.spared
  <2>1. pc[q] = "rm" /\ sb'[q] = sb[q] /\ sb[q] \in Ids
    BY <1>1, <1>3
  <2>2. Loose(sb[q])
    BY <1>3, <2>1 DEF Loose, CgroupExists, Running
  <2> QED BY <2>1, <2>2 DEF Inv, Covered, Sparing
<1> QED BY <1>2, <1>3 DEF Covered

\* A task that leaves its operation, by returning, failing or dying, and leaves
\* the shared state as it is, keeps the invariant.
LEMMA LeaveInv ==
    ASSUME NEW p \in Procs, NEW l \in {"off", "idle", "rc_next"}, Typed, Inv, Sparing, Leave(p, l),
           \A q \in Procs : \A i \in todo'[q] : row[i] # "new",
           UNCHANGED <<row, disk, inode, kernelVars>>
    PROVE  Inv'
<1> USE DEF Inv, Typed, TypeOK, TasksOK, Leave, Goto, kernelVars
<1>0. /\ pc' = [pc EXCEPT ![p] = l] /\ sb' = [sb EXCEPT ![p] = None] /\ fd' = [fd EXCEPT ![p] = 0]
      /\ op'[p] \in {"none", "reconcile"} /\ \A q \in Procs \ {p} : op'[q] = op[q]
  OBVIOUS
<1>1. Control'
  BY <1>0 DEF Control, ReconcilePc, SpawnPc, SnapPc, TeardownPc
<1>2. Locking'
  BY <1>0 DEF Locking, Held
<1>3. Fresh'
  BY <1>0 DEF Fresh
<1>4. Build'
  BY <1>0 DEF Build, Built, ReconcilePc, SpawnPc, SnapPc, TeardownPc
<1>5. Stages'
  BY <1>0 DEF Stages, Stage, CgroupExists, ReconcilePc, SpawnPc, SnapPc, TeardownPc
<1>6. Said'
  BY <1>0 DEF Said, Told
<1>7. Gone'
  BY <1>0 DEF Gone, DroppedIsEmpty
<1>8. Recorded'
  BY <1>0 DEF Recorded
<1>9. Covered'
  BY <1>0 DEF Sparing, Covered, Loose, Running, CgroupExists
<1> QED BY <1>1, <1>2, <1>3, <1>4, <1>5, <1>6, <1>7, <1>8, <1>9

\* A snapshot that goes on, freezing and thawing included, keeps it too.
LEMMA SnapshotInv ==
    ASSUME NEW p \in Procs, NEW l \in SnapPc, Typed, Inv, Sparing, pc[p] \in SnapPc, Goto(p, l),
           UNCHANGED <<row, disk, inode, setup, guest, out, op, sb, fd, todo>>,
           \A i \in Ids : /\ CgroupExists(i)' <=> CgroupExists(i)
                          /\ cgroup'[i] = "none" <=> cgroup[i] = "none"
    PROVE  Inv'
<1> USE DEF Inv, Typed, TypeOK, TasksOK, Assigned, Goto, SnapPc
<1>1. Control'
  BY DEF Control, ReconcilePc, SpawnPc, TeardownPc
<1>2. Locking'
  BY DEF Locking, Held
<1>3. Fresh'
  BY DEF Fresh
<1>4. Build'
  BY DEF Build, Built, ReconcilePc, SpawnPc, TeardownPc
<1>5. Stages'
  BY DEF Stages, Stage, ReconcilePc, SpawnPc, TeardownPc
<1>6. Said'
  BY DEF Said, Told
<1>7. Gone'
  BY DEF Gone, DroppedIsEmpty
<1>8. Recorded'
  BY DEF Recorded
<1>9. Covered'
  BY DEF Sparing, Covered, Loose, Running
<1> QED BY <1>1, <1>2, <1>3, <1>4, <1>5, <1>6, <1>7, <1>8, <1>9

\* The op.lock that a task opens: the linked one, or one that nobody has open.
LEMMA OpenInode ==
    ASSUME NEW i \in Ids, Typed, Inv, OpenLockFile(i)
    PROVE  /\ LockInode(i) \in 0..MaxInode /\ LockInode(i) # 0
           /\ "op.lock" \in disk[i] => LockInode(i) = inode[i]
           /\ "op.lock" \notin disk[i] => \A q \in Procs : sb[q] = i => fd[q] # LockInode(i)
           /\ inode' = [inode EXCEPT ![i] = LockInode(i)]
<1>1. "op.lock" \in disk[i] \/ NewInodes(i) # {}
  BY DEF OpenLockFile
<1>2. CASE "op.lock" \in disk[i]
  BY <1>1, <1>2, LockInodeType DEF OpenLockFile, LockInode, Inv, Locking, Typed
<1>3. CASE "op.lock" \notin disk[i]
  BY <1>1, <1>3, LockInodeType DEF OpenLockFile, NewInodes, Typed
<1> QED BY <1>2, <1>3

\* A task that tears a sandbox down does it with a row and with no builder.
Cleared(p) ==
    /\ sb[p] \in Ids /\ row[sb[p]] # "new"
    /\ \A b \in Procs : pc[b] \in SpawnPc => sb[b] # sb[p]
    /\ \A q \in Procs : op[q] = "spawn" /\ pc[q] = "lock" => sb[q] # sb[p]

\* TeardownPc and reconcile's two other steps are only reached that way.
LEMMA TeardownAlone ==
    ASSUME NEW p \in Procs, Typed, Inv, pc[p] \in TeardownPc \cup {"rc_drop", "rc_unfreeze"}
    PROVE  Cleared(p)
<1>1. sb[p] \in Ids
  BY DEF Typed, Assigned, TeardownPc
<1>2. row[sb[p]] # "new"
  BY <1>1, NoneAssumption DEF Inv, Fresh, TeardownPc
<1>3. ASSUME NEW b \in Procs, pc[b] \in SpawnPc PROVE sb[b] # sb[p]
  BY <1>3, BuilderAlone DEF TeardownPc, SpawnPc
<1> QED BY <1>1, <1>2, <1>3 DEF Inv, Fresh, Cleared

\* A spawn at work.
AtWork(p) ==
    /\ sb[p] \in Ids /\ op[p] = "spawn" /\ fd[p] # 0 /\ Built(p) /\ Stage(p)
    /\ \A q \in Procs \ {p} : sb[q] = sb[p] =>
         pc[q] \in {"open", "lock", "rc_try", "rc_thaw"} /\ op[q] # "spawn"
    /\ \A b \in Procs \ {p} : pc[b] \in SpawnPc => sb[b] # sb[p]
    /\ pc[p] \notin {"seed", "insert"} => row[sb[p]] = "creating"

\* What the invariant says of it, in one place.
LEMMA BuilderFacts ==
    ASSUME NEW p \in Procs, Typed, Inv, pc[p] \in SpawnPc
    PROVE  AtWork(p)
<1>1. sb[p] \in Ids /\ op[p] = "spawn" /\ fd[p] # 0
  BY DEF Typed, Inv, Assigned, Control, SpawnPc
<1>2. Built(p) /\ Stage(p)
  BY DEF Inv, Build, Stages
<1>3. \A q \in Procs \ {p} : sb[q] = sb[p] =>
        pc[q] \in {"open", "lock", "rc_try", "rc_thaw"} /\ op[q] # "spawn"
  BY BuilderAlone
<1>4. \A b \in Procs \ {p} : pc[b] \in SpawnPc => sb[b] # sb[p]
  BY <1>3 DEF SpawnPc
<1> QED BY <1>1, <1>2, <1>3, <1>4 DEF Built, AtWork

\* A line that setup or guest writes is queued behind the others, or lost.
LEMMA SayLines ==
    ASSUME Typed, NEW i \in Ids, NEW x \in Lines, out' \in {out, [out EXCEPT ![i] = Append(@, x)]}
    PROVE  \A j \in Ids : \A n \in 1..Len(out'[j]) :
             \/ j = i /\ out'[j][n] = x
             \/ n \in 1..Len(out[j]) /\ out'[j][n] = out[j][n]
<1> SUFFICES ASSUME NEW j \in Ids, NEW n \in 1..Len(out'[j])
             PROVE  \/ j = i /\ out'[j][n] = x
                    \/ n \in 1..Len(out[j]) /\ out'[j][n] = out[j][n]
  OBVIOUS
<1>1. out \in [Ids -> Seq(Lines)] /\ out[j] \in Seq(Lines)
  BY DEF Typed, TypeOK, KernelOK
<1>2. CASE out'[j] = out[j]
  BY <1>2
<1>3. CASE j = i /\ out'[j] = Append(out[j], x)
  BY <1>1, <1>3
<1> QED BY <1>1, <1>2, <1>3

\* A builder's op.lock stays the linked one: a task that opens it gets the same.
LEMMA OpenLockInv ==
    ASSUME NEW p \in Procs, Typed, Inv, Sparing, OpenLock(p)
    PROVE  Inv'
<1> USE DEF Inv, Typed, TypeOK, TasksOK, DiskOK, At, Goto, registryVars, diskVars, kernelVars, locals
<1>0. /\ sb[p] \in Ids /\ OpenLockFile(sb[p]) /\ pc[p] = "open"
      /\ disk' = [disk EXCEPT ![sb[p]] = @ \cup {"dir", "op.lock"}]
      /\ fd' = [fd EXCEPT ![p] = LockInode(sb[p])]
      /\ pc' = [pc EXCEPT ![p] = "lock"]
      /\ UNCHANGED <<op, sb, todo, row, cgroup, setup, guest, out>>
  BY DEF OpenLock, Assigned
<1>1. Control' BY <1>0, OpenInode DEF Control, ReconcilePc, SpawnPc, SnapPc, TeardownPc
<1>2. Locking' BY <1>0, OpenInode DEF Locking, Held
<1>3. Fresh'
  <2>1. ASSUME NEW q \in Procs, op[q] = "spawn", pc'[q] = "lock"
        PROVE  {"dir", "op.lock"} \subseteq disk'[sb[q]] /\ inode'[sb[q]] = fd'[q]
    <3>1. CASE q = p
      BY <1>0, <2>1, <3>1, OpenInode
    <3>2. CASE q # p
      BY <1>0, <2>1, <3>2, DrawerAlone DEF Fresh, OpenLockFile
    <3> QED BY <3>1, <3>2
  <2> QED BY <1>0, <2>1 DEF Fresh
<1>4. Build'
  <2> SUFFICES ASSUME NEW b \in Procs, pc'[b] \in SpawnPc
               PROVE  Built(b)'
    BY DEF Build
  <2>1. b # p /\ pc[b] \in SpawnPc /\ Built(b)
    BY <1>0 DEF Build, SpawnPc
  <2>2. sb[b] \in Ids /\ "op.lock" \in disk[sb[b]] /\ inode[sb[b]] = fd[b]
    BY <2>1 DEF Built, Assigned, SpawnPc
  <2>3. inode'[sb[b]] = fd[b] /\ (sb[p] = sb[b] => fd'[p] = fd[b])
    BY <1>0, <2>2, OpenInode
  <2> QED BY <1>0, <2>1, <2>2, <2>3 DEF Built
<1>5. Stages' BY <1>0, OpenInode DEF Stages, Stage, CgroupExists
<1>6. Said' BY <1>0, OpenInode DEF Said, Told
<1>7. Gone' BY <1>0, OpenInode DEF Gone, DroppedIsEmpty
<1>8. Recorded' BY <1>0, OpenInode DEF Recorded, Running, CgroupExists
<1>9. Covered' BY <1>0, OpenInode DEF Sparing, Covered, Loose, Running, CgroupExists
<1> QED BY <1>1, <1>2, <1>3, <1>4, <1>5, <1>6, <1>7, <1>8, <1>9

\* The spawn that gets the lock is alone with its id; everyone else waits.
LEMMA LockExInv ==
    ASSUME NEW p \in Procs, Typed, Inv, Sparing, LockEx(p)
    PROVE  Inv'
<1> USE DEF Inv, Typed, TypeOK, TasksOK, DiskOK, At, Goto, registryVars, diskVars, kernelVars, locals
<1>0. /\ sb[p] \in Ids /\ ~Busy(sb[p], fd[p]) /\ pc[p] = "lock"
      /\ pc' = [pc EXCEPT ![p] = Locked(p)] /\ Locked(p) \in {"seed", "sn_check", "kill"}
      /\ op[p] = "spawn" <=> Locked(p) = "seed"
      /\ op[p] = "snapshot" <=> Locked(p) = "sn_check"
      /\ UNCHANGED <<op, sb, fd, todo, row, disk, inode, cgroup, setup, guest, out>>
  BY DEF LockEx, Assigned, Locked
<1>1. Control' BY <1>0 DEF Control, ReconcilePc, SpawnPc, SnapPc, TeardownPc
<1>2. Locking' BY <1>0 DEF Locking, Held, Busy
<1>3. Fresh' BY <1>0 DEF Fresh
<1>4. Build'
  <2> SUFFICES ASSUME NEW b \in Procs, pc'[b] \in SpawnPc
               PROVE  Built(b)'
    BY DEF Build
  <2>1. CASE b = p
    BY <1>0, <2>1, DrawerAlone DEF Built, Fresh, Locking, SpawnPc
  <2>2. CASE b # p
    BY <1>0, <2>2 DEF Build, Built
  <2> QED BY <2>1, <2>2
<1>5. Stages' BY <1>0 DEF Stages, Stage, CgroupExists
<1>6. Said' BY <1>0 DEF Said, Told
<1>7. Gone' BY <1>0 DEF Gone, DroppedIsEmpty
<1>8. Recorded' BY <1>0 DEF Recorded, Running, CgroupExists
<1>9. Covered' BY <1>0 DEF Sparing, Covered, Loose, Running, CgroupExists
<1> QED BY <1>1, <1>2, <1>3, <1>4, <1>5, <1>6, <1>7, <1>8, <1>9

\* After the kill, the guest that the pidfile names is dead.
LEMMA KillGuestInv ==
    ASSUME NEW p \in Procs, Typed, Inv, Sparing, KillGuest(p)
    PROVE  Inv'
<1> USE DEF Inv, Typed, TypeOK, TasksOK, DiskOK, At, Goto, registryVars, diskVars, kernelVars, locals
<1> USE DEF Cleared
<1>0. /\ pc[p] = "kill" /\ pc' = [pc EXCEPT ![p] = "cg"]
      /\ guest' = IF GuestAlive(sb[p]) THEN [guest EXCEPT ![sb[p]] = "dead"] ELSE guest
      /\ UNCHANGED <<op, sb, fd, todo, row, disk, inode, cgroup, setup, out>>
  BY DEF KillGuest
<1>a. Cleared(p) BY <1>0, TeardownAlone DEF TeardownPc
<1>1. Control' BY <1>0, <1>a DEF Control, ReconcilePc, SpawnPc, SnapPc, TeardownPc
<1>2. Locking' BY <1>0, <1>a DEF Locking, Held
<1>3. Fresh' BY <1>0, <1>a DEF Fresh, KernelOK
<1>4. Build' BY <1>0, <1>a DEF Build, Built, SpawnPc
<1>5. Stages' BY <1>0, <1>a DEF Stages, Stage, CgroupExists, SpawnPc, KernelOK, Assigned
<1>6. Said' BY <1>0, <1>a DEF Said, Told, KernelOK, CgroupExists, Running, GuestAlive
<1>7. Gone' BY <1>0, <1>a DEF Gone, DroppedIsEmpty
<1>8. Recorded' BY <1>0, <1>a DEF Recorded, Running, CgroupExists, GuestAlive, KernelOK
<1>9. Covered' BY <1>0, <1>a DEF Sparing, Covered, Loose, Running, CgroupExists, GuestAlive, KernelOK
<1> QED BY <1>1, <1>2, <1>3, <1>4, <1>5, <1>6, <1>7, <1>8, <1>9

\* After cgroup.kill, nothing runs in the cgroup that was recorded.
LEMMA DestroyCgroupInv ==
    ASSUME NEW p \in Procs, Typed, Inv, Sparing, DestroyCgroup(p)
    PROVE  Inv'
<1> USE DEF Inv, Typed, TypeOK, TasksOK, DiskOK, At, Goto, registryVars, diskVars, kernelVars, locals
<1> USE DEF Cleared
<1>0. LET i == sb[p]
          recorded == "cgroup.path" \in disk[i] /\ CgroupExists(i)
      IN  /\ pc[p] = "cg" /\ pc' = [pc EXCEPT ![p] = "rm"]
          /\ guest' = IF recorded /\ Running(i) THEN [guest EXCEPT ![i] = "dead"] ELSE guest
          /\ setup' = IF recorded /\ setup[i] \in {"going", "forked"}
                        THEN [setup EXCEPT ![i] = "gone"] ELSE setup
          /\ cgroup' = IF recorded THEN [cgroup EXCEPT ![i] = "removed"] ELSE cgroup
          /\ UNCHANGED <<op, sb, fd, todo, row, disk, inode, out>>
  BY DEF DestroyCgroup, CgroupRecorded
<1>a. Cleared(p) BY <1>0, TeardownAlone DEF TeardownPc
<1>1. Control' BY <1>0, <1>a DEF Control, ReconcilePc, SpawnPc, SnapPc, TeardownPc
<1>2. Locking' BY <1>0, <1>a DEF Locking, Held
<1>3. Fresh' BY <1>0, <1>a DEF Fresh, KernelOK
<1>4. Build' BY <1>0, <1>a DEF Build, Built, SpawnPc
<1>5. Stages'
  <2> SUFFICES ASSUME NEW b \in Procs, pc'[b] \in SpawnPc
               PROVE  Stage(b)'
    BY DEF Stages
  <2>1. b # p /\ pc[b] \in SpawnPc /\ Stage(b) /\ sb[b] # sb[p] /\ sb[b] \in Ids
    BY <1>0, <1>a DEF Stages, SpawnPc, Assigned
  <2>2. UNCHANGED <<pc[b], guest[sb[b]], setup[sb[b]], cgroup[sb[b]], disk[sb[b]]>>
    BY <1>0, <1>a, <2>1 DEF KernelOK
  <2> QED BY <1>0, <2>1, <2>2 DEF Stage, CgroupExists
<1>6. Said' BY <1>0, <1>a DEF Said, Told, KernelOK, CgroupExists, Running, GuestAlive
<1>7. Gone' BY <1>0, <1>a DEF Gone, DroppedIsEmpty
<1>8. Recorded'
  <2>1. CASE "cgroup.path" \in disk[sb[p]] /\ CgroupExists(sb[p])
    <3>1. ~Running(sb[p])' /\ setup'[sb[p]] \notin {"going", "forked"}
      BY <1>0, <1>a, <2>1 DEF KernelOK, Running
    <3>2. \A i \in Ids \ {sb[p]} : UNCHANGED <<guest[i], setup[i], cgroup[i]>>
      BY <1>0, <1>a DEF KernelOK
    <3>3. row[sb[p]] = "ready" => setup'[sb[p]] = "gone" /\ guest'[sb[p]] \in {"alive", "dead"}
      BY <1>0, <1>a, <2>1 DEF KernelOK, Recorded
    <3> QED BY <1>0, <1>a, <2>1, <3>1, <3>2, <3>3 DEF Recorded, Running, Assigned
  <2>2. CASE ~("cgroup.path" \in disk[sb[p]] /\ CgroupExists(sb[p]))
    <3>1. UNCHANGED <<guest, setup, cgroup>>
      BY <1>0, <2>2
    <3> QED BY <1>0, <1>a, <2>2, <3>1 DEF Recorded
  <2> QED BY <2>1, <2>2
<1>9. Covered'
  <2>1. Loose(sb[p])' => sb[p] \in faults'.spared
    <3>1. CASE "cgroup.path" \in disk[sb[p]] /\ CgroupExists(sb[p])
      BY <1>0, <1>a, <3>1 DEF KernelOK, Loose, CgroupExists
    <3>2. CASE ~("cgroup.path" \in disk[sb[p]] /\ CgroupExists(sb[p]))
      BY <1>0, <1>a, <3>2 DEF Covered, Sparing, Loose, Running, CgroupExists
    <3> QED BY <3>1, <3>2
  <2>2. \A j \in Ids \ {sb[p]} : Loose(j)' => Loose(j)
    BY <1>0, <1>a DEF KernelOK, Loose, Running, CgroupExists
  <2> QED BY <1>0, <1>a, <2>1, <2>2 DEF Sparing, Covered, Assigned
<1> QED BY <1>1, <1>2, <1>3, <1>4, <1>5, <1>6, <1>7, <1>8, <1>9

\* A cgroup that survives is in the history.
LEMMA DestroyCgroupFailsInv ==
    ASSUME NEW p \in Procs, Typed, Inv, Sparing, DestroyCgroupFails(p)
    PROVE  Inv'
<1> USE DEF Inv, Typed, TypeOK, TasksOK, DiskOK, At, Goto, registryVars, diskVars, kernelVars, locals
<1> USE DEF Cleared
<1>0. /\ pc[p] = "cg" /\ pc' = [pc EXCEPT ![p] = "rm"] /\ sb[p] \in faults'.spared
      /\ UNCHANGED <<op, sb, fd, todo, row, disk, inode, cgroup, setup, guest, out>>
  BY DEF DestroyCgroupFails
<1>a. Cleared(p) BY <1>0, TeardownAlone DEF TeardownPc
<1>1. Control' BY <1>0, <1>a DEF Control, ReconcilePc, SpawnPc, SnapPc, TeardownPc
<1>2. Locking' BY <1>0, <1>a DEF Locking, Held
<1>3. Fresh' BY <1>0, <1>a DEF Fresh
<1>4. Build' BY <1>0, <1>a DEF Build, Built, SpawnPc
<1>5. Stages' BY <1>0, <1>a DEF Stages, Stage, CgroupExists, SpawnPc, KernelOK, Assigned
<1>6. Said' BY <1>0, <1>a DEF Said, Told
<1>7. Gone' BY <1>0, <1>a DEF Gone, DroppedIsEmpty
<1>8. Recorded' BY <1>0, <1>a DEF Recorded, Running, CgroupExists
<1>9. Covered' BY <1>0, <1>a DEF Sparing, Covered, Loose, Running, CgroupExists
<1> QED BY <1>1, <1>2, <1>3, <1>4, <1>5, <1>6, <1>7, <1>8, <1>9

\* The records go only after the processes they name.
LEMMA UnlinkEntryInv ==
    ASSUME NEW p \in Procs, Typed, Inv, Sparing, UnlinkEntry(p)
    PROVE  Inv'
<1> USE DEF Inv, Typed, TypeOK, TasksOK, DiskOK, At, Goto, registryVars, diskVars, kernelVars, locals
<1> USE DEF Cleared
<1>0. /\ pc[p] = "rm" /\ pc' = pc
      /\ \E e \in disk[sb[p]] \ {"dir"} :
           /\ disk' = [disk EXCEPT ![sb[p]] = @ \ {e}]
           /\ inode' = [inode EXCEPT ![sb[p]] = IF e = "op.lock" THEN 0 ELSE @]
      /\ UNCHANGED <<op, sb, fd, todo, row, cgroup, setup, guest, out>>
  BY DEF UnlinkEntry
<1>a. Cleared(p) BY <1>0, TeardownAlone DEF TeardownPc
<1>1. Control' BY <1>0, <1>a DEF Control, ReconcilePc, SpawnPc, SnapPc, TeardownPc
<1>2. Locking' BY <1>0, <1>a DEF Locking, Held
<1>3. Fresh' BY <1>0, <1>a DEF Fresh
<1>4. Build' BY <1>0, <1>a DEF Build, Built, SpawnPc
<1>5. Stages' BY <1>0, <1>a DEF Stages, Stage, CgroupExists, SpawnPc, KernelOK, Assigned
<1>6. Said' BY <1>0, <1>a DEF Said, Told
<1>7. Gone' BY <1>0, <1>a DEF Gone, DroppedIsEmpty
<1>8. Recorded' BY <1>0, <1>a DEF Recorded, Running, CgroupExists
<1>9. Covered' BY <1>0, <1>a DEF Sparing, Covered, Loose, Running, CgroupExists
<1> QED BY <1>1, <1>2, <1>3, <1>4, <1>5, <1>6, <1>7, <1>8, <1>9

\* The directory goes empty.
LEMMA RemoveDirInv ==
    ASSUME NEW p \in Procs, Typed, Inv, Sparing, RemoveDir(p)
    PROVE  Inv'
<1> USE DEF Inv, Typed, TypeOK, TasksOK, DiskOK, At, Goto, registryVars, diskVars, kernelVars, locals
<1> USE DEF Cleared
<1>0. /\ pc[p] = "rm" /\ pc' = [pc EXCEPT ![p] = "row"]
      /\ disk' = [disk EXCEPT ![sb[p]] = {}] /\ disk[sb[p]] \subseteq {"dir"}
      /\ UNCHANGED <<op, sb, fd, todo, row, inode, cgroup, setup, guest, out>>
  BY DEF RemoveDir
<1>a. Cleared(p) BY <1>0, TeardownAlone DEF TeardownPc
<1>1. Control' BY <1>0, <1>a DEF Control, ReconcilePc, SpawnPc, SnapPc, TeardownPc
<1>2. Locking' BY <1>0, <1>a DEF Locking, Held
<1>3. Fresh' BY <1>0, <1>a DEF Fresh
<1>4. Build' BY <1>0, <1>a DEF Build, Built, SpawnPc
<1>5. Stages' BY <1>0, <1>a DEF Stages, Stage, CgroupExists, SpawnPc, KernelOK, Assigned
<1>6. Said' BY <1>0, <1>a DEF Said, Told
<1>7. Gone' BY <1>0, <1>a DEF Gone, DroppedIsEmpty
<1>8. Recorded' BY <1>0, <1>a DEF Recorded, Running, CgroupExists
<1>9. Covered' BY <1>0, <1>a DEF Sparing, Covered, Loose, Running, CgroupExists
<1> QED BY <1>1, <1>2, <1>3, <1>4, <1>5, <1>6, <1>7, <1>8, <1>9

\* The row goes last.
LEMMA DropRowInv ==
    ASSUME NEW p \in Procs, Typed, Inv, Sparing, DropRow(p)
    PROVE  Inv'
<1> USE DEF Inv, Typed, TypeOK, TasksOK, DiskOK, At, Goto, registryVars, diskVars, kernelVars, locals
<1> USE DEF Cleared
<1>0. /\ pc[p] = "row" /\ pc' = [pc EXCEPT ![p] = pc'[p]] /\ pc'[p] \in {"idle", "rc_next"}
      /\ op' = [op EXCEPT ![p] = IF pc'[p] = "rc_next" THEN "reconcile" ELSE "none"]
      /\ sb' = [sb EXCEPT ![p] = None] /\ fd' = [fd EXCEPT ![p] = 0]
      /\ row' = [row EXCEPT ![sb[p]] = IF HasRow(sb[p]) THEN "dropped" ELSE @]
      /\ UNCHANGED <<todo, disk, inode, cgroup, setup, guest, out>>
  BY DEF DropRow, RemoveSandbox, Return, Leave
<1>a. Cleared(p) BY <1>0, TeardownAlone DEF TeardownPc
<1>1. Control' BY <1>0, <1>a DEF Control, ReconcilePc, SpawnPc, SnapPc, TeardownPc
<1>2. Locking' BY <1>0, <1>a DEF Locking, Held
<1>3. Fresh' BY <1>0, <1>a DEF Fresh, RegistryOK, HasRow
<1>4. Build' BY <1>0, <1>a DEF Build, Built, RegistryOK, HasRow, SpawnPc, Assigned
<1>5. Stages' BY <1>0, <1>a DEF Stages, Stage, CgroupExists, SpawnPc, KernelOK, Assigned
<1>6. Said' BY <1>0, <1>a DEF Said, Told
<1>7. Gone' BY <1>0, <1>a DEF Gone, DroppedIsEmpty, RegistryOK, HasRow
<1>8. Recorded' BY <1>0, <1>a DEF Recorded, Running, CgroupExists, RegistryOK, HasRow
<1>9. Covered' BY <1>0, <1>a DEF Sparing, Covered, Loose, Running, CgroupExists, RegistryOK, HasRow
<1> QED BY <1>1, <1>2, <1>3, <1>4, <1>5, <1>6, <1>7, <1>8, <1>9

\* A new id belongs to the task that drew it.
LEMMA SpawnMkdirInv ==
    ASSUME NEW p \in Procs, Typed, Inv, Sparing, SpawnMkdir(p)
    PROVE  Inv'
<1> USE DEF Inv, Typed, TypeOK, TasksOK, DiskOK, At, Goto, registryVars, diskVars, kernelVars, locals
<1>0. PICK i \in Ids :
         /\ row[i] = "new" /\ disk[i] = {} /\ pc[p] = "idle"
         /\ sb' = [sb EXCEPT ![p] = i] /\ op' = [op EXCEPT ![p] = "spawn"]
         /\ pc' = [pc EXCEPT ![p] = "open"] /\ disk' = [disk EXCEPT ![i] = {"dir", "upper"}]
         /\ UNCHANGED <<fd, todo, row, inode, cgroup, setup, guest, out>>
  BY DEF SpawnMkdir
<1>a. /\ i # None /\ fd[p] = 0
      /\ \A q \in Procs : sb[q] # i
  BY <1>0, NoneAssumption DEF Fresh, Control
<1>1. Control' BY <1>0, <1>a DEF Control, ReconcilePc, SpawnPc, SnapPc, TeardownPc
<1>2. Locking' BY <1>0, <1>a DEF Locking, Held
<1>3. Fresh'
  <2>1. \A q \in Procs \ {p} : sb'[q] # i /\ sb'[q] = sb[q] /\ op'[q] = op[q] /\ pc'[q] = pc[q]
    BY <1>0, <1>a
  <2>2. \A q \in Procs \ {p} : sb[q] # None => disk'[sb[q]] = disk[sb[q]]
    BY <1>0, <1>a
  <2>3. sb'[p] = i /\ op'[p] = "spawn" /\ pc'[p] = "open" /\ disk'[i] # {}
    BY <1>0, <1>a
  <2>4. \A q \in Procs : op[q] = "spawn" => sb[q] # None
    BY DEF Control, ReconcilePc
  <2>5. \A q \in Procs : sb'[q] # None /\ row[sb'[q]] = "new" =>
          /\ op'[q] = "spawn" /\ pc'[q] \in {"open", "lock", "seed", "insert"}
          /\ disk'[sb'[q]] # {}
    BY <2>1, <2>2, <2>3 DEF Fresh
  <2>6. \A q \in Procs : op'[q] = "spawn" /\ pc'[q] = "lock" =>
          {"dir", "op.lock"} \subseteq disk'[sb'[q]] /\ inode[sb'[q]] = fd[q]
    BY <2>1, <2>2, <2>3, <2>4 DEF Fresh
  <2>7. \A q, r \in Procs : op'[q] = "spawn" /\ op'[r] = "spawn" /\ sb'[q] = sb'[r] => q = r
    BY <2>1, <2>3 DEF Fresh
  <2>8. \A q \in Procs : op'[q] = "spawn" /\ pc'[q] \in {"open", "lock", "seed", "insert"}
          => row[sb'[q]] = "new"
    BY <1>0, <2>1, <2>3 DEF Fresh
  <2>9. /\ \A q \in Procs : \A j \in todo[q] : row[j] # "new"
        /\ \A j \in Ids : row[j] = "new" =>
             guest[j] = "none" /\ setup[j] = "none" /\ cgroup[j] = "none"
    BY DEF Fresh
  <2>10. UNCHANGED <<todo, row, inode, fd, guest, setup, cgroup>>
    BY <1>0
  <2> QED BY <2>5, <2>6, <2>7, <2>8, <2>9, <2>10 DEF Fresh
<1>4. Build' BY <1>0, <1>a DEF Build, Built, ReconcilePc, SpawnPc, SnapPc, TeardownPc
<1>5. Stages'
  BY <1>0, <1>a DEF Stages, Stage, CgroupExists, ReconcilePc, SpawnPc, SnapPc, TeardownPc
<1>6. Said' BY <1>0, <1>a DEF Said, Told
<1>7. Gone' BY <1>0, <1>a DEF Gone, DroppedIsEmpty
<1>8. Recorded' BY <1>0, <1>a DEF Recorded, Running, CgroupExists
<1>9. Covered' BY <1>0, <1>a DEF Sparing, Covered, Loose, Running, CgroupExists
<1> QED BY <1>1, <1>2, <1>3, <1>4, <1>5, <1>6, <1>7, <1>8, <1>9

\* Seeding touches only the upper layer.
LEMMA SpawnSeedInv ==
    ASSUME NEW p \in Procs, Typed, Inv, Sparing, SpawnSeed(p)
    PROVE  Inv'
<1> USE DEF Inv, Typed, TypeOK, TasksOK, DiskOK, At, Goto, registryVars, diskVars, kernelVars, locals
<1> USE DEF AtWork
<1>0. /\ pc[p] = "seed" /\ pc' = [pc EXCEPT ![p] = "insert"]
      /\ UNCHANGED <<op, sb, fd, todo, row, disk, inode, cgroup, setup, guest, out>>
  BY DEF SpawnSeed
<1>a. AtWork(p) BY <1>0, BuilderFacts DEF SpawnPc
<1>1. Control' BY <1>0, <1>a DEF Control, ReconcilePc, SpawnPc, SnapPc, TeardownPc
<1>2. Locking' BY <1>0, <1>a DEF Locking, Held
<1>3. Fresh' BY <1>0, <1>a DEF Fresh, Stage, Built, KernelOK
<1>4. Build' BY <1>0, <1>a DEF Build, Built, SpawnPc
<1>5. Stages'
  <2> SUFFICES ASSUME NEW b \in Procs, pc'[b] \in SpawnPc
               PROVE  Stage(b)'
    BY DEF Stages
  <2>1. CASE b = p
    BY <1>0, <1>a, <2>1 DEF Stage, Built, Fresh, Said, Told, KernelOK, CgroupExists, SpawnPc
  <2>2. CASE b # p
    <3>1. pc[b] \in SpawnPc /\ Stage(b) /\ sb[b] # sb[p] /\ sb[b] \in Ids
      BY <1>0, <1>a, <2>2 DEF Stages, SpawnPc, Assigned
    <3> QED BY <1>0, <1>a, <2>2, <3>1 DEF Stage, CgroupExists, KernelOK
  <2> QED BY <2>1, <2>2
<1>6. Said' BY <1>0, <1>a DEF Said, Told, Stage, KernelOK
<1>7. Gone' BY <1>0, <1>a DEF Gone, DroppedIsEmpty, Built
<1>8. Recorded' BY <1>0, <1>a DEF Recorded, Stage, Running, CgroupExists, KernelOK
<1>9. Covered' BY <1>0, <1>a DEF Sparing, Covered, Loose, Stage, Running, CgroupExists, KernelOK
<1> QED BY <1>1, <1>2, <1>3, <1>4, <1>5, <1>6, <1>7, <1>8, <1>9

\* The id has its row now; nobody else knew it before.
LEMMA SpawnInsertInv ==
    ASSUME NEW p \in Procs, Typed, Inv, Sparing, SpawnInsert(p)
    PROVE  Inv'
<1> USE DEF Inv, Typed, TypeOK, TasksOK, DiskOK, At, Goto, registryVars, diskVars, kernelVars, locals
<1> USE DEF AtWork
<1>0. /\ pc[p] = "insert" /\ pc' = [pc EXCEPT ![p] = "cgroup"]
      /\ row' = [row EXCEPT ![sb[p]] = "creating"]
      /\ UNCHANGED <<op, sb, fd, todo, disk, inode, cgroup, setup, guest, out>>
  BY DEF SpawnInsert
<1>a. AtWork(p) BY <1>0, BuilderFacts DEF SpawnPc
<1>1. Control' BY <1>0, <1>a DEF Control, ReconcilePc, SpawnPc, SnapPc, TeardownPc
<1>2. Locking' BY <1>0, <1>a DEF Locking, Held
<1>3. Fresh' BY <1>0, <1>a, DrawerAlone DEF Fresh, RegistryOK, Assigned
<1>4. Build'
  <2>1. \A q \in Procs \ {p} : sb[q] # sb[p]
    BY <1>0, <1>a, DrawerAlone
  <2> QED BY <1>0, <1>a, <2>1 DEF Build, Built, SpawnPc, RegistryOK, Assigned
<1>5. Stages'
  <2> SUFFICES ASSUME NEW b \in Procs, pc'[b] \in SpawnPc
               PROVE  Stage(b)'
    BY DEF Stages
  <2>1. CASE b = p
    BY <1>0, <1>a, <2>1 DEF Stage, Built, Fresh, Said, Told, KernelOK, CgroupExists, SpawnPc
  <2>2. CASE b # p
    <3>1. pc[b] \in SpawnPc /\ Stage(b) /\ sb[b] # sb[p] /\ sb[b] \in Ids
      BY <1>0, <1>a, <2>2 DEF Stages, SpawnPc, Assigned
    <3> QED BY <1>0, <1>a, <2>2, <3>1 DEF Stage, CgroupExists, KernelOK
  <2> QED BY <2>1, <2>2
<1>6. Said' BY <1>0, <1>a DEF Said, Told, Stage, KernelOK
<1>7. Gone' BY <1>0, <1>a DEF Gone, DroppedIsEmpty, Built
<1>8. Recorded' BY <1>0, <1>a DEF Recorded, Stage, Running, CgroupExists, KernelOK
<1>9. Covered' BY <1>0, <1>a DEF Sparing, Covered, Loose, Stage, Running, CgroupExists, KernelOK
<1> QED BY <1>1, <1>2, <1>3, <1>4, <1>5, <1>6, <1>7, <1>8, <1>9

\* The cgroup is empty until its path is recorded.
LEMMA SpawnCgroupInv ==
    ASSUME NEW p \in Procs, Typed, Inv, Sparing, SpawnCgroup(p)
    PROVE  Inv'
<1> USE DEF Inv, Typed, TypeOK, TasksOK, DiskOK, At, Goto, registryVars, diskVars, kernelVars, locals
<1> USE DEF AtWork
<1>0. /\ pc[p] = "cgroup"
      /\ \/ cgroup' = [cgroup EXCEPT ![sb[p]] = "thawed"] /\ pc' = [pc EXCEPT ![p] = "cgfile"]
         \/ cgroup' = cgroup /\ pc' = [pc EXCEPT ![p] = "setup"]
      /\ UNCHANGED <<op, sb, fd, todo, row, disk, inode, setup, guest, out>>
  BY DEF SpawnCgroup
<1>a. AtWork(p) BY <1>0, BuilderFacts DEF SpawnPc
<1>1. Control' BY <1>0, <1>a DEF Control, ReconcilePc, SpawnPc, SnapPc, TeardownPc
<1>2. Locking' BY <1>0, <1>a DEF Locking, Held
<1>3. Fresh'
  <2>1. \A q \in Procs : /\ pc[q] \in {"open", "lock", "seed", "insert"} <=> pc'[q] \in {"open", "lock", "seed", "insert"}
                         /\ pc[q] = "lock" <=> pc'[q] = "lock"
    BY <1>0
  <2>2. \A i \in Ids : row[i] = "new" => cgroup'[i] = cgroup[i]
    BY <1>0, <1>a DEF KernelOK, Fresh
  <2> QED BY <1>0, <2>1, <2>2 DEF Fresh
<1>4. Build' BY <1>0, <1>a DEF Build, Built, SpawnPc
<1>5. Stages'
  <2> SUFFICES ASSUME NEW b \in Procs, pc'[b] \in SpawnPc
               PROVE  Stage(b)'
    BY DEF Stages
  <2>1. CASE b = p
    BY <1>0, <1>a, <2>1 DEF Stage, Built, Fresh, Said, Told, KernelOK, CgroupExists, SpawnPc
  <2>2. CASE b # p
    <3>1. pc[b] \in SpawnPc /\ Stage(b) /\ sb[b] # sb[p] /\ sb[b] \in Ids
      BY <1>0, <1>a, <2>2 DEF Stages, SpawnPc, Assigned
    <3> QED BY <1>0, <1>a, <2>2, <3>1 DEF Stage, CgroupExists, KernelOK
  <2> QED BY <2>1, <2>2
<1>6. Said' BY <1>0, <1>a DEF Said, Told, Stage, KernelOK
<1>7. Gone' BY <1>0, <1>a DEF Gone, DroppedIsEmpty, Built
<1>8. Recorded'
  <2>1. setup[sb[p]] = "none" /\ guest[sb[p]] = "none"
    BY <1>0, <1>a DEF Stage
  <2>2. \A q \in Procs : pc'[q] \in {"cg", "rm"} => pc[q] = pc'[q] /\ sb[q] # sb[p] /\ sb[q] \in Ids
    BY <1>0, <1>a DEF Assigned
  <2> QED BY <1>0, <1>a, <2>1, <2>2 DEF Recorded, KernelOK
<1>9. Covered'
  <2>1. \A j \in Ids : Loose(j)' => Loose(j)
    BY <1>0, <1>a DEF Stage, Loose, Running, CgroupExists, KernelOK
  <2> QED BY <1>0, <1>a, <2>1, CoveredKept
<1> QED BY <1>1, <1>2, <1>3, <1>4, <1>5, <1>6, <1>7, <1>8, <1>9

\* The path is recorded before anything joins the cgroup.
LEMMA SpawnRecordCgroupInv ==
    ASSUME NEW p \in Procs, Typed, Inv, Sparing, SpawnRecordCgroup(p)
    PROVE  Inv'
<1> USE DEF Inv, Typed, TypeOK, TasksOK, DiskOK, At, Goto, registryVars, diskVars, kernelVars, locals
<1> USE DEF AtWork
<1>0. /\ pc[p] = "cgfile" /\ pc' = [pc EXCEPT ![p] = "setup"]
      /\ disk' = [disk EXCEPT ![sb[p]] = @ \cup {"cgroup.path"}]
      /\ UNCHANGED <<op, sb, fd, todo, row, inode, cgroup, setup, guest, out>>
  BY DEF SpawnRecordCgroup
<1>a. AtWork(p) BY <1>0, BuilderFacts DEF SpawnPc
<1>1. Control' BY <1>0, <1>a DEF Control, ReconcilePc, SpawnPc, SnapPc, TeardownPc
<1>2. Locking'
  <2>1. \A q \in Procs : Held(q)' <=> Held(q)
    BY <1>0, <1>a DEF Held, SpawnPc
  <2>2. \A i \in Ids : /\ "op.lock" \in disk'[i] <=> "op.lock" \in disk[i]
                       /\ "dir" \in disk[i] => "dir" \in disk'[i]
                       /\ disk'[i] # {} => disk[i] # {}
    BY <1>0, <1>a DEF Built
  <2> QED BY <1>0, <2>1, <2>2 DEF Locking
<1>3. Fresh' BY <1>0, <1>a DEF Fresh, Stage, Built, KernelOK
<1>4. Build' BY <1>0, <1>a DEF Build, Built, SpawnPc
<1>5. Stages'
  <2> SUFFICES ASSUME NEW b \in Procs, pc'[b] \in SpawnPc
               PROVE  Stage(b)'
    BY DEF Stages
  <2>1. CASE b = p
    BY <1>0, <1>a, <2>1 DEF Stage, Built, Fresh, Said, Told, KernelOK, CgroupExists, SpawnPc
  <2>2. CASE b # p
    <3>1. pc[b] \in SpawnPc /\ Stage(b) /\ sb[b] # sb[p] /\ sb[b] \in Ids
      BY <1>0, <1>a, <2>2 DEF Stages, SpawnPc, Assigned
    <3> QED BY <1>0, <1>a, <2>2, <3>1 DEF Stage, CgroupExists, KernelOK
  <2> QED BY <2>1, <2>2
<1>6. Said' BY <1>0, <1>a DEF Said, Told, Stage, KernelOK
<1>7. Gone' BY <1>0, <1>a DEF Gone, DroppedIsEmpty, Built
<1>8. Recorded' BY <1>0, <1>a DEF Recorded, Stage, Running, CgroupExists, KernelOK
<1>9. Covered' BY <1>0, <1>a DEF Sparing, Covered, Loose, Stage, Running, CgroupExists, KernelOK
<1> QED BY <1>1, <1>2, <1>3, <1>4, <1>5, <1>6, <1>7, <1>8, <1>9

\* Setup starts and has said nothing yet.
LEMMA SpawnSetupInv ==
    ASSUME NEW p \in Procs, Typed, Inv, Sparing, SpawnSetup(p)
    PROVE  Inv'
<1> USE DEF Inv, Typed, TypeOK, TasksOK, DiskOK, At, Goto, registryVars, diskVars, kernelVars, locals
<1> USE DEF AtWork
<1>0. /\ pc[p] = "setup" /\ pc' = [pc EXCEPT ![p] = "drive"]
      /\ setup' = [setup EXCEPT ![sb[p]] = "waiting"]
      /\ UNCHANGED <<op, sb, fd, todo, row, disk, inode, cgroup, guest, out>>
  BY DEF SpawnSetup
<1>a. AtWork(p) BY <1>0, BuilderFacts DEF SpawnPc
<1>1. Control' BY <1>0, <1>a DEF Control, ReconcilePc, SpawnPc, SnapPc, TeardownPc
<1>2. Locking' BY <1>0, <1>a DEF Locking, Held
<1>3. Fresh' BY <1>0, <1>a DEF Fresh, Stage, Built, KernelOK
<1>4. Build' BY <1>0, <1>a DEF Build, Built, SpawnPc
<1>5. Stages'
  <2> SUFFICES ASSUME NEW b \in Procs, pc'[b] \in SpawnPc
               PROVE  Stage(b)'
    BY DEF Stages
  <2>1. CASE b = p
    BY <1>0, <1>a, <2>1 DEF Stage, Built, Fresh, Said, Told, KernelOK, CgroupExists, SpawnPc
  <2>2. CASE b # p
    <3>1. pc[b] \in SpawnPc /\ Stage(b) /\ sb[b] # sb[p] /\ sb[b] \in Ids
      BY <1>0, <1>a, <2>2 DEF Stages, SpawnPc, Assigned
    <3> QED BY <1>0, <1>a, <2>2, <3>1 DEF Stage, CgroupExists, KernelOK
  <2> QED BY <2>1, <2>2
<1>6. Said' BY <1>0, <1>a DEF Said, Told, Stage, KernelOK
<1>7. Gone' BY <1>0, <1>a DEF Gone, DroppedIsEmpty, Built
<1>8. Recorded' BY <1>0, <1>a DEF Recorded, Stage, Running, CgroupExists, KernelOK
<1>9. Covered' BY <1>0, <1>a DEF Sparing, Covered, Loose, Stage, Running, CgroupExists, KernelOK
<1> QED BY <1>1, <1>2, <1>3, <1>4, <1>5, <1>6, <1>7, <1>8, <1>9

\* Setup may join the cgroup, whose path is recorded.
LEMMA SpawnGoInv ==
    ASSUME NEW p \in Procs, Typed, Inv, Sparing, SpawnGo(p)
    PROVE  Inv'
<1> USE DEF Inv, Typed, TypeOK, TasksOK, DiskOK, At, Goto, registryVars, diskVars, kernelVars, locals
<1> USE DEF AtWork
<1>0. /\ pc[p] = "drive" /\ pc' = pc /\ setup[sb[p]] = "waiting"
      /\ setup' = [setup EXCEPT ![sb[p]] = "going"]
      /\ UNCHANGED <<op, sb, fd, todo, row, disk, inode, cgroup, guest, out>>
  BY DEF SpawnGo
<1>a. AtWork(p) BY <1>0, BuilderFacts DEF SpawnPc
<1>1. Control' BY <1>0, <1>a DEF Control, ReconcilePc, SpawnPc, SnapPc, TeardownPc
<1>2. Locking' BY <1>0, <1>a DEF Locking, Held
<1>3. Fresh' BY <1>0, <1>a DEF Fresh, Stage, Built, KernelOK
<1>4. Build' BY <1>0, <1>a DEF Build, Built, SpawnPc
<1>5. Stages'
  <2> SUFFICES ASSUME NEW b \in Procs, pc'[b] \in SpawnPc
               PROVE  Stage(b)'
    BY DEF Stages
  <2>1. CASE b = p
    BY <1>0, <1>a, <2>1 DEF Stage, Built, Fresh, Said, Told, KernelOK, CgroupExists, SpawnPc
  <2>2. CASE b # p
    <3>1. pc[b] \in SpawnPc /\ Stage(b) /\ sb[b] # sb[p] /\ sb[b] \in Ids
      BY <1>0, <1>a, <2>2 DEF Stages, SpawnPc, Assigned
    <3> QED BY <1>0, <1>a, <2>2, <3>1 DEF Stage, CgroupExists, KernelOK
  <2> QED BY <2>1, <2>2
<1>6. Said' BY <1>0, <1>a DEF Said, Told, Stage, KernelOK
<1>7. Gone' BY <1>0, <1>a DEF Gone, DroppedIsEmpty, Built
<1>8. Recorded'
  <2>1. \A q \in Procs : pc'[q] \in {"cg", "rm"} =>
          pc[q] = pc'[q] /\ sb[q] # sb[p] /\ sb[q] \in Ids
    BY <1>0, <1>a DEF Assigned
  <2> QED BY <1>0, <1>a, <2>1 DEF Recorded, Stage, Running, CgroupExists, KernelOK
<1>9. Covered'
  <2>1. \A j \in Ids : Loose(j)' /\ j # sb[p] => Loose(j)
    BY <1>0, <1>a DEF Loose, Running, CgroupExists, KernelOK
  <2>2. CgroupExists(sb[p]) => "cgroup.path" \in disk[sb[p]]
    BY <1>0, <1>a DEF Stage
  <2>3. \A q \in Procs : pc[q] = "rm" => sb[q] # sb[p] /\ sb[q] \in Ids
    BY <1>0, <1>a DEF Assigned
  <2> QED BY <1>0, <2>1, <2>2, <2>3 DEF Sparing, Covered, Loose, Running, CgroupExists
<1> QED BY <1>1, <1>2, <1>3, <1>4, <1>5, <1>6, <1>7, <1>8, <1>9

\* "pid" means that setup is gone, "ready" that the guest came up.
LEMMA DriveReadInv ==
    ASSUME NEW p \in Procs, Typed, Inv, Sparing, DriveRead(p)
    PROVE  Inv'
<1> USE DEF Inv, Typed, TypeOK, TasksOK, DiskOK, At, Goto, registryVars, diskVars, kernelVars, locals
<1> USE DEF AtWork
<1>0. /\ pc[p] \in {"drive", "drive_pid"} /\ out[sb[p]] # << >>
      /\ out' = [out EXCEPT ![sb[p]] = Tail(@)]
      /\ \/ /\ Head(out[sb[p]]) = "pid" /\ setup' = setup
            /\ pc' = [pc EXCEPT ![p] = "drive_pid"]
         \/ /\ Head(out[sb[p]]) = "ready" /\ pc[p] = "drive_pid" /\ setup' = setup
            /\ pc' = [pc EXCEPT ![p] = "pidfile"]
         \/ /\ setup' = [setup EXCEPT ![sb[p]] = "gone"]
            /\ pc' = [pc EXCEPT ![p] = "kill"]
      /\ UNCHANGED <<op, sb, fd, todo, row, disk, inode, cgroup, guest>>
  BY DEF DriveRead, AbortSetup
<1>a. AtWork(p) BY <1>0, BuilderFacts DEF SpawnPc
<1>b. /\ \A q \in Procs \ {p} : pc'[q] = pc[q]
      /\ pc'[p] \in {"drive_pid", "pidfile", "kill"}
      /\ setup' \in {setup, [setup EXCEPT ![sb[p]] = "gone"]}
      /\ row[sb[p]] = "creating"
  BY <1>0, <1>a
<1>1. Control' BY <1>0, <1>a DEF Control, ReconcilePc, SpawnPc, SnapPc, TeardownPc
<1>2. Locking'
  <2>1. \A q \in Procs : Held(q)' <=> Held(q)
    BY <1>0, <1>a DEF Held, SpawnPc
  <2> QED BY <1>0, <1>a, <2>1 DEF Locking
<1>3. Fresh'
  <2>1. \A i \in Ids : row[i] = "new" => setup'[i] = setup[i]
    BY <1>b, <1>a DEF KernelOK
  <2>2. \A q \in Procs : pc'[q] \in {"open", "lock", "seed", "insert"} => pc'[q] = pc[q]
    BY <1>b
  <2>3. \A q \in Procs : row[sb[q]] = "new" => pc'[q] = pc[q]
    BY <1>b
  <2> QED BY <1>0, <2>1, <2>2, <2>3 DEF Fresh
<1>4. Build' BY <1>0, <1>a DEF Build, Built, SpawnPc
<1>5. Stages'
  <2> SUFFICES ASSUME NEW b \in Procs, pc'[b] \in SpawnPc
               PROVE  Stage(b)'
    BY DEF Stages
  <2>1. CASE b = p
    BY <1>0, <1>a, <2>1 DEF Stage, Built, Fresh, Said, Told, KernelOK, CgroupExists, SpawnPc
  <2>2. CASE b # p
    <3>1. pc[b] \in SpawnPc /\ Stage(b) /\ sb[b] # sb[p] /\ sb[b] \in Ids
      BY <1>0, <1>a, <2>2 DEF Stages, SpawnPc, Assigned
    <3> QED BY <1>0, <1>a, <2>2, <3>1 DEF Stage, CgroupExists, KernelOK
  <2> QED BY <2>1, <2>2
<1>6. Said' BY <1>0, <1>a DEF Said, Told, Stage, KernelOK
<1>7. Gone' BY <1>0, <1>b DEF Gone, DroppedIsEmpty
<1>8. Recorded'
  <2>1. \A q \in Procs : pc'[q] \in {"cg", "rm"} =>
          pc[q] = pc'[q] /\ sb[q] # sb[p] /\ sb[q] \in Ids
    BY <1>0, <1>a, <1>b DEF Assigned
  <2> QED BY <1>0, <1>a, <1>b, <2>1 DEF Recorded, Running, CgroupExists, KernelOK
<1>9. Covered'
  <2>1. \A j \in Ids : Loose(j)' => Loose(j)
    BY <1>0, <1>a, <1>b DEF Loose, Stage, Running, CgroupExists, KernelOK
  <2> QED BY <1>0, <1>a, <1>b, <2>1, CoveredKept
<1> QED BY <1>1, <1>2, <1>3, <1>4, <1>5, <1>6, <1>7, <1>8, <1>9

\* The rollback starts under the lock that is held.
LEMMA DriveFailsInv ==
    ASSUME NEW p \in Procs, Typed, Inv, Sparing, DriveFails(p)
    PROVE  Inv'
<1> USE DEF Inv, Typed, TypeOK, TasksOK, DiskOK, At, Goto, registryVars, diskVars, kernelVars, locals
<1> USE DEF AtWork
<1>0. /\ pc[p] \in {"drive", "drive_pid"} /\ pc' = [pc EXCEPT ![p] = "kill"]
      /\ setup' = [setup EXCEPT ![sb[p]] = "gone"]
      /\ UNCHANGED <<op, sb, fd, todo, row, disk, inode, cgroup, guest, out>>
  BY DEF DriveFails, AbortSetup
<1>a. AtWork(p) BY <1>0, BuilderFacts DEF SpawnPc
<1>1. Control' BY <1>0, <1>a DEF Control, ReconcilePc, SpawnPc, SnapPc, TeardownPc
<1>2. Locking' BY <1>0, <1>a DEF Locking, Held
<1>3. Fresh' BY <1>0, <1>a DEF Fresh, Stage, Built, KernelOK
<1>4. Build' BY <1>0, <1>a DEF Build, Built, SpawnPc
<1>5. Stages'
  <2> SUFFICES ASSUME NEW b \in Procs, pc'[b] \in SpawnPc
               PROVE  Stage(b)'
    BY DEF Stages
  <2>1. CASE b = p
    BY <1>0, <1>a, <2>1 DEF Stage, Built, Fresh, Said, Told, KernelOK, CgroupExists, SpawnPc
  <2>2. CASE b # p
    <3>1. pc[b] \in SpawnPc /\ Stage(b) /\ sb[b] # sb[p] /\ sb[b] \in Ids
      BY <1>0, <1>a, <2>2 DEF Stages, SpawnPc, Assigned
    <3> QED BY <1>0, <1>a, <2>2, <3>1 DEF Stage, CgroupExists, KernelOK
  <2> QED BY <2>1, <2>2
<1>6. Said' BY <1>0, <1>a DEF Said, Told, Stage, KernelOK
<1>7. Gone' BY <1>0, <1>a DEF Gone, DroppedIsEmpty, Built
<1>8. Recorded' BY <1>0, <1>a DEF Recorded, Stage, Running, CgroupExists, KernelOK
<1>9. Covered'
  <2>1. \A j \in Ids : Loose(j)' => Loose(j)
    BY <1>0, <1>a DEF Loose, Stage, Running, CgroupExists, KernelOK
  <2> QED BY <1>0, <1>a, <2>1, CoveredKept
<1> QED BY <1>1, <1>2, <1>3, <1>4, <1>5, <1>6, <1>7, <1>8, <1>9

\* The pidfile names a guest that came up.
LEMMA SpawnPidfileInv ==
    ASSUME NEW p \in Procs, Typed, Inv, Sparing, SpawnPidfile(p)
    PROVE  Inv'
<1> USE DEF Inv, Typed, TypeOK, TasksOK, DiskOK, At, Goto, registryVars, diskVars, kernelVars, locals
<1> USE DEF AtWork
<1>0. /\ pc[p] = "pidfile" /\ pc' = [pc EXCEPT ![p] = "ready"]
      /\ disk' = [disk EXCEPT ![sb[p]] = @ \cup {"guest.pid"}]
      /\ UNCHANGED <<op, sb, fd, todo, row, inode, cgroup, setup, guest, out>>
  BY DEF SpawnPidfile
<1>a. AtWork(p) BY <1>0, BuilderFacts DEF SpawnPc
<1>1. Control' BY <1>0, <1>a DEF Control, ReconcilePc, SpawnPc, SnapPc, TeardownPc
<1>2. Locking'
  <2>1. \A q \in Procs : Held(q)' <=> Held(q)
    BY <1>0, <1>a DEF Held, SpawnPc
  <2>2. \A i \in Ids : /\ "op.lock" \in disk'[i] <=> "op.lock" \in disk[i]
                       /\ "dir" \in disk[i] => "dir" \in disk'[i]
                       /\ disk'[i] # {} => disk[i] # {}
    BY <1>0, <1>a DEF Built
  <2> QED BY <1>0, <2>1, <2>2 DEF Locking
<1>3. Fresh' BY <1>0, <1>a DEF Fresh, Stage, Built, KernelOK
<1>4. Build' BY <1>0, <1>a DEF Build, Built, SpawnPc
<1>5. Stages'
  <2> SUFFICES ASSUME NEW b \in Procs, pc'[b] \in SpawnPc
               PROVE  Stage(b)'
    BY DEF Stages
  <2>1. CASE b = p
    BY <1>0, <1>a, <2>1 DEF Stage, Built, Fresh, Said, Told, KernelOK, CgroupExists, SpawnPc
  <2>2. CASE b # p
    <3>1. pc[b] \in SpawnPc /\ Stage(b) /\ sb[b] # sb[p] /\ sb[b] \in Ids
      BY <1>0, <1>a, <2>2 DEF Stages, SpawnPc, Assigned
    <3> QED BY <1>0, <1>a, <2>2, <3>1 DEF Stage, CgroupExists, KernelOK
  <2> QED BY <2>1, <2>2
<1>6. Said' BY <1>0, <1>a DEF Said, Told, Stage, KernelOK
<1>7. Gone' BY <1>0, <1>a DEF Gone, DroppedIsEmpty, Built
<1>8. Recorded'
  <2>1. \A q \in Procs : pc'[q] \in {"cg", "rm"} =>
          pc[q] = pc'[q] /\ sb[q] # sb[p] /\ sb[q] \in Ids
    BY <1>0, <1>a DEF Assigned
  <2> QED BY <1>0, <1>a, <2>1 DEF Recorded, Running, CgroupExists
<1>9. Covered'
  <2>1. \A j \in Ids : Loose(j)' => Loose(j)
    BY <1>0, <1>a DEF Loose, Stage, Running, CgroupExists, KernelOK
  <2> QED BY <1>0, <1>a, <2>1, CoveredKept
<1> QED BY <1>1, <1>2, <1>3, <1>4, <1>5, <1>6, <1>7, <1>8, <1>9

\* A Ready row has a pidfile.
LEMMA SpawnReadyInv ==
    ASSUME NEW p \in Procs, Typed, Inv, Sparing, SpawnReady(p)
    PROVE  Inv'
<1> USE DEF Inv, Typed, TypeOK, TasksOK, DiskOK, At, Goto, registryVars, diskVars, kernelVars, locals
<1> USE DEF AtWork
<1>0. /\ pc[p] = "ready" /\ pc' = [pc EXCEPT ![p] = pc'[p]] /\ pc'[p] \in {"idle", "rc_next"}
      /\ op' = [op EXCEPT ![p] = IF pc'[p] = "rc_next" THEN "reconcile" ELSE "none"]
      /\ sb' = [sb EXCEPT ![p] = None] /\ fd' = [fd EXCEPT ![p] = 0]
      /\ row' = [row EXCEPT ![sb[p]] = "ready"]
      /\ UNCHANGED <<todo, disk, inode, cgroup, setup, guest, out>>
  BY DEF SpawnReady, Return, Leave
<1>a. AtWork(p) BY <1>0, BuilderFacts DEF SpawnPc
<1>1. Control' BY <1>0, <1>a DEF Control, ReconcilePc, SpawnPc, SnapPc, TeardownPc
<1>2. Locking' BY <1>0, <1>a DEF Locking, Held
<1>3. Fresh' BY <1>0, <1>a DEF Fresh, Stage, Built, KernelOK
<1>4. Build' BY <1>0, <1>a DEF Build, Built, SpawnPc
<1>5. Stages'
  <2> SUFFICES ASSUME NEW b \in Procs, pc'[b] \in SpawnPc
               PROVE  Stage(b)'
    BY DEF Stages
  <2>1. CASE b = p
    BY <1>0, <1>a, <2>1 DEF Stage, Built, Fresh, Said, Told, KernelOK, CgroupExists, SpawnPc
  <2>2. CASE b # p
    <3>1. pc[b] \in SpawnPc /\ Stage(b) /\ sb[b] # sb[p] /\ sb[b] \in Ids
      BY <1>0, <1>a, <2>2 DEF Stages, SpawnPc, Assigned
    <3> QED BY <1>0, <1>a, <2>2, <3>1 DEF Stage, CgroupExists, KernelOK
  <2> QED BY <2>1, <2>2
<1>6. Said' BY <1>0, <1>a DEF Said, Told, Stage, KernelOK
<1>7. Gone' BY <1>0, <1>a DEF Gone, DroppedIsEmpty, Built
<1>8. Recorded' BY <1>0, <1>a DEF Recorded, Stage, Running, CgroupExists, KernelOK
<1>9. Covered'
  <2>1. \A j \in Ids : Loose(j)' => Loose(j)
    BY <1>0, <1>a DEF Loose, Stage, Running, CgroupExists, KernelOK
  <2> QED BY <1>0, <1>a, <2>1, CoveredKept
<1> QED BY <1>1, <1>2, <1>3, <1>4, <1>5, <1>6, <1>7, <1>8, <1>9

\* The rollback starts under the lock that is held.
LEMMA SpawnStepFailsInv ==
    ASSUME NEW p \in Procs, Typed, Inv, Sparing, SpawnStepFails(p)
    PROVE  Inv'
<1> USE DEF Inv, Typed, TypeOK, TasksOK, DiskOK, At, Goto, registryVars, diskVars, kernelVars, locals
<1> USE DEF AtWork
<1>0. /\ pc[p] \in SpawnPc \ {"seed", "insert"} /\ pc' = [pc EXCEPT ![p] = "kill"]
      /\ UNCHANGED <<op, sb, fd, todo, row, disk, inode, cgroup, setup, guest, out>>
  BY DEF SpawnStepFails, SpawnPc
<1>a. AtWork(p) BY <1>0, BuilderFacts DEF SpawnPc
<1>1. Control' BY <1>0, <1>a DEF Control, ReconcilePc, SpawnPc, SnapPc, TeardownPc
<1>2. Locking'
  <2>1. \A q \in Procs : Held(q)' <=> Held(q)
    BY <1>0, <1>a DEF Held, SpawnPc
  <2> QED BY <1>0, <1>a, <2>1 DEF Locking
<1>3. Fresh' BY <1>0, <1>a DEF Fresh, Stage, Built, KernelOK
<1>4. Build' BY <1>0, <1>a DEF Build, Built, SpawnPc
<1>5. Stages'
  <2> SUFFICES ASSUME NEW b \in Procs, pc'[b] \in SpawnPc
               PROVE  Stage(b)'
    BY DEF Stages
  <2>1. CASE b = p
    BY <1>0, <1>a, <2>1 DEF Stage, Built, Fresh, Said, Told, KernelOK, CgroupExists, SpawnPc
  <2>2. CASE b # p
    <3>1. pc[b] \in SpawnPc /\ Stage(b) /\ sb[b] # sb[p] /\ sb[b] \in Ids
      BY <1>0, <1>a, <2>2 DEF Stages, SpawnPc, Assigned
    <3> QED BY <1>0, <1>a, <2>2, <3>1 DEF Stage, CgroupExists, KernelOK
  <2> QED BY <2>1, <2>2
<1>6. Said' BY <1>0, <1>a DEF Said, Told, Stage, KernelOK
<1>7. Gone' BY <1>0, <1>a DEF Gone, DroppedIsEmpty, Built
<1>8. Recorded' BY <1>0, <1>a DEF Recorded, Stage, Running, CgroupExists, KernelOK
<1>9. Covered' BY <1>0, <1>a DEF Sparing, Covered, Loose, Stage, Running, CgroupExists, KernelOK
<1> QED BY <1>1, <1>2, <1>3, <1>4, <1>5, <1>6, <1>7, <1>8, <1>9

\* A cgroup without its limits stays behind, and nothing ever runs in it.
LEMMA SpawnCgroupFailsInv ==
    ASSUME NEW p \in Procs, Typed, Inv, Sparing, SpawnCgroupFails(p)
    PROVE  Inv'
<1> USE DEF Inv, Typed, TypeOK, TasksOK, DiskOK, At, Goto, registryVars, diskVars, kernelVars, locals
<1> USE DEF AtWork
<1>0. /\ pc[p] = "cgroup" /\ pc' = [pc EXCEPT ![p] = "kill"]
      /\ cgroup' \in {cgroup, [cgroup EXCEPT ![sb[p]] = "thawed"]}
      /\ UNCHANGED <<op, sb, fd, todo, row, disk, inode, setup, guest, out>>
  BY DEF SpawnCgroupFails
<1>a. AtWork(p) BY <1>0, BuilderFacts DEF SpawnPc
<1>1. Control' BY <1>0, <1>a DEF Control, ReconcilePc, SpawnPc, SnapPc, TeardownPc
<1>2. Locking' BY <1>0, <1>a DEF Locking, Held
<1>3. Fresh'
  <2>1. \A i \in Ids : row[i] = "new" => cgroup'[i] = cgroup[i]
    BY <1>0, <1>a DEF KernelOK
  <2> QED BY <1>0, <1>a, <2>1 DEF Fresh
<1>4. Build' BY <1>0, <1>a DEF Build, Built, SpawnPc
<1>5. Stages'
  <2> SUFFICES ASSUME NEW b \in Procs, pc'[b] \in SpawnPc
               PROVE  Stage(b)'
    BY DEF Stages
  <2>1. b # p /\ pc[b] \in SpawnPc /\ Stage(b) /\ sb[b] # sb[p] /\ sb[b] \in Ids
    BY <1>0, <1>a DEF Stages, SpawnPc, Assigned
  <2> QED BY <1>0, <1>a, <2>1 DEF Stage, CgroupExists, KernelOK
<1>6. Said' BY <1>0, <1>a DEF Said, Told
<1>7. Gone' BY <1>0, <1>a DEF Gone, DroppedIsEmpty
<1>8. Recorded'
  <2>1. setup[sb[p]] = "none" /\ guest[sb[p]] = "none"
    BY <1>0, <1>a DEF Stage
  <2>2. \A q \in Procs : pc'[q] \in {"cg", "rm"} => pc[q] = pc'[q] /\ sb[q] # sb[p] /\ sb[q] \in Ids
    BY <1>0, <1>a DEF Assigned
  <2> QED BY <1>0, <1>a, <2>1, <2>2 DEF Recorded, KernelOK
<1>9. Covered'
  <2>1. \A j \in Ids : Loose(j)' => Loose(j)
    BY <1>0, <1>a DEF Stage, Loose, Running, CgroupExists, KernelOK
  <2> QED BY <1>0, <1>a, <2>1, CoveredKept
<1> QED BY <1>1, <1>2, <1>3, <1>4, <1>5, <1>6, <1>7, <1>8, <1>9

\* Setup fails before the fork, having made its state dir again at the most.
LEMMA SetupFailsInv ==
    ASSUME NEW i \in Ids, Typed, Inv, Sparing, SetupFails(i)
    PROVE  Inv'
<1> USE DEF Inv, Typed, TypeOK, TasksOK, DiskOK, At, Goto, registryVars, diskVars, kernelVars, locals
<1>0. /\ setup[i] \in {"waiting", "going"} /\ setup' = [setup EXCEPT ![i] = "gone"]
      /\ UNCHANGED <<pc, op, sb, fd, todo, row, inode, cgroup, guest>>
  BY DEF SetupFails
<1>a. row[i] # "new" /\ \A q \in Procs : sb[q] # None => sb[q] \in Ids
  BY <1>0 DEF Fresh
<1>b. \A j \in Ids : /\ \A e : e \in disk[j] => e \in disk'[j]
                    /\ \A e : e \in disk'[j] => e \in disk[j] \/ e = "dir"
  BY DEF SetupFails
<1>1. Control' BY <1>0 DEF Control
<1>2. Locking' BY <1>0, <1>a, <1>b DEF Locking, Held
<1>3. Fresh'
  <2>1. \A q \in Procs : sb[q] # None /\ disk[sb[q]] # {} => disk'[sb[q]] # {}
    BY <1>a, <1>b
  <2>2. \A q \in Procs : op[q] = "spawn" /\ pc[q] = "lock" => {"dir", "op.lock"} \subseteq disk'[sb[q]]
    BY <1>a, <1>b DEF Fresh, Assigned
  <2>3. \A j \in Ids : row[j] = "new" => guest[j] = "none" /\ setup'[j] = "none" /\ cgroup[j] = "none"
    BY <1>0, <1>a DEF Fresh, KernelOK
  <2> QED BY <1>0, <2>1, <2>2, <2>3 DEF Fresh
<1>4. Build'
  <2> SUFFICES ASSUME NEW b \in Procs, pc[b] \in SpawnPc
               PROVE  Built(b)'
    BY <1>0 DEF Build
  <2>1. Built(b) /\ sb[b] \in Ids
    BY DEF Build, SpawnPc, Assigned
  <2>2. {"dir", "op.lock"} \subseteq disk'[sb[b]]
    BY <1>b, <2>1 DEF Built
  <2> QED BY <1>0, <2>1, <2>2 DEF Built
<1>5. Stages'
  <2> SUFFICES ASSUME NEW b \in Procs, pc[b] \in SpawnPc
               PROVE  Stage(b)'
    BY <1>0 DEF Stages
  <2>1. Stage(b) /\ sb[b] \in Ids
    BY DEF Stages, SpawnPc, Assigned
  <2> QED BY <1>0, <1>b, <2>1 DEF Stage, CgroupExists, KernelOK
<1>6. Said'
  <2>1. \A j \in Ids : \A n \in 1..Len(out'[j]) :
          \/ j = i /\ out'[j][n] = "err"
          \/ n \in 1..Len(out[j]) /\ out'[j][n] = out[j][n]
    <3>1. out' \in {out, [out EXCEPT ![i] = Append(@, "err")]}
      BY DEF SetupFails, Say
    <3> QED BY <3>1, SayLines DEF Lines
  <2> SUFFICES ASSUME NEW j \in Ids
               PROVE  Told(j)'
    BY DEF Said
  <2>2. Told(j)
    BY DEF Said
  <2>3. setup'[j] = setup[j] \/ (j = i /\ setup'[j] = "gone")
    BY <1>0 DEF KernelOK
  <2>4. "guest.pid" \in disk'[j] <=> "guest.pid" \in disk[j]
    BY <1>b
  <2> QED BY <1>0, <2>1, <2>2, <2>3, <2>4 DEF Told
<1>7. Gone'
  <2>1. \A q \in Procs : pc[q] \in {"row", "rc_drop"} => sb[q] \in Ids
    BY DEF Assigned
  <2> QED BY <1>0, <1>b, <2>1 DEF Gone, DroppedIsEmpty
<1>8. Recorded'
  <2>1. \A q \in Procs : pc[q] \in {"cg", "rm"} => sb[q] \in Ids
    BY DEF Assigned
  <2> QED BY <1>0, <1>b, <2>1 DEF Recorded, KernelOK
<1>9. Covered'
  <2>1. \A j \in Ids : Loose(j)' => Loose(j)
    BY <1>0 DEF Loose, Running, CgroupExists, KernelOK
  <2> QED BY <1>0, <1>b, <2>1, CoveredKept
<1> QED BY <1>1, <1>2, <1>3, <1>4, <1>5, <1>6, <1>7, <1>8, <1>9

\* There was no guest before the fork.
LEMMA SetupForkInv ==
    ASSUME NEW i \in Ids, Typed, Inv, Sparing, SetupFork(i)
    PROVE  Inv'
<1> USE DEF Inv, Typed, TypeOK, TasksOK, DiskOK, At, Goto, registryVars, diskVars, kernelVars, locals
<1>0. /\ setup[i] = "going" /\ setup' = [setup EXCEPT ![i] = "forked"]
      /\ guest' = [guest EXCEPT ![i] = "booting"]
      /\ UNCHANGED <<pc, op, sb, fd, todo, row, disk, inode, cgroup, out>>
  BY DEF SetupFork
<1>a. i \in Ids /\ row[i] # "new"
  BY <1>0 DEF Fresh
<1>1. Control' BY <1>0, <1>a DEF Control
<1>2. Locking' BY <1>0, <1>a DEF Locking, Held
<1>3. Fresh' BY <1>0, <1>a DEF Fresh, KernelOK
<1>4. Build' BY <1>0, <1>a DEF Build, Built
<1>5. Stages' BY <1>0, <1>a DEF Stages, Stage, CgroupExists, KernelOK, Said, Told
<1>6. Said' BY <1>0, <1>a DEF Said, Told, KernelOK
<1>7. Gone' BY <1>0, <1>a DEF Gone, DroppedIsEmpty
<1>8. Recorded' BY <1>0, <1>a DEF Recorded, Running, CgroupExists, KernelOK, Said, Told
<1>9. Covered'
  <2>1. \A j \in Ids : Loose(j)' => Loose(j)
    BY <1>0, <1>a DEF Loose, Running, CgroupExists, KernelOK, Said, Told
  <2> QED BY <1>0, <1>a, <2>1, CoveredKept
<1> QED BY <1>1, <1>2, <1>3, <1>4, <1>5, <1>6, <1>7, <1>8, <1>9

\* Setup is gone once it has said "pid".
LEMMA SetupReportPidInv ==
    ASSUME NEW i \in Ids, Typed, Inv, Sparing, SetupReportPid(i)
    PROVE  Inv'
<1> USE DEF Inv, Typed, TypeOK, TasksOK, DiskOK, At, Goto, registryVars, diskVars, kernelVars, locals
<1>0. /\ setup[i] = "forked" /\ setup' = [setup EXCEPT ![i] = "gone"]
      /\ out' \in {out, [out EXCEPT ![i] = Append(@, "pid")]}
      /\ UNCHANGED <<pc, op, sb, fd, todo, row, disk, inode, cgroup, guest>>
  BY DEF SetupReportPid, Say
<1>a. i \in Ids /\ row[i] # "new"
  BY <1>0 DEF Fresh
<1>1. Control' BY <1>0, <1>a DEF Control
<1>2. Locking' BY <1>0, <1>a DEF Locking, Held
<1>3. Fresh' BY <1>0, <1>a DEF Fresh, KernelOK
<1>4. Build' BY <1>0, <1>a DEF Build, Built
<1>5. Stages' BY <1>0, <1>a DEF Stages, Stage, CgroupExists, KernelOK, Said, Told
<1>6. Said'
  <2>1. \A j \in Ids : \A n \in 1..Len(out'[j]) :
          \/ j = i /\ out'[j][n] = "pid"
          \/ n \in 1..Len(out[j]) /\ out'[j][n] = out[j][n]
    BY <1>0, SayLines DEF Lines
  <2> QED BY <1>0, <2>1 DEF Said, Told, KernelOK
<1>7. Gone' BY <1>0, <1>a DEF Gone, DroppedIsEmpty
<1>8. Recorded' BY <1>0, <1>a DEF Recorded, Running, CgroupExists, KernelOK, Said, Told
<1>9. Covered'
  <2>1. \A j \in Ids : Loose(j)' => Loose(j)
    BY <1>0, <1>a DEF Loose, Running, CgroupExists, KernelOK, Said, Told
  <2> QED BY <1>0, <1>a, <2>1, CoveredKept
<1> QED BY <1>1, <1>2, <1>3, <1>4, <1>5, <1>6, <1>7, <1>8, <1>9

\* A guest that boots has no Ready row and no pidfile yet.
LEMMA GuestReadyInv ==
    ASSUME NEW i \in Ids, Typed, Inv, Sparing, GuestReady(i)
    PROVE  Inv'
<1> USE DEF Inv, Typed, TypeOK, TasksOK, DiskOK, At, Goto, registryVars, diskVars, kernelVars, locals
<1>0. /\ guest[i] = "booting" /\ guest'[i] \in {"alive", "dead"}
      /\ \A j \in Ids \ {i} : guest'[j] = guest[j]
      /\ out' \in {out, [out EXCEPT ![i] = Append(@, "ready")]}
      /\ UNCHANGED <<pc, op, sb, fd, todo, row, disk, inode, cgroup, setup>>
  BY DEF GuestReady, Say, KernelOK
<1>a. i \in Ids /\ row[i] # "new"
  BY <1>0 DEF Fresh
<1>1. Control' BY <1>0, <1>a DEF Control
<1>2. Locking' BY <1>0, <1>a DEF Locking, Held
<1>3. Fresh' BY <1>0, <1>a DEF Fresh, KernelOK
<1>4. Build' BY <1>0, <1>a DEF Build, Built
<1>5. Stages' BY <1>0, <1>a DEF Stages, Stage, CgroupExists, SpawnPc, Assigned
<1>6. Said'
  <2> SUFFICES ASSUME NEW j \in Ids PROVE Told(j)'
    BY DEF Said
  <2>1. Told(j) /\ Told(i)
    BY DEF Said
  <2>2. \A n \in 1..Len(out'[j]) :
          \/ j = i /\ out'[j][n] = "ready"
          \/ n \in 1..Len(out[j]) /\ out'[j][n] = out[j][n]
    BY <1>0, SayLines DEF Lines
  <2>3. setup[i] \notin {"none", "waiting", "going"} /\ "guest.pid" \notin disk[i]
    BY <1>0, <2>1 DEF Told
  <2>4. CASE j = i
    <3>1. ASSUME NEW n \in 1..Len(out'[j]), out'[j][n] = "pid" PROVE setup'[j] = "gone"
      BY <1>0, <2>1, <2>2, <3>1 DEF Told
    <3> QED BY <1>0, <2>3, <2>4, <3>1 DEF Told
  <2>5. CASE j # i
    <3>1. out'[j] = out[j] /\ guest'[j] = guest[j]
      BY <1>0, <2>5 DEF KernelOK
    <3> QED BY <1>0, <2>1, <3>1 DEF Told
  <2> QED BY <2>4, <2>5
<1>7. Gone' BY <1>0, <1>a DEF Gone, DroppedIsEmpty
<1>8. Recorded'
  <2>1. row[i] # "ready" /\ "guest.pid" \notin disk[i] /\ Running(i)
    BY <1>0 DEF Recorded, Said, Told, Running
  <2>2. \A j \in Ids : Running(j)' => Running(j)
    BY <1>0, <2>1 DEF Running
  <2>3. \A j \in Ids : row[j] = "ready" \/ "guest.pid" \in disk[j] => guest'[j] = guest[j]
    BY <1>0, <2>1
  <2>4. \A q \in Procs : pc[q] \in {"cg", "rm"} => sb[q] \in Ids
    BY DEF Assigned
  <2>5. \A q \in Procs : pc[q] \in {"cg", "rm"} /\ "guest.pid" \in disk[sb[q]]
          => guest'[sb[q]] # "alive"
    BY <2>3, <2>4 DEF Recorded
  <2> QED BY <1>0, <2>3, <2>5 DEF Recorded
<1>9. Covered'
  <2>1. \A j \in Ids : Loose(j)' => Loose(j)
    BY <1>0 DEF Loose, Said, Told, Running, CgroupExists
  <2> QED BY <1>0, <2>1, CoveredKept
<1> QED BY <1>1, <1>2, <1>3, <1>4, <1>5, <1>6, <1>7, <1>8, <1>9

\* A guest that does not come up is dead.
LEMMA GuestBootFailsInv ==
    ASSUME NEW i \in Ids, Typed, Inv, Sparing, GuestBootFails(i)
    PROVE  Inv'
<1> USE DEF Inv, Typed, TypeOK, TasksOK, DiskOK, At, Goto, registryVars, diskVars, kernelVars, locals
<1>0. /\ guest[i] = "booting" /\ guest' = [guest EXCEPT ![i] = "dead"]
      /\ out' \in {out, [out EXCEPT ![i] = Append(@, "err")]}
      /\ UNCHANGED <<pc, op, sb, fd, todo, row, disk, inode, cgroup, setup>>
  BY DEF GuestBootFails, Say
<1>a. i \in Ids /\ row[i] # "new"
  BY <1>0 DEF Fresh
<1>1. Control' BY <1>0, <1>a DEF Control
<1>2. Locking' BY <1>0, <1>a DEF Locking, Held
<1>3. Fresh' BY <1>0, <1>a DEF Fresh, KernelOK
<1>4. Build' BY <1>0, <1>a DEF Build, Built
<1>5. Stages' BY <1>0, <1>a DEF Stages, Stage, CgroupExists, KernelOK, Said, Told
<1>6. Said'
  <2>1. \A j \in Ids : \A n \in 1..Len(out'[j]) :
          \/ j = i /\ out'[j][n] = "err"
          \/ n \in 1..Len(out[j]) /\ out'[j][n] = out[j][n]
    BY <1>0, SayLines DEF Lines
  <2> QED BY <1>0, <2>1 DEF Said, Told, KernelOK
<1>7. Gone' BY <1>0, <1>a DEF Gone, DroppedIsEmpty
<1>8. Recorded' BY <1>0, <1>a DEF Recorded, Running, CgroupExists, KernelOK, Said, Told
<1>9. Covered' BY <1>0, <1>a DEF Sparing, Covered, Loose, Running, CgroupExists, KernelOK, Said, Told
<1> QED BY <1>1, <1>2, <1>3, <1>4, <1>5, <1>6, <1>7, <1>8, <1>9

\* A guest that dies stops being accounted for as running.
LEMMA GuestDiesInv ==
    ASSUME NEW i \in Ids, Typed, Inv, Sparing, GuestDies(i)
    PROVE  Inv'
<1> USE DEF Inv, Typed, TypeOK, TasksOK, DiskOK, At, Goto, registryVars, diskVars, kernelVars, locals
<1>0. /\ guest[i] = "alive" /\ guest' = [guest EXCEPT ![i] = "dead"]
      /\ UNCHANGED <<pc, op, sb, fd, todo, row, disk, inode, cgroup, setup, out>>
  BY DEF GuestDies
<1>a. i \in Ids /\ row[i] # "new"
  BY <1>0 DEF Fresh
<1>1. Control' BY <1>0, <1>a DEF Control
<1>2. Locking' BY <1>0, <1>a DEF Locking, Held
<1>3. Fresh' BY <1>0, <1>a DEF Fresh, KernelOK
<1>4. Build' BY <1>0, <1>a DEF Build, Built
<1>5. Stages' BY <1>0, <1>a DEF Stages, Stage, CgroupExists, KernelOK, Said, Told
<1>6. Said' BY <1>0, <1>a DEF Said, Told, KernelOK
<1>7. Gone' BY <1>0, <1>a DEF Gone, DroppedIsEmpty
<1>8. Recorded' BY <1>0, <1>a DEF Recorded, Running, CgroupExists, KernelOK, Said, Told
<1>9. Covered'
  <2>1. \A j \in Ids : Loose(j)' => Loose(j)
    BY <1>0, <1>a DEF Loose, Running, CgroupExists, KernelOK, Said, Told
  <2> QED BY <1>0, <1>a, <2>1, CoveredKept
<1> QED BY <1>1, <1>2, <1>3, <1>4, <1>5, <1>6, <1>7, <1>8, <1>9

\* A freeze that takes effect does not change what runs in the cgroup.
LEMMA FreezeTakesInv ==
    ASSUME NEW i \in Ids, Typed, Inv, Sparing, FreezeTakes(i)
    PROVE  Inv'
<1> USE DEF Inv, Typed, TypeOK, TasksOK, DiskOK, registryVars, diskVars, locals
<1>0. UNCHANGED <<pc, op, sb, fd, todo, row, disk, inode, setup, guest, out>>
  BY DEF FreezeTakes
<1>a. \A j \in Ids : /\ CgroupExists(j)' <=> CgroupExists(j)
                     /\ cgroup'[j] = "none" <=> cgroup[j] = "none"
  BY DEF FreezeTakes, CgroupExists, KernelOK
<1>1. Control' BY <1>0 DEF Control
<1>2. Locking' BY <1>0 DEF Locking, Held
<1>3. Fresh' BY <1>0, <1>a DEF Fresh
<1>4. Build' BY <1>0 DEF Build, Built
<1>5. Stages' BY <1>0, <1>a DEF Stages, Stage, SpawnPc, Assigned
<1>6. Said' BY <1>0, <1>a DEF Said, Told
<1>7. Gone' BY <1>0, <1>a DEF Gone, DroppedIsEmpty
<1>8. Recorded' BY <1>0, <1>a DEF Recorded, Running, Assigned
<1>9. Covered' BY <1>0, <1>a DEF Sparing, Covered, Loose, Running, Assigned
<1> QED BY <1>1, <1>2, <1>3, <1>4, <1>5, <1>6, <1>7, <1>8, <1>9

\* A snapshot looks up a sandbox that has a row.
LEMMA SnapshotStartInv ==
    ASSUME NEW p \in Procs, Typed, Inv, Sparing, SnapshotStart(p)
    PROVE  Inv'
<1> USE DEF Inv, Typed, TypeOK, TasksOK, DiskOK, At, Goto, registryVars, diskVars, kernelVars, locals
<1>0. PICK i \in Ids :
         /\ HasRow(i) /\ sb' = [sb EXCEPT ![p] = i] /\ pc[p] = "idle"
         /\ op' = [op EXCEPT ![p] = "snapshot"] /\ pc' = [pc EXCEPT ![p] = "open"]
         /\ UNCHANGED <<fd, todo, row, disk, inode, cgroup, setup, guest, out>>
  BY DEF SnapshotStart
<1>a. i # None /\ row[i] # "new" /\ fd[p] = 0
  BY <1>0, NoneAssumption DEF HasRow, Control
<1>1. Control' BY <1>0, <1>a DEF Control, ReconcilePc, SpawnPc, SnapPc, TeardownPc
<1>2. Locking' BY <1>0, <1>a DEF Locking, Held
<1>3. Fresh' BY <1>0, <1>a DEF Fresh
<1>4. Build' BY <1>0, <1>a DEF Build, Built, ReconcilePc, SpawnPc, SnapPc, TeardownPc
<1>5. Stages'
  BY <1>0, <1>a DEF Stages, Stage, CgroupExists, ReconcilePc, SpawnPc, SnapPc, TeardownPc
<1>6. Said' BY <1>0, <1>a DEF Said, Told
<1>7. Gone' BY <1>0, <1>a DEF Gone, DroppedIsEmpty
<1>8. Recorded' BY <1>0, <1>a DEF Recorded, Running, CgroupExists
<1>9. Covered' BY <1>0, <1>a DEF Sparing, Covered, Loose, Running, CgroupExists
<1> QED BY <1>1, <1>2, <1>3, <1>4, <1>5, <1>6, <1>7, <1>8, <1>9

\* A destroy looks up a sandbox that has a row.
LEMMA DestroyStartInv ==
    ASSUME NEW p \in Procs, Typed, Inv, Sparing, DestroyStart(p)
    PROVE  Inv'
<1> USE DEF Inv, Typed, TypeOK, TasksOK, DiskOK, At, Goto, registryVars, diskVars, kernelVars, locals
<1>0. PICK i \in Ids :
         /\ HasRow(i) /\ sb' = [sb EXCEPT ![p] = i] /\ pc[p] = "idle"
         /\ op' = [op EXCEPT ![p] = "destroy"] /\ pc' = [pc EXCEPT ![p] = "open"]
         /\ UNCHANGED <<fd, todo, row, disk, inode, cgroup, setup, guest, out>>
  BY DEF DestroyStart
<1>a. i # None /\ row[i] # "new" /\ fd[p] = 0
  BY <1>0, NoneAssumption DEF HasRow, Control
<1>1. Control' BY <1>0, <1>a DEF Control, ReconcilePc, SpawnPc, SnapPc, TeardownPc
<1>2. Locking' BY <1>0, <1>a DEF Locking, Held
<1>3. Fresh' BY <1>0, <1>a DEF Fresh
<1>4. Build' BY <1>0, <1>a DEF Build, Built, ReconcilePc, SpawnPc, SnapPc, TeardownPc
<1>5. Stages'
  BY <1>0, <1>a DEF Stages, Stage, CgroupExists, ReconcilePc, SpawnPc, SnapPc, TeardownPc
<1>6. Said' BY <1>0, <1>a DEF Said, Told
<1>7. Gone' BY <1>0, <1>a DEF Gone, DroppedIsEmpty
<1>8. Recorded' BY <1>0, <1>a DEF Recorded, Running, CgroupExists
<1>9. Covered' BY <1>0, <1>a DEF Sparing, Covered, Loose, Running, CgroupExists
<1> QED BY <1>1, <1>2, <1>3, <1>4, <1>5, <1>6, <1>7, <1>8, <1>9

\* The pass looks at a listed row; a missing directory is empty.
LEMMA ReconcileRowInv ==
    ASSUME NEW p \in Procs, Typed, Inv, Sparing, ReconcileRow(p)
    PROVE  Inv'
<1> USE DEF Inv, Typed, TypeOK, TasksOK, DiskOK, At, Goto, registryVars, diskVars, kernelVars, locals
<1>0. PICK i \in todo[p] :
         /\ todo' = [todo EXCEPT ![p] = @ \ {i}] /\ pc[p] = "rc_next"
         /\ \/ sb' = [sb EXCEPT ![p] = None] /\ pc' = [pc EXCEPT ![p] = "rc_next"]
            \/ sb' = [sb EXCEPT ![p] = i] /\ pc' = [pc EXCEPT ![p] = "rc_thaw"]
            \/ sb' = [sb EXCEPT ![p] = i] /\ pc' = [pc EXCEPT ![p] = "rc_drop"] /\ "dir" \notin disk[i]
            \/ sb' = [sb EXCEPT ![p] = i] /\ pc' = [pc EXCEPT ![p] = "rc_try"]
         /\ UNCHANGED <<op, fd, row, disk, inode, cgroup, setup, guest, out>>
  BY DEF ReconcileRow, GuestAlive
<1>a. i \in Ids /\ i # None /\ row[i] # "new" /\ fd[p] = 0 /\ sb[p] = None /\ op[p] = "reconcile"
  BY <1>0, NoneAssumption DEF Fresh, Control, ReconcilePc
<1>b. /\ \A q \in Procs \ {p} : pc'[q] = pc[q] /\ sb'[q] = sb[q]
      /\ pc'[p] \in {"rc_next", "rc_thaw", "rc_drop", "rc_try"}
      /\ pc'[p] = "rc_next" <=> sb'[p] = None
      /\ sb'[p] \in {None, i}
      /\ pc'[p] = "rc_drop" => sb'[p] = i /\ "dir" \notin disk[i]
  BY <1>0, <1>a
<1>1. Control' BY <1>0, <1>a, <1>b DEF Control, ReconcilePc, SpawnPc, SnapPc, TeardownPc
<1>2. Locking' BY <1>0, <1>a, <1>b DEF Locking, Held
<1>3. Fresh' BY <1>0, <1>a, <1>b DEF Fresh
<1>4. Build' BY <1>0, <1>a, <1>b DEF Build, Built, ReconcilePc, SpawnPc, SnapPc, TeardownPc
<1>5. Stages'
  BY <1>0, <1>a, <1>b DEF Stages, Stage, CgroupExists, ReconcilePc, SpawnPc, SnapPc, TeardownPc
<1>6. Said' BY <1>0, <1>a, <1>b DEF Said, Told
<1>7. Gone' BY <1>0, <1>a, <1>b DEF Gone, DroppedIsEmpty, Locking
<1>8. Recorded' BY <1>0, <1>a, <1>b DEF Recorded, Running, CgroupExists
<1>9. Covered' BY <1>0, <1>a, <1>b DEF Sparing, Covered, Loose, Running, CgroupExists
<1> QED BY <1>1, <1>2, <1>3, <1>4, <1>5, <1>6, <1>7, <1>8, <1>9

\* The row of a missing directory goes.
LEMMA ReconcileDropInv ==
    ASSUME NEW p \in Procs, Typed, Inv, Sparing, ReconcileDrop(p)
    PROVE  Inv'
<1> USE DEF Inv, Typed, TypeOK, TasksOK, DiskOK, At, Goto, registryVars, diskVars, kernelVars, locals
<1> USE DEF Cleared
<1>0. /\ pc[p] = "rc_drop" /\ pc' = [pc EXCEPT ![p] = pc'[p]] /\ pc'[p] \in {"idle", "rc_next"}
      /\ op' = [op EXCEPT ![p] = IF pc'[p] = "rc_next" THEN "reconcile" ELSE "none"]
      /\ sb' = [sb EXCEPT ![p] = None] /\ fd' = [fd EXCEPT ![p] = 0]
      /\ row' = [row EXCEPT ![sb[p]] = IF HasRow(sb[p]) THEN "dropped" ELSE @]
      /\ UNCHANGED <<todo, disk, inode, cgroup, setup, guest, out>>
  BY DEF ReconcileDrop, RemoveSandbox, Return, Leave
<1>a. Cleared(p) BY <1>0, TeardownAlone DEF TeardownPc
<1>1. Control' BY <1>0, <1>a DEF Control, ReconcilePc, SpawnPc, SnapPc, TeardownPc
<1>2. Locking' BY <1>0, <1>a DEF Locking, Held
<1>3. Fresh' BY <1>0, <1>a DEF Fresh, RegistryOK, HasRow
<1>4. Build' BY <1>0, <1>a DEF Build, Built, RegistryOK, HasRow, SpawnPc, Assigned
<1>5. Stages' BY <1>0, <1>a DEF Stages, Stage, CgroupExists, SpawnPc, KernelOK, Assigned
<1>6. Said' BY <1>0, <1>a DEF Said, Told
<1>7. Gone' BY <1>0, <1>a DEF Gone, DroppedIsEmpty, RegistryOK, HasRow
<1>8. Recorded' BY <1>0, <1>a DEF Recorded, Running, CgroupExists, RegistryOK, HasRow
<1>9. Covered' BY <1>0, <1>a DEF Sparing, Covered, Loose, Running, CgroupExists, RegistryOK, HasRow
<1> QED BY <1>1, <1>2, <1>3, <1>4, <1>5, <1>6, <1>7, <1>8, <1>9

\* Thawing a cgroup does not change what runs in it.
LEMMA ReconcileUnfreezeInv ==
    ASSUME NEW p \in Procs, Typed, Inv, Sparing, ReconcileUnfreeze(p)
    PROVE  Inv'
<1> USE DEF Inv, Typed, TypeOK, TasksOK, DiskOK, At, Goto, registryVars, diskVars, kernelVars, locals
<1> USE DEF Cleared
<1>0. /\ pc[p] = "rc_unfreeze" /\ pc' = [pc EXCEPT ![p] = pc'[p]] /\ pc'[p] \in {"idle", "rc_next"}
      /\ op' = [op EXCEPT ![p] = IF pc'[p] = "rc_next" THEN "reconcile" ELSE "none"]
      /\ sb' = [sb EXCEPT ![p] = None] /\ fd' = [fd EXCEPT ![p] = 0]
      /\ UNCHANGED <<todo, row, disk, inode, setup, guest, out>>
  BY DEF ReconcileUnfreeze, Return, Leave
<1>a. Cleared(p) BY <1>0, TeardownAlone DEF TeardownPc
<1>b. \A i \in Ids : cgroup'[i] # cgroup[i] => cgroup[i] = "frozen" /\ cgroup'[i] = "thawed"
  BY <1>a DEF ReconcileUnfreeze, ThawFrozen, KernelOK
<1>c. \A i \in Ids : /\ CgroupExists(i)' <=> CgroupExists(i)
                     /\ cgroup'[i] = "none" <=> cgroup[i] = "none"
  BY <1>b DEF CgroupExists
<1>1. Control' BY <1>0, <1>a DEF Control, ReconcilePc, SpawnPc, SnapPc, TeardownPc
<1>2. Locking' BY <1>0, <1>a, <1>c DEF Locking, Held
<1>3. Fresh' BY <1>0, <1>a, <1>c DEF Fresh
<1>4. Build' BY <1>0, <1>a DEF Build, Built, SpawnPc
<1>5. Stages' BY <1>0, <1>a, <1>c DEF Stages, Stage, SpawnPc, Assigned
<1>6. Said' BY <1>0, <1>a, <1>c DEF Said, Told
<1>7. Gone' BY <1>0, <1>a, <1>c DEF Gone, DroppedIsEmpty
<1>8. Recorded' BY <1>0, <1>a, <1>c DEF Recorded, Running, Assigned
<1>9. Covered' BY <1>0, <1>a, <1>c DEF Sparing, Covered, Loose, Running, Assigned
<1> QED BY <1>1, <1>2, <1>3, <1>4, <1>5, <1>6, <1>7, <1>8, <1>9

\* flock_try: a lock that is free has no holder, so no builder.
LEMMA TryLockInv ==
    ASSUME NEW p \in Procs, Typed, Inv, Sparing, NEW l, TryLock(p, l),
           \/ pc[p] = "rc_try" /\ l = "kill"
           \/ pc[p] = "rc_thaw" /\ l = "rc_unfreeze"
    PROVE  Inv'
<1> USE DEF Inv, Typed, TypeOK, TasksOK, DiskOK, At, Goto, registryVars, diskVars, kernelVars, locals
<1>0. /\ sb[p] \in Ids /\ OpenLockFile(sb[p]) /\ pc[p] \in {"rc_try", "rc_thaw"}
      /\ disk' = [disk EXCEPT ![sb[p]] = @ \cup {"op.lock"}] /\ "dir" \in disk[sb[p]]
      /\ fd' = [fd EXCEPT ![p] = LockInode(sb[p])]
      /\ ~Busy(sb[p], LockInode(sb[p]))
      /\ pc' = [pc EXCEPT ![p] = l] /\ l \in {"kill", "rc_unfreeze"}
      /\ UNCHANGED <<op, sb, todo, row, cgroup, setup, guest, out>>
  BY DEF TryLock, Assigned
<1>1. Control' BY <1>0, OpenInode DEF Control, ReconcilePc, SpawnPc, SnapPc, TeardownPc
<1>2. Locking' BY <1>0, OpenInode DEF Locking, Held, Busy
<1>3. Fresh' BY <1>0, OpenInode, DrawerAlone DEF Fresh, Control
<1>4. Build'
  <2> SUFFICES ASSUME NEW b \in Procs, pc'[b] \in SpawnPc
               PROVE  Built(b)'
    BY DEF Build
  <2>1. b # p /\ pc[b] \in SpawnPc /\ Built(b)
    BY <1>0 DEF Build, SpawnPc
  <2>2. sb[b] \in Ids /\ "op.lock" \in disk[sb[b]] /\ inode[sb[b]] = fd[b]
    BY <2>1 DEF Built, Assigned, SpawnPc
  <2>3. inode'[sb[b]] = fd[b] /\ (sb[p] = sb[b] => fd'[p] = fd[b])
    BY <1>0, <2>2, OpenInode
  <2> QED BY <1>0, <2>1, <2>2, <2>3 DEF Built
<1>5. Stages' BY <1>0, OpenInode DEF Stages, Stage, CgroupExists
<1>6. Said' BY <1>0, OpenInode DEF Said, Told
<1>7. Gone' BY <1>0, OpenInode DEF Gone, DroppedIsEmpty
<1>8. Recorded' BY <1>0, OpenInode DEF Recorded, Running, CgroupExists
<1>9. Covered' BY <1>0, OpenInode DEF Sparing, Covered, Loose, Running, CgroupExists
<1> QED BY <1>1, <1>2, <1>3, <1>4, <1>5, <1>6, <1>7, <1>8, <1>9
-----------------------------------------------------------------------------
(* Every step keeps the invariant *)

\* A call that returns, the same.
LEMMA ReturnInv ==
    ASSUME NEW p \in Procs, Typed, Inv, Sparing, Return(p), UNCHANGED <<row, disk, inode, kernelVars>>
    PROVE  Inv'
<1>1. \A q \in Procs : \A i \in todo'[q] : row[i] # "new"
  BY DEF Inv, Fresh, Return
<1> QED BY <1>1, LeaveInv DEF Return

\* The steps of destroy_inner and of waiting for the lock.
LEMMA TeardownStepInv ==
    ASSUME "lock" \notin Faults, NEW p \in Procs, Typed, Inv, Sparing, TeardownStep(p)
    PROVE  Inv'
<1> USE DEF registryVars, diskVars, kernelVars
<1>1. CASE OpenLock(p) \/ LockEx(p) \/ LockFails(p)
  BY <1>1, OpenLockInv, LockExInv DEF LockFails, Fault
<1>2. CASE KillGuestFails(p) \/ RemoveDirFails(p) \/ DropRowFails(p)
  BY <1>2, ReturnInv DEF KillGuestFails, RemoveDirFails, DropRowFails
<1> QED BY <1>1, <1>2, KillGuestInv, DestroyCgroupInv, DestroyCgroupFailsInv, UnlinkEntryInv,
           RemoveDirInv, DropRowInv
        DEF TeardownStep

\* The steps of spawn and do_spawn.
LEMMA SpawnStepInv ==
    ASSUME NEW p \in Procs, Typed, Inv, Sparing, SpawnStep(p)
    PROVE  Inv'
<1>1. CASE SpawnSeedFails(p) \/ SpawnInsertFails(p)
  BY <1>1, ReturnInv DEF SpawnSeedFails, SpawnInsertFails, registryVars, diskVars
<1> QED BY <1>1, SpawnMkdirInv, SpawnSeedInv, SpawnInsertInv, SpawnCgroupInv, SpawnCgroupFailsInv, SpawnRecordCgroupInv,
           SpawnSetupInv, SpawnGoInv, DriveReadInv, DriveFailsInv, SpawnPidfileInv, SpawnReadyInv,
           SpawnStepFailsInv
        DEF SpawnStep

\* The steps of setup and guest.
LEMMA SandboxStepInv ==
    ASSUME NEW i \in Ids, Typed, Inv, Sparing, SandboxStep(i)
    PROVE  Inv'
BY SetupFailsInv, SetupForkInv, SetupReportPidInv, GuestReadyInv, GuestBootFailsInv, GuestDiesInv,
   FreezeTakesInv DEF SandboxStep

\* The steps of snapshot.
LEMMA SnapshotStepInv ==
    ASSUME NEW p \in Procs, Typed, Inv, Sparing, SnapshotStep(p)
    PROVE  Inv'
<1> USE DEF At, registryVars, diskVars, kernelVars, locals
<1>1. CASE SnapshotRefused(p) \/ SnapshotInsertFails(p) \/ SnapshotDone(p) \/ SnapshotUndoRow(p)
  BY <1>1, ReturnInv DEF SnapshotRefused, SnapshotInsertFails, SnapshotDone, SnapshotUndoRow
<1>2. CASE SnapshotCreateDir(p) \/ SnapshotInsert(p) \/ SnapshotCopyBegin(p) \/ SnapshotUndoDir(p)
  BY <1>2, SnapshotInv
     DEF SnapshotCreateDir, SnapshotInsert, SnapshotCopyBegin, SnapshotUndoDir, SnapPc, CgroupExists
<1>3. CASE SnapshotCopyEnd(p) \/ SnapshotCopyFails(p)
  BY <1>3, SnapshotInv
     DEF SnapshotCopyEnd, SnapshotCopyFails, Thaw, ThawFailed, SnapPc, CgroupExists
<1>4. CASE SnapshotFreeze(p) \/ SnapshotThaw(p)
  <2>1. \A i \in Ids : /\ CgroupExists(i)' <=> CgroupExists(i)
                       /\ cgroup'[i] = "none" <=> cgroup[i] = "none"
    BY <1>4 DEF SnapshotFreeze, SnapshotThaw, FreezeCgroup, UnfreezeCgroup, Suspended,
                CgroupRecorded, CgroupExists, Typed, TypeOK, KernelOK
  <2> QED BY <1>4, <2>1, SnapshotInv DEF SnapshotFreeze, SnapshotThaw, SnapPc
<1> QED BY <1>1, <1>2, <1>3, <1>4, SnapshotStartInv DEF SnapshotStep

\* The steps of reconcile.
LEMMA ReconcileStepInv ==
    ASSUME NEW p \in Procs, Typed, Inv, Sparing, ReconcileStep(p)
    PROVE  Inv'
<1> USE DEF At, registryVars, diskVars
<1>1. CASE ReconcileStart(p)
  <2>1. \A q \in Procs : \A i \in todo'[q] : row[i] # "new"
    BY <1>1 DEF ReconcileStart, HasRow, Inv, Fresh, Typed, TypeOK, TasksOK
  <2> QED BY <1>1, <2>1, LeaveInv DEF ReconcileStart
<1>2. CASE ReconcileEnd(p)
  <2>1. \A q \in Procs : \A i \in todo'[q] : row[i] # "new"
    BY <1>2 DEF ReconcileEnd, Inv, Fresh
  <2> QED BY <1>2, <2>1, LeaveInv DEF ReconcileEnd
<1>3. CASE ReconcileReap(p) \/ ReconcileThawLock(p)
  BY <1>3, TryLockInv DEF ReconcileReap, ReconcileThawLock
<1>4. CASE ReconcileSkip(p)
  BY <1>4, ReturnInv DEF ReconcileSkip
<1> QED BY <1>1, <1>2, <1>3, <1>4, ReconcileRowInv, ReconcileDropInv, ReconcileUnfreezeInv
        DEF ReconcileStep

\* Every step keeps the invariant, unless a destroy runs without the lock.
LEMMA NextInv ==
    ASSUME "lock" \notin Faults, Typed, Inv, [Next]_vars
    PROVE  Inv'
<1>0. Sparing
  BY NextSpares
<1>1. CASE UNCHANGED vars
  <2> USE <1>1 DEF vars, registryVars, diskVars, kernelVars, locals, Inv
  <2>1. Control' /\ Locking' /\ Fresh'
    BY DEF Control, Locking, Held, Fresh
  <2>2. Build' /\ Stages' /\ Said'
    BY DEF Build, Built, Stages, Stage, CgroupExists, Said, Told
  <2>3. Gone' /\ Recorded' /\ Covered'
    BY DEF Gone, DroppedIsEmpty, Recorded, Covered, Loose, Running, CgroupExists
  <2> QED BY <2>1, <2>2, <2>3
<1>2. ASSUME NEW p \in Procs, Crash(p) PROVE Inv'
  <2>1. \A q \in Procs : \A i \in todo'[q] : row[i] # "new"
    BY <1>2 DEF Crash, Inv, Fresh, Typed, TypeOK, TasksOK
  <2> QED BY <1>0, <1>2, <2>1, LeaveInv DEF Crash, registryVars, diskVars
<1>3. ASSUME NEW p \in Procs, Exit(p) PROVE Inv'
  <2> USE <1>3 DEF Exit, Goto, At, registryVars, diskVars, kernelVars, locals, Inv, Typed, TypeOK, TasksOK
  <2>1. Control' /\ Locking'
    BY DEF Control, Locking, Held, ReconcilePc, SpawnPc, SnapPc, TeardownPc
  <2>2. Fresh' /\ Build'
    BY DEF Fresh, Build, Built, SpawnPc
  <2>3. Stages' /\ Said'
    BY DEF Stages, Stage, CgroupExists, Said, Told, SpawnPc
  <2>4. Gone' /\ Recorded' /\ Covered'
    BY DEF Gone, DroppedIsEmpty, Recorded, Covered, Loose, Running, CgroupExists
  <2> QED BY <2>1, <2>2, <2>3, <2>4
<1> QED BY <1>0, <1>1, <1>2, <1>3, TeardownStepInv, SpawnStepInv, SandboxStepInv, SnapshotStepInv,
           ReconcileStepInv, DestroyStartInv
        DEF Next, TaskStep

\* The invariant holds at the start.
LEMMA InitInv == Init => Typed /\ Inv
<1> SUFFICES ASSUME Init PROVE Typed /\ Inv
  OBVIOUS
<1> USE DEF Init
<1>1. Typed
  BY InodeAssumption, FaultsAssumption
     DEF Typed, TypeOK, Assigned, RegistryOK, DiskOK, KernelOK, TasksOK, FaultLog, Pcs
<1>2. Control /\ Locking /\ Fresh
  BY DEF Control, Locking, Held, Fresh, ReconcilePc, SpawnPc, SnapPc, TeardownPc
<1>3. Build /\ Stages /\ Said
  BY DEF Build, Stages, Said, Told, SpawnPc
<1>4. Gone /\ Recorded /\ Covered
  BY DEF Gone, DroppedIsEmpty, Recorded, Covered, Loose, Running, CgroupExists
<1> QED BY <1>1, <1>2, <1>3, <1>4 DEF Inv

\* The inductive invariant, from its three facts.
LEMMA Invariance ==
    ASSUME "lock" \notin Faults
    PROVE  Spec => [](Typed /\ Inv)
<1>1. Typed /\ Inv /\ [Next]_vars => (Typed /\ Inv)'
  BY NextTypes, NextInv
<1> QED BY <1>1, InitInv, PTL DEF Spec

-----------------------------------------------------------------------------
(* The safety theorems.  All assume that op.lock can be opened: destroy, by  *)
(* design, goes on without the lock when it cannot.                          *)

\* No destroy and no reconcile pass of another task is in destroy_inner for a
\* sandbox while its spawn builds it, although op.lock is unlinked with the
\* state dir and a task may hold a lock that nobody else can see any more.
THEOREM SpawnIsExclusive ==
    ASSUME "lock" \notin Faults
    PROVE  Spec => []SpawnExclusive
<1>1. Typed /\ Inv => SpawnExclusive
  BY BuilderAlone DEF SpawnExclusive, Building, TearingDown, TeardownPc, SpawnPc
<1> QED BY <1>1, Invariance, PTL

\* Once the row is dropped, the state dir holds nothing of the user's.
THEOREM DroppedLeavesNothing ==
    ASSUME "lock" \notin Faults
    PROVE  Spec => []DroppedIsEmpty
<1>1. Typed /\ Inv => DroppedIsEmpty
  BY DEF Inv, Gone
<1> QED BY <1>1, Invariance, PTL

\* Only destroy_inner's and reconcile's last steps drop a row.
LEMMA DropStep ==
    ASSUME Typed, Inv, [Next]_vars, NEW i \in Ids, HasRow(i), row'[i] = "dropped"
    PROVE  \E p \in Procs : pc[p] \in {"row", "rc_drop"} /\ sb[p] = i
<1> USE DEF Typed, TypeOK, RegistryOK, HasRow, registryVars
<1>1. row' # row
  OBVIOUS
<1>2. PICK p \in Procs : DropRow(p) \/ ReconcileDrop(p) \/ SpawnInsert(p) \/ SpawnReady(p)
  <2>1. \A j \in Ids : ~SandboxStep(j)
    BY <1>1 DEF SandboxStep, SetupFails, SetupFork, SetupReportPid, GuestReady, GuestBootFails,
                GuestDies, FreezeTakes
  <2>2. \A q \in Procs : ~Crash(q) /\ ~Exit(q) /\ ~DestroyStart(q) /\ ~SnapshotStep(q)
    BY <1>1 DEF Crash, Exit, DestroyStart, SnapshotStep, SnapshotStart, SnapshotCreateDir,
                SnapshotRefused, SnapshotInsert, SnapshotInsertFails, SnapshotFreeze,
                SnapshotCopyBegin, SnapshotCopyEnd, SnapshotCopyFails, SnapshotThaw,
                SnapshotDone, SnapshotUndoDir, SnapshotUndoRow
  <2>3. \A q \in Procs : TeardownStep(q) => DropRow(q)
    BY <1>1 DEF TeardownStep, OpenLock, LockEx, LockFails, KillGuest, KillGuestFails,
                DestroyCgroup, DestroyCgroupFails, UnlinkEntry, RemoveDir, RemoveDirFails,
                DropRowFails
  <2>4. \A q \in Procs : ReconcileStep(q) => ReconcileDrop(q)
    BY <1>1 DEF ReconcileStep, ReconcileStart, ReconcileRow, ReconcileEnd, ReconcileReap,
                ReconcileThawLock, TryLock, ReconcileSkip, ReconcileUnfreeze
  <2>5. \A q \in Procs : SpawnStep(q) => SpawnInsert(q) \/ SpawnReady(q)
    BY <1>1 DEF SpawnStep, SpawnMkdir, SpawnSeed, SpawnSeedFails, SpawnInsertFails, SpawnCgroup,
                SpawnCgroupFails, SpawnRecordCgroup, SpawnSetup, SpawnGo, DriveRead, DriveFails, SpawnPidfile,
                SpawnStepFails
  <2>6. Next
    BY <1>1 DEF vars
  <2> QED BY <2>1, <2>2, <2>3, <2>4, <2>5, <2>6 DEF Next, TaskStep
<1>3. CASE DropRow(p) \/ ReconcileDrop(p)
  BY <1>3 DEF DropRow, ReconcileDrop, RemoveSandbox, At
<1>4. CASE SpawnInsert(p) \/ SpawnReady(p)
  BY <1>4 DEF SpawnInsert, SpawnReady
<1> QED BY <1>2, <1>3, <1>4

\* The row of a Ready sandbox is dropped only when its guest is gone, whether
\* or not its cgroup can be killed: the pidfile names the guest, and
\* destroy_inner stops when the kill fails.  A guest that never got a pidfile
\* outlives its row only outside a cgroup, or in one that cgroup::destroy left
\* standing: its path is recorded until a teardown has been there.
THEOREM DropsOnlyStopped ==
    ASSUME "lock" \notin Faults
    PROVE  Spec => DropOnlyStopped
<1>1. ASSUME Typed, Inv, [Next]_vars, NEW i \in Ids, HasRow(i), row'[i] = "dropped", Running(i)
      PROVE  row[i] = "creating" /\ (CgroupExists(i) => i \in faults.spared)
  <2>1. disk[i] \subseteq {"dir", "op.lock"}
    BY <1>1, DropStep DEF Inv, Gone
  <2>2. CgroupExists(i) => i \in faults.spared
    BY <1>1, <2>1 DEF Inv, Covered, Loose
  <2>3. row[i] # "ready"
    BY <1>1, <2>1 DEF Inv, Recorded, Running
  <2> QED BY <1>1, <2>2, <2>3 DEF HasRow
<1>2. Typed /\ Inv /\ [Next]_vars =>
        [\A i \in Ids : HasRow(i) /\ row'[i] = "dropped" /\ Running(i)
           => row[i] = "creating" /\ (CgroupExists(i) => i \in faults.spared)]_vars
  BY <1>1
<1> QED BY <1>2, Invariance, PTL DEF Spec, DropOnlyStopped
=============================================================================

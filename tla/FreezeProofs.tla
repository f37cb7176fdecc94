---------------------------- MODULE FreezeProofs ----------------------------
(***************************************************************************)
(* A snapshot copies a sandbox that nobody thaws under it.  Like the other *)
(* consequences of the op-lock, this assumes that op.lock can be opened.   *)
(***************************************************************************)
EXTENDS NsBackendProofs

\* Nothing runs in the sandbox and nothing will, unless its cgroup outlived a
\* teardown.
Quiet(i) ==
    \/ ~Running(i) /\ setup[i] \notin {"going", "forked"}
    \/ i \in faults.spared

\* Task p copies a layer whose cgroup it froze.
Copying(p) == froze[p] /\ pc[p] \in {"sn_copy", "sn_copying"}

\* Only a snapshot past its freeze has frozen anything.
Flagged ==
    \A p \in Procs : froze[p] =>
        pc[p] \in {"sn_copy", "sn_copying", "sn_thaw", "sn_size", "sn_thaw_err", "sn_undo", "sn_unrow"}

\* A task whose op.lock is not the linked one has been overtaken by a teardown,
\* which unlinks the lock after it has killed what runs in the cgroup, or failed.
Overtaken ==
    \A p \in Procs : fd[p] # 0 /\ fd[p] # inode[sb[p]] /\ CgroupExists(sb[p]) => Quiet(sb[p])

StillFrozen == \A p \in Procs : Copying(p) => Suspended(sb[p]) \/ Quiet(sb[p])

Frost == Flagged /\ Overtaken /\ StillFrozen

\* How a step may change the cgroups and processes: nothing starts to run where
\* nothing ran, no cgroup appears, and none is thawed under a copy.
Calm ==
    /\ \A i \in Ids : Quiet(i) => Quiet(i)'
    /\ \A i \in Ids : CgroupExists(i)' => CgroupExists(i)
    /\ \A q \in Procs, i \in Ids :
         Copying(q) /\ sb[q] = i /\ Suspended(i) => Suspended(i)' \/ Quiet(i)'

-----------------------------------------------------------------------------
(* What most steps do *)

\* Kernel state that does not change is calm.
LEMMA UnchangedCalm ==
    ASSUME Sparing, UNCHANGED <<cgroup, setup, guest>>
    PROVE  Calm
BY DEF Calm, Quiet, Sparing, Running, CgroupExists, Suspended

\* A task that goes on with the op.lock it has.
LEMMA GotoFrost ==
    ASSUME NEW p \in Procs, NEW l \in Pcs, Typed, Inv, Sparing, Frost, Calm, Goto(p, l),
           UNCHANGED <<sb, fd, inode, froze>>,
           sb[p] \in Ids,
           l \in {"sn_copy", "sn_copying"} => pc[p] \in {"sn_copy", "sn_copying"} \/ ~froze[p],
           froze[p] => l \in {"sn_copy", "sn_copying", "sn_thaw", "sn_size", "sn_thaw_err",
                              "sn_undo", "sn_unrow"}
    PROVE  Frost'
<1> USE DEF Frost, Goto, Typed, TypeOK, TasksOK
<1>1. \A q \in Procs : (fd[q] # 0 => sb[q] \in Ids) /\ (Copying(q) => sb[q] \in Ids)
  BY DEF Inv, Control, Assigned, Copying
<1>2. Flagged'
  BY DEF Flagged
<1>3. Overtaken'
  BY <1>1 DEF Overtaken, Calm
<1>4. StillFrozen'
  BY <1>1 DEF StillFrozen, Calm, Copying, Suspended
<1> QED BY <1>2, <1>3, <1>4

\* A task that leaves its operation.
LEMMA LeaveFrost ==
    ASSUME NEW p \in Procs, NEW l \in {"off", "idle", "rc_next"}, Typed, Inv, Sparing, Frost, Calm,
           Leave(p, l), UNCHANGED inode
    PROVE  Frost'
<1> USE DEF Frost, Leave, Goto, Typed, TypeOK, TasksOK
<1>1. \A q \in Procs : (fd[q] # 0 => sb[q] \in Ids) /\ (Copying(q) => sb[q] \in Ids)
  BY DEF Inv, Control, Assigned, Copying
<1>2. Flagged'
  BY DEF Flagged
<1>3. Overtaken'
  BY <1>1 DEF Overtaken, Calm
<1>4. StillFrozen'
  BY <1>1 DEF StillFrozen, Calm, Copying, Suspended
<1> QED BY <1>2, <1>3, <1>4

\* A call that returns.
LEMMA ReturnFrost ==
    ASSUME NEW p \in Procs, Typed, Inv, Sparing, Frost, Calm, Return(p), UNCHANGED inode
    PROVE  Frost'
BY LeaveFrost DEF Return

\* A task that begins an operation, with no op.lock open.
LEMMA BeginFrost ==
    ASSUME NEW p \in Procs, NEW l \in Pcs, Typed, Inv, Sparing, Frost, Goto(p, l),
           pc[p] \in {"idle", "off", "rc_next"}, l \notin SnapPc,
           UNCHANGED <<cgroup, setup, guest, fd, inode, froze>>,
           \A q \in Procs \ {p} : sb'[q] = sb[q]
    PROVE  Frost'
<1> USE DEF Frost, Goto, Typed, TypeOK, TasksOK
<1>1. fd[p] = 0 /\ ~froze[p]
  BY DEF Inv, Control, Flagged
<1>2. Flagged'
  BY <1>1 DEF Flagged
<1>3. Overtaken'
  BY <1>1 DEF Overtaken, Quiet, Sparing, Running, CgroupExists
<1>4. StillFrozen'
  BY <1>1 DEF StillFrozen, Copying, Suspended, Quiet, Sparing, Running
<1> QED BY <1>2, <1>3, <1>4

\* A task that opens op.lock, or creates it where it was unlinked.
LEMMA OpenFrost ==
    ASSUME NEW p \in Procs, NEW l \in Pcs, Typed, Inv, Sparing, Frost, sb[p] \in Ids, fd[p] = 0,
           OpenLockFile(sb[p]), fd' = [fd EXCEPT ![p] = LockInode(sb[p])], Goto(p, l),
           l \notin SnapPc, pc[p] \notin SnapPc,
           UNCHANGED <<cgroup, setup, guest, sb, froze>>
    PROVE  Frost'
<1> USE DEF Frost, Goto, Typed, TypeOK, TasksOK, DiskOK
<1>1. /\ inode' = [inode EXCEPT ![sb[p]] = LockInode(sb[p])]
      /\ LockInode(sb[p]) = inode[sb[p]] \/ inode[sb[p]] = 0
  BY OpenInode DEF Inv, Locking
<1>2. Flagged'
  BY DEF Flagged, SnapPc
<1>3. Overtaken'
  BY <1>1 DEF Overtaken, Quiet, Sparing, Running, CgroupExists
<1>4. StillFrozen'
  BY DEF StillFrozen, Copying, Suspended, Quiet, Sparing, Running, SnapPc
<1> QED BY <1>2, <1>3, <1>4

\* A cgroup is thawed by a task that holds a lock: a copy of the same sandbox
\* holds another one, so one of the two has been overtaken.
LEMMA ThawCalm ==
    ASSUME NEW p \in Procs, Typed, Inv, Sparing, Frost, Held(p), sb[p] \in Ids, ~Copying(p),
           cgroup' \in {cgroup, [cgroup EXCEPT ![sb[p]] = "thawed"]},
           cgroup' # cgroup => CgroupExists(sb[p]),
           UNCHANGED <<setup, guest>>
    PROVE  Calm
<1> USE DEF Typed, TypeOK, TasksOK, KernelOK
<1>1. CASE cgroup' = cgroup
  BY <1>1, UnchangedCalm
<1>2. CASE cgroup' # cgroup
  <2>1. cgroup' = [cgroup EXCEPT ![sb[p]] = "thawed"] /\ CgroupExists(sb[p])
    BY <1>2
  <2>2. ASSUME NEW q \in Procs, Copying(q), sb[q] = sb[p]
        PROVE  Quiet(sb[q])
    <3>1. Held(q) /\ q # p
      BY <2>2 DEF Copying, Held, Inv, Control, SnapPc
    <3>2. fd[p] # fd[q] /\ fd[p] # 0 /\ fd[q] # 0
      BY <2>2, <3>1 DEF Inv, Locking, Held
    <3>3. fd[p] # inode[sb[p]] \/ fd[q] # inode[sb[q]]
      BY <2>2, <3>2
    <3> QED BY <2>1, <2>2, <3>2, <3>3 DEF Frost, Overtaken
  <2>3. \A q \in Procs : Copying(q) => sb[q] \in Ids
    BY DEF Copying, Assigned
  <2>4. \A i \in Ids : Quiet(i) => Quiet(i)'
    BY DEF Quiet, Sparing, Running
  <2> QED BY <2>1, <2>2, <2>3, <2>4 DEF Calm, CgroupExists, Suspended
<1> QED BY <1>1, <1>2

-----------------------------------------------------------------------------
(* The steps *)

\* Waiting for the op-lock, and destroy_inner: the lock is unlinked only after
\* the cgroup was killed.
LEMMA TeardownFrost ==
    ASSUME "lock" \notin Faults, NEW p \in Procs, Typed, Inv, Sparing, Frost, TeardownStep(p)
    PROVE  Frost'
<1> USE DEF At, registryVars, diskVars, kernelVars, locals
<1> USE DEF Pcs, SnapPc, SpawnPc, TeardownPc, ReconcilePc
<1>0. /\ pc[p] \in {"open", "lock", "kill", "cg", "rm", "row"} => sb[p] \in Ids /\ ~froze[p]
      /\ pc[p] = "open" => fd[p] = 0
  BY DEF Typed, Assigned, Frost, Flagged, Inv, Control
<1>1. CASE OpenLock(p)
  BY <1>0, <1>1, OpenFrost DEF OpenLock
<1>2. CASE LockEx(p)
  BY <1>0, <1>2, GotoFrost, UnchangedCalm DEF LockEx, Locked
<1>3. ~LockFails(p)
  BY DEF LockFails, Fault
<1>4. CASE KillGuest(p)
  <2>1. Calm
    BY <1>0, <1>4 DEF KillGuest, Calm, Quiet, Sparing, Running, CgroupExists, Suspended, Typed, TypeOK, KernelOK
  <2> QED BY <1>0, <1>4, <2>1, GotoFrost DEF KillGuest
<1>5. CASE KillGuestFails(p)
  BY <1>5, ReturnFrost, UnchangedCalm DEF KillGuestFails
<1>6. CASE DestroyCgroup(p)
  <2> DEFINE i == sb[p]
  <2>1. CASE ~CgroupRecorded(i)
    BY <1>0, <1>6, <2>1, GotoFrost, UnchangedCalm DEF DestroyCgroup
  <2>2. CASE CgroupRecorded(i)
    <3>1. /\ \A j \in Ids \ {i} : UNCHANGED <<cgroup[j], setup[j], guest[j]>>
          /\ CgroupExists(i) /\ Quiet(i)' /\ UNCHANGED sb
      BY <1>0, <1>6, <2>2 DEF DestroyCgroup, CgroupRecorded, CgroupExists, Quiet, Sparing, Running, Goto, Typed, TypeOK, KernelOK
    <3>2. Calm
      BY <1>0, <3>1 DEF Calm, Copying, Quiet, Sparing, Running, CgroupExists, Suspended, Typed, Assigned
    <3> QED BY <1>0, <1>6, <3>2, GotoFrost DEF DestroyCgroup
  <2> QED BY <2>1, <2>2
<1>6a. CASE DestroyCgroupFails(p)
  BY <1>0, <1>6a, GotoFrost, UnchangedCalm DEF DestroyCgroupFails
<1>7. CASE UnlinkEntry(p)
  <2> USE <1>0, <1>7 DEF UnlinkEntry, Frost, Typed, TypeOK, TasksOK, DiskOK
  <2>1. CgroupExists(sb[p]) => Quiet(sb[p])
    BY DEF Inv, Covered, Loose, Quiet
  <2>2. Flagged'
    BY DEF Flagged
  <2>3. Overtaken'
    BY <2>1 DEF Overtaken, Quiet, Sparing, Running, CgroupExists
  <2>4. StillFrozen'
    BY DEF StillFrozen, Copying, Suspended, Quiet, Sparing, Running
  <2> QED BY <2>2, <2>3, <2>4
<1>8. CASE RemoveDir(p)
  BY <1>0, <1>8, GotoFrost, UnchangedCalm DEF RemoveDir
<1>9. CASE RemoveDirFails(p)
  BY <1>9, ReturnFrost, UnchangedCalm DEF RemoveDirFails
<1>10. CASE DropRow(p)
  BY <1>10, ReturnFrost, UnchangedCalm DEF DropRow
<1>11. CASE DropRowFails(p)
  BY <1>11, ReturnFrost, UnchangedCalm DEF DropRowFails
<1> QED BY <1>1, <1>2, <1>3, <1>4, <1>5, <1>6, <1>6a, <1>7, <1>8, <1>9, <1>10, <1>11 DEF TeardownStep

\* spawn: whoever works on the sandbox waits for the lock, and it is linked.
LEMMA SpawnFrost ==
    ASSUME NEW p \in Procs, Typed, Inv, Sparing, Frost, SpawnStep(p)
    PROVE  Frost'
<1> USE DEF At, registryVars, diskVars, kernelVars, locals
<1> USE DEF Pcs, SnapPc, SpawnPc, TeardownPc, ReconcilePc
<1>0. pc[p] \in SpawnPc => /\ sb[p] \in Ids /\ ~froze[p]
                           /\ \A q \in Procs : Copying(q) => sb[q] # sb[p]
                           /\ \A q \in Procs : sb[q] = sb[p] => fd[q] \in {0, inode[sb[p]]}
  BY BuilderFacts DEF AtWork, Built, Copying, Frost, Flagged
<1>1. CASE SpawnMkdir(p)
  BY <1>1, BeginFrost DEF SpawnMkdir, Typed, TypeOK, TasksOK
<1>2. CASE SpawnSeed(p)
  BY <1>0, <1>2, GotoFrost, UnchangedCalm DEF SpawnSeed
<1>3. CASE SpawnSeedFails(p)
  BY <1>3, ReturnFrost, UnchangedCalm DEF SpawnSeedFails
<1>4. CASE SpawnInsert(p)
  BY <1>0, <1>4, GotoFrost, UnchangedCalm DEF SpawnInsert
<1>5. CASE SpawnInsertFails(p)
  BY <1>5, ReturnFrost, UnchangedCalm DEF SpawnInsertFails
<1>6. CASE SpawnCgroup(p) \/ SpawnCgroupFails(p) \/ SpawnGo(p)
  <2> USE <1>0, <1>6 DEF SpawnCgroup, SpawnCgroupFails, SpawnGo, Frost, Typed, TypeOK, TasksOK, KernelOK, Goto
  <2>1. /\ \A j \in Ids \ {sb[p]} : UNCHANGED <<cgroup[j], setup[j], guest[j]>>
        /\ UNCHANGED <<sb, fd, inode, froze>> /\ pc[p] \in SpawnPc /\ pc'[p] \notin SnapPc
        /\ \A q \in Procs \ {p} : pc'[q] = pc[q]
    OBVIOUS
  <2>2. Flagged'
    BY <2>1 DEF Flagged
  <2>3. Overtaken'
    BY <2>1 DEF Overtaken, Quiet, Sparing, Running, CgroupExists, Inv, Control, Assigned
  <2>4. StillFrozen'
    <3>1. ASSUME NEW q \in Procs, Copying(q)'
          PROVE  Copying(q) /\ sb[q] \in Ids \ {sb[p]}
      BY <2>1, <3>1 DEF Copying, Assigned
    <3>2. \A q \in Procs : Copying(q)' =>
            UNCHANGED <<sb[q], cgroup[sb[q]], setup[sb[q]], guest[sb[q]]>>
      BY <2>1, <3>1
    <3> QED BY <3>1, <3>2 DEF StillFrozen, Suspended, Quiet, Sparing, Running
  <2> QED BY <2>2, <2>3, <2>4
<1>7. CASE SpawnRecordCgroup(p)
  BY <1>0, <1>7, GotoFrost, UnchangedCalm DEF SpawnRecordCgroup
<1>8. CASE SpawnSetup(p)
  <2>1. Calm
    BY <1>0, <1>8 DEF SpawnSetup, Calm, Quiet, Sparing, Running, CgroupExists, Suspended, Typed, TypeOK, KernelOK
  <2> QED BY <1>0, <1>8, <2>1, GotoFrost DEF SpawnSetup
<1>9. CASE DriveRead(p)
  <2>1. Calm
    BY <1>0, <1>9 DEF DriveRead, AbortSetup, Calm, Quiet, Sparing, Running, CgroupExists, Suspended, Typed, TypeOK, KernelOK
  <2> QED BY <1>0, <1>9, <2>1, GotoFrost DEF DriveRead, AbortSetup
<1>10. CASE DriveFails(p)
  <2>1. Calm
    BY <1>0, <1>10 DEF DriveFails, AbortSetup, Calm, Quiet, Sparing, Running, CgroupExists, Suspended, Typed, TypeOK, KernelOK
  <2> QED BY <1>0, <1>10, <2>1, GotoFrost DEF DriveFails, AbortSetup
<1>11. CASE SpawnPidfile(p)
  BY <1>0, <1>11, GotoFrost, UnchangedCalm DEF SpawnPidfile
<1>12. CASE SpawnReady(p)
  BY <1>12, ReturnFrost, UnchangedCalm DEF SpawnReady
<1>13. CASE SpawnStepFails(p)
  BY <1>0, <1>13, GotoFrost, UnchangedCalm DEF SpawnStepFails
<1> QED BY <1>1, <1>2, <1>3, <1>4, <1>5, <1>6, <1>7, <1>8, <1>9, <1>10, <1>11, <1>12, <1>13 DEF SpawnStep

\* Setup and guest processes, and a freeze that takes effect.
LEMMA SandboxFrost ==
    ASSUME NEW i \in Ids, Typed, Inv, Sparing, Frost, SandboxStep(i)
    PROVE  Frost'
<1> USE DEF registryVars, diskVars, kernelVars, locals
<1> USE DEF SandboxStep, SetupFails, SetupFork, SetupReportPid, GuestReady, GuestBootFails,
            GuestDies, FreezeTakes, Typed, TypeOK, TasksOK, KernelOK
<1>1. UNCHANGED <<pc, sb, fd, inode, froze>>
  OBVIOUS
<1>2. /\ \A j \in Ids : Quiet(j) => Quiet(j)'
      /\ \A j \in Ids : CgroupExists(j)' <=> CgroupExists(j)
      /\ \A j \in Ids : Suspended(j)' <=> Suspended(j)
  BY DEF Quiet, Sparing, Running, CgroupExists, Suspended
<1>3. Flagged'
  BY <1>1 DEF Frost, Flagged
<1>4. Overtaken'
  BY <1>1, <1>2 DEF Frost, Overtaken, Inv, Control, Assigned
<1>5. StillFrozen'
  BY <1>1, <1>2 DEF Frost, StillFrozen, Copying, Assigned
<1> QED BY <1>3, <1>4, <1>5 DEF Frost

\* The steps of snapshot.
LEMMA SnapshotFrost ==
    ASSUME NEW p \in Procs, Typed, Inv, Sparing, Frost, SnapshotStep(p)
    PROVE  Frost'
<1> USE DEF At, registryVars, diskVars, kernelVars, locals
<1> USE DEF Pcs, SnapPc, SpawnPc, TeardownPc, ReconcilePc
<1>0. /\ pc[p] \in SnapPc => sb[p] \in Ids /\ Held(p)
      /\ pc[p] \in {"sn_check", "sn_insert", "sn_freeze"} => ~froze[p]
  BY DEF Typed, Assigned, Frost, Flagged, Inv, Control, Held
<1>1. CASE SnapshotStart(p)
  BY <1>1, BeginFrost DEF SnapshotStart, Typed, TypeOK, TasksOK
<1>2. CASE SnapshotCreateDir(p)
  BY <1>0, <1>2, GotoFrost, UnchangedCalm DEF SnapshotCreateDir
<1>3. CASE SnapshotRefused(p)
  BY <1>3, ReturnFrost, UnchangedCalm DEF SnapshotRefused
<1>4. CASE SnapshotInsert(p)
  BY <1>0, <1>4, GotoFrost, UnchangedCalm DEF SnapshotInsert
<1>5. CASE SnapshotInsertFails(p)
  BY <1>5, ReturnFrost, UnchangedCalm DEF SnapshotInsertFails
<1>6. CASE SnapshotFreeze(p)
  <2>1. CASE UNCHANGED <<cgroup, froze>>
    BY <1>0, <1>6, <2>1, GotoFrost, UnchangedCalm DEF SnapshotFreeze
  <2>2. CASE CgroupRecorded(sb[p]) /\ FreezeCgroup(sb[p]) /\ froze' = [froze EXCEPT ![p] = TRUE]
    <3> USE <1>0, <1>6, <2>2 DEF SnapshotFreeze, FreezeCgroup, CgroupRecorded, Frost, Goto,
                                 Typed, TypeOK, TasksOK, KernelOK
    <3>1. /\ \A i \in Ids : Quiet(i) => Quiet(i)'
          /\ \A i \in Ids : CgroupExists(i)' <=> CgroupExists(i)
          /\ \A i \in Ids : Suspended(i) => Suspended(i)'
          /\ Suspended(sb[p])'
      BY DEF Quiet, Sparing, Running, CgroupExists, Suspended
    <3>2. Flagged'
      BY DEF Flagged
    <3>3. Overtaken'
      BY <3>1 DEF Overtaken, Inv, Control, Assigned
    <3>4. StillFrozen'
      BY <3>1 DEF StillFrozen, Copying, Assigned
    <3> QED BY <3>2, <3>3, <3>4
  <2> QED BY <1>6, <2>1, <2>2 DEF SnapshotFreeze
<1>7. CASE SnapshotCopyBegin(p)
  BY <1>0, <1>7, GotoFrost, UnchangedCalm DEF SnapshotCopyBegin
<1>8. CASE SnapshotCopyEnd(p)
  BY <1>0, <1>8, GotoFrost, UnchangedCalm DEF SnapshotCopyEnd, Thaw
<1>9. CASE SnapshotCopyFails(p)
  BY <1>0, <1>9, GotoFrost, UnchangedCalm DEF SnapshotCopyFails, ThawFailed
<1>10. CASE SnapshotThaw(p)
  <2>1. Calm
    BY <1>0, <1>10, ThawCalm DEF SnapshotThaw, UnfreezeCgroup, Suspended, CgroupExists, Copying
  <2> QED BY <1>0, <1>10, <2>1, GotoFrost DEF SnapshotThaw
<1>11. CASE SnapshotDone(p)
  BY <1>11, ReturnFrost, UnchangedCalm DEF SnapshotDone
<1>12. CASE SnapshotUndoDir(p)
  BY <1>0, <1>12, GotoFrost, UnchangedCalm DEF SnapshotUndoDir
<1>13. CASE SnapshotUndoRow(p)
  BY <1>13, ReturnFrost, UnchangedCalm DEF SnapshotUndoRow
<1> QED BY <1>1, <1>2, <1>3, <1>4, <1>5, <1>6, <1>7, <1>8, <1>9, <1>10, <1>11, <1>12, <1>13 DEF SnapshotStep

\* The steps of reconcile; its thaw happens under a lock.
LEMMA ReconcileFrost ==
    ASSUME NEW p \in Procs, Typed, Inv, Sparing, Frost, ReconcileStep(p)
    PROVE  Frost'
<1> USE DEF At, registryVars, diskVars, kernelVars
<1> USE DEF Pcs, SnapPc, SpawnPc, TeardownPc, ReconcilePc
<1>0. /\ pc[p] \in {"rc_try", "rc_thaw", "rc_unfreeze"} => sb[p] \in Ids
      /\ pc[p] \in {"rc_try", "rc_thaw"} => fd[p] = 0
      /\ pc[p] = "rc_unfreeze" => Held(p) /\ ~Copying(p)
  BY DEF Typed, Assigned, Inv, Control, Held, Copying
<1>1. CASE ReconcileStart(p)
  BY <1>1, LeaveFrost, UnchangedCalm DEF ReconcileStart
<1>2. CASE ReconcileRow(p)
  <2>1. PICK l \in ReconcilePc : Goto(p, l)
    BY <1>2 DEF ReconcileRow
  <2> QED BY <1>2, <2>1, BeginFrost DEF ReconcileRow, Typed, TypeOK, TasksOK
<1>3. CASE ReconcileEnd(p)
  BY <1>3, LeaveFrost, UnchangedCalm DEF ReconcileEnd
<1>4. CASE ReconcileDrop(p)
  BY <1>4, ReturnFrost, UnchangedCalm DEF ReconcileDrop
<1>5. CASE ReconcileReap(p)
  BY <1>0, <1>5, OpenFrost DEF ReconcileReap, TryLock
<1>6. CASE ReconcileThawLock(p)
  BY <1>0, <1>6, OpenFrost DEF ReconcileThawLock, TryLock
<1>7. CASE ReconcileSkip(p)
  BY <1>7, ReturnFrost, UnchangedCalm DEF ReconcileSkip
<1>8. CASE ReconcileUnfreeze(p)
  <2>1. Calm
    BY <1>0, <1>8, ThawCalm DEF ReconcileUnfreeze, ThawFrozen, CgroupExists
  <2> QED BY <1>8, <2>1, ReturnFrost DEF ReconcileUnfreeze
<1> QED BY <1>1, <1>2, <1>3, <1>4, <1>5, <1>6, <1>7, <1>8 DEF ReconcileStep

\* A destroy that starts, a task that dies or is cancelled, a command that ends.
LEMMA ControlFrost ==
    ASSUME NEW p \in Procs, Typed, Inv, Sparing, Frost, DestroyStart(p) \/ Crash(p) \/ Exit(p)
    PROVE  Frost'
<1> USE DEF At, registryVars, diskVars, kernelVars, locals
<1>1. CASE DestroyStart(p)
  BY <1>1, BeginFrost DEF DestroyStart, Pcs, SnapPc, Typed, TypeOK, TasksOK
<1>2. CASE Crash(p)
  BY <1>2, LeaveFrost, UnchangedCalm DEF Crash
<1>3. CASE Exit(p)
  BY <1>3, BeginFrost DEF Exit, Pcs, SnapPc, Typed, TypeOK, TasksOK
<1> QED BY <1>1, <1>2, <1>3

\* While a snapshot that froze its sandbox copies the layer, nobody thaws it:
\* not another snapshot, not reconcile's thaw_if_orphaned, although a teardown
\* may unlink op.lock under the copy and let others lock a new one.  Then the
\* cgroup was killed before, and nothing is left to be thawed, except where
\* cgroup::destroy failed.
THEOREM FreezesHold ==
    ASSUME "lock" \notin Faults
    PROVE  Spec => []FreezeHolds
<1>1. Init => Frost
  BY DEF Init, Frost, Flagged, Overtaken, StillFrozen, Copying
<1>2. Typed /\ Inv /\ Frost /\ [Next]_vars => Frost'
  <2> SUFFICES ASSUME Typed, Inv, Frost, [Next]_vars PROVE Frost'
    OBVIOUS
  <2>0. Sparing
    BY NextSpares
  <2>1. CASE UNCHANGED vars
    BY <2>1 DEF vars, registryVars, diskVars, kernelVars, locals, Frost, Flagged, Overtaken,
                StillFrozen, Copying, Quiet, Running, CgroupExists, Suspended
  <2>2. CASE Next
    BY <2>0, <2>2, TeardownFrost, SpawnFrost, SandboxFrost, SnapshotFrost, ReconcileFrost,
       ControlFrost DEF Next, TaskStep
  <2> QED BY <2>1, <2>2
<1>3. Frost => FreezeHolds
  BY DEF Frost, StillFrozen, Copying, FreezeHolds, Quiet
<1> QED BY <1>1, <1>2, <1>3, Invariance, PTL DEF Spec
=============================================================================

--------------------------- MODULE NsBackendTypes ---------------------------
(***************************************************************************)
(* Type correctness of the backend, for any number of host tasks,          *)
(* sandboxes and snapshots, any mix of operations and any failures.        *)
(***************************************************************************)
EXTENDS NsBackend, TLAPS

\* A task that is inside an operation has a sandbox.
Assigned ==
    \A p \in Procs : pc[p] \notin {"off", "idle", "rc_next"} => sb[p] \in Ids

Typed == TypeOK /\ Assigned

\* open(op.lock, O_CREAT) yields an inode number, and a new file one that no
\* task has open.
LEMMA LockInodeType ==
    ASSUME NEW i \in Ids, TypeOK, "op.lock" \in disk[i] \/ NewInodes(i) # {}
    PROVE  /\ LockInode(i) \in 0..MaxInode
           /\ "op.lock" \notin disk[i] => LockInode(i) \in NewInodes(i) /\ LockInode(i) # 0
<1>1. CASE "op.lock" \in disk[i]
  BY <1>1 DEF LockInode, TypeOK, DiskOK
<1>2. CASE "op.lock" \notin disk[i]
  <2>1. LockInode(i) \in NewInodes(i)
    BY <1>2 DEF LockInode
  <2>2. LockInode(i) \in 1..MaxInode
    BY <2>1 DEF NewInodes
  <2> QED BY <1>2, <2>1, <2>2, InodeAssumption
<1> QED BY <1>1, <1>2

\* What a task that leaves its operation looks like.
LEMMA LeaveTypes ==
    ASSUME NEW p \in Procs, NEW l \in {"off", "idle", "rc_next"}, Leave(p, l),
           TasksOK, Assigned, todo' \in [Procs -> SUBSET Ids], faults' \in FaultLog
    PROVE  TasksOK' /\ Assigned'
<1> USE DEF Leave, Goto, TasksOK
<1>1. pc' \in [Procs -> Pcs]
  BY DEF Pcs, ReconcilePc
<1>2. op' \in [Procs -> OpKinds \cup {"none", "reconcile"}] /\ sb' \in [Procs -> Ids \cup {None}]
  OBVIOUS
<1>3. fd' \in [Procs -> 0..MaxInode] /\ sn' \in [Procs -> Snaps \cup {None}]
  BY InodeAssumption
<1>4. froze' \in [Procs -> BOOLEAN]
  OBVIOUS
<1>5. Assigned'
  BY DEF Assigned
<1> QED BY <1>1, <1>2, <1>3, <1>4, <1>5

\* The count of failures stays within its bound.
LEMMA FaultTypes ==
    ASSUME NEW k, faults \in FaultLog, Fault(k)
    PROVE  faults' \in FaultLog
BY FaultsAssumption DEF Fault, FaultLog

\* What a task that moves on inside its operation looks like.
LEMMA GotoTypes ==
    ASSUME NEW p \in Procs, NEW l \in Pcs, Goto(p, l), sb[p] \in Ids,
           TasksOK, Assigned, UNCHANGED locals, faults' \in FaultLog
    PROVE  TasksOK' /\ Assigned'
BY DEF Goto, TasksOK, Assigned, locals

\* What a call that returns looks like.
LEMMA ReturnTypes ==
    ASSUME NEW p \in Procs, Return(p), TasksOK, Assigned, faults' \in FaultLog
    PROVE  TasksOK' /\ Assigned'
BY LeaveTypes DEF Return, TasksOK

\* The steps of destroy_inner and of waiting for the lock.
LEMMA TeardownTypes ==
    ASSUME NEW p \in Procs, Typed, TeardownStep(p)
    PROVE  Typed'
<1> USE DEF Typed, TypeOK, At, registryVars, diskVars, kernelVars, locals
<1> USE DEF Pcs, ReconcilePc, SpawnPc, SnapPc, TeardownPc
<1>0. faults \in FaultLog /\ (pc[p] \notin {"off", "idle", "rc_next"} => sb[p] \in Ids)
  BY DEF TasksOK, Assigned
<1>1. CASE OpenLock(p)
  BY <1>0, <1>1, LockInodeType DEF OpenLock, OpenLockFile, Goto, TasksOK, Assigned, OpKinds, Entries, RegistryOK, DiskOK, KernelOK
<1>2. CASE LockEx(p)
  BY <1>0, <1>2, GotoTypes, FaultTypes DEF LockEx, Locked, RegistryOK, DiskOK, KernelOK
<1>3. CASE LockFails(p)
  BY <1>0, <1>3, ReturnTypes, FaultTypes, GotoTypes DEF LockFails, Entries, RegistryOK, DiskOK, KernelOK
<1>4. CASE KillGuest(p)
  BY <1>0, <1>4, GotoTypes, FaultTypes DEF KillGuest, RegistryOK, DiskOK, KernelOK
<1>5. CASE KillGuestFails(p)
  BY <1>0, <1>5, ReturnTypes, FaultTypes DEF KillGuestFails, RegistryOK, DiskOK, KernelOK
<1>6. CASE DestroyCgroup(p)
  <2>1. TasksOK' /\ Assigned'
    BY <1>0, <1>6, GotoTypes DEF DestroyCgroup
  <2>2. KernelOK'
    BY <1>0, <1>6 DEF DestroyCgroup, KernelOK
  <2> QED BY <1>6, <2>1, <2>2 DEF DestroyCgroup, RegistryOK, DiskOK
<1>7. CASE UnlinkEntry(p)
  <2>1. disk' \in [Ids -> SUBSET Entries] /\ inode' \in [Ids -> 0..MaxInode]
    BY <1>0, <1>7, InodeAssumption DEF UnlinkEntry, DiskOK
  <2>2. snapData' \in [Snaps -> {"none", "dir", "partial", "short", "whole"}]
    BY <1>7 DEF UnlinkEntry, DiskOK
  <2> QED BY <1>7, <2>1, <2>2 DEF UnlinkEntry, RegistryOK, DiskOK, KernelOK, TasksOK, Assigned
<1>8. CASE RemoveDir(p)
  BY <1>0, <1>8, GotoTypes, FaultTypes DEF RemoveDir, Entries, RegistryOK, DiskOK, KernelOK
<1>9. CASE RemoveDirFails(p)
  BY <1>0, <1>9, ReturnTypes, FaultTypes DEF RemoveDirFails, RegistryOK, DiskOK, KernelOK
<1>10. CASE DropRow(p)
  BY <1>0, <1>10, ReturnTypes, FaultTypes DEF DropRow, RemoveSandbox, RegistryOK, DiskOK, KernelOK
<1>11. CASE DropRowFails(p)
  BY <1>0, <1>11, ReturnTypes, FaultTypes DEF DropRowFails, RegistryOK, DiskOK, KernelOK
<1>12. CASE DestroyCgroupFails(p)
  <2>1. faults' \in FaultLog
    BY <1>0, <1>12, FaultsAssumption DEF DestroyCgroupFails, FaultLog
  <2> QED BY <1>0, <1>12, <2>1, GotoTypes DEF DestroyCgroupFails, RegistryOK, DiskOK, KernelOK
<1> QED BY <1>1, <1>2, <1>3, <1>4, <1>5, <1>6, <1>7, <1>8, <1>9, <1>10, <1>11, <1>12 DEF TeardownStep

\* The steps of spawn and do_spawn.
LEMMA SpawnTypes ==
    ASSUME NEW p \in Procs, Typed, SpawnStep(p)
    PROVE  Typed'
<1> USE DEF Typed, TypeOK, At, registryVars, diskVars, kernelVars, locals
<1> USE DEF Pcs, ReconcilePc, SpawnPc, SnapPc, TeardownPc
<1>0. faults \in FaultLog /\ (pc[p] \notin {"off", "idle", "rc_next"} => sb[p] \in Ids)
  BY DEF TasksOK, Assigned
<1>1. CASE SpawnMkdir(p)
  BY <1>0, <1>1 DEF SpawnMkdir, Goto, TasksOK, Assigned, OpKinds, Entries, RegistryOK, DiskOK, KernelOK
<1>2. CASE SpawnSeed(p)
  BY <1>0, <1>2, GotoTypes, FaultTypes DEF SpawnSeed, Entries, RegistryOK, DiskOK, KernelOK
<1>3. CASE SpawnSeedFails(p)
  BY <1>0, <1>3, ReturnTypes, FaultTypes DEF SpawnSeedFails, RegistryOK, DiskOK, KernelOK
<1>4. CASE SpawnInsert(p)
  BY <1>0, <1>4, GotoTypes, FaultTypes DEF SpawnInsert, RegistryOK, DiskOK, KernelOK
<1>5. CASE SpawnInsertFails(p)
  BY <1>0, <1>5, ReturnTypes, FaultTypes DEF SpawnInsertFails, RegistryOK, DiskOK, KernelOK
<1>6. CASE SpawnCgroup(p)
  BY <1>0, <1>6, GotoTypes, FaultTypes DEF SpawnCgroup, RegistryOK, DiskOK, KernelOK
<1>7. CASE SpawnRecordCgroup(p)
  BY <1>0, <1>7, GotoTypes, FaultTypes DEF SpawnRecordCgroup, Entries, RegistryOK, DiskOK, KernelOK
<1>8. CASE SpawnSetup(p)
  BY <1>0, <1>8, GotoTypes, FaultTypes DEF SpawnSetup, RegistryOK, DiskOK, KernelOK
<1>9. CASE SpawnGo(p)
  BY <1>0, <1>9, GotoTypes, FaultTypes DEF SpawnGo, TasksOK, Assigned, RegistryOK, DiskOK, KernelOK
<1>10. CASE DriveRead(p)
  <2>1. out' \in [Ids -> Seq(Lines)]
    <3>1. out[sb[p]] \in Seq(Lines) /\ out[sb[p]] # << >>
      BY <1>0, <1>10 DEF DriveRead, KernelOK
    <3>2. Tail(out[sb[p]]) \in Seq(Lines)
      BY <3>1
    <3> QED BY <1>10, <3>2 DEF DriveRead, KernelOK
  <2>2. setup' \in [Ids -> {"none", "waiting", "going", "forked", "gone"}]
    BY <1>10 DEF DriveRead, AbortSetup, KernelOK
  <2>3. TasksOK' /\ Assigned'
    BY <1>0, <1>10, GotoTypes DEF DriveRead, AbortSetup
  <2> QED BY <1>10, <2>1, <2>2, <2>3 DEF DriveRead, RegistryOK, DiskOK, KernelOK
<1>11. CASE DriveFails(p)
  BY <1>0, <1>11, GotoTypes, FaultTypes DEF DriveFails, AbortSetup, RegistryOK, DiskOK, KernelOK
<1>12. CASE SpawnPidfile(p)
  BY <1>0, <1>12, GotoTypes, FaultTypes DEF SpawnPidfile, Entries, RegistryOK, DiskOK, KernelOK
<1>13. CASE SpawnReady(p)
  BY <1>0, <1>13, ReturnTypes, FaultTypes DEF SpawnReady, RegistryOK, DiskOK, KernelOK
<1>14. CASE SpawnStepFails(p)
  BY <1>0, <1>14, GotoTypes, FaultTypes DEF SpawnStepFails, RegistryOK, DiskOK, KernelOK
<1>15. CASE SpawnCgroupFails(p)
  BY <1>0, <1>15, GotoTypes, FaultTypes DEF SpawnCgroupFails, RegistryOK, DiskOK, KernelOK
<1> QED BY <1>1, <1>2, <1>3, <1>4, <1>5, <1>6, <1>7, <1>8, <1>9, <1>10, <1>11, <1>12, <1>13, <1>14,
           <1>15 DEF SpawnStep

\* The steps of setup and guest.
LEMMA SandboxTypes ==
    ASSUME NEW i \in Ids, Typed, SandboxStep(i)
    PROVE  Typed'
<1> USE DEF Typed, TypeOK, At, registryVars, diskVars, kernelVars, locals
<1>0. faults \in FaultLog
  BY DEF TasksOK
<1>1. CASE SetupFails(i)
  <2>1. DiskOK'
    BY <1>1 DEF SetupFails, Entries, DiskOK
  <2>2. KernelOK'
    BY <1>1 DEF SetupFails, Say, Lines, KernelOK
  <2>3. faults' \in FaultLog
    BY <1>0, <1>1, FaultTypes DEF SetupFails
  <2> QED BY <1>1, <2>1, <2>2, <2>3 DEF SetupFails, TasksOK, Assigned, RegistryOK
<1>2. CASE SetupFork(i)
  BY <1>0, <1>2, FaultTypes DEF SetupFork, TasksOK, Assigned, RegistryOK, DiskOK, KernelOK
<1>3. CASE SetupReportPid(i)
  BY <1>0, <1>3, FaultTypes DEF SetupReportPid, Say, TasksOK, Assigned, Lines, RegistryOK, DiskOK, KernelOK
<1>4. CASE GuestReady(i)
  BY <1>0, <1>4, FaultTypes DEF GuestReady, Say, TasksOK, Assigned, Lines, RegistryOK, DiskOK, KernelOK
<1>5. CASE GuestBootFails(i)
  BY <1>0, <1>5, FaultTypes DEF GuestBootFails, Say, TasksOK, Assigned, Lines, RegistryOK, DiskOK, KernelOK
<1>6. CASE GuestDies(i)
  BY <1>0, <1>6, FaultTypes DEF GuestDies, TasksOK, Assigned, RegistryOK, DiskOK, KernelOK
<1>7. CASE FreezeTakes(i)
  BY <1>7 DEF FreezeTakes, TasksOK, Assigned, RegistryOK, DiskOK, KernelOK
<1> QED BY <1>1, <1>2, <1>3, <1>4, <1>5, <1>6, <1>7 DEF SandboxStep

\* The steps of snapshot.
LEMMA SnapshotTypes ==
    ASSUME NEW p \in Procs, Typed, SnapshotStep(p)
    PROVE  Typed'
<1> USE DEF Typed, TypeOK, At, registryVars, diskVars, kernelVars, locals
<1> USE DEF Pcs, ReconcilePc, SpawnPc, SnapPc, TeardownPc
<1>0. faults \in FaultLog /\ (pc[p] \notin {"off", "idle", "rc_next"} => sb[p] \in Ids)
  BY DEF TasksOK, Assigned
<1>1. CASE SnapshotStart(p)
  BY <1>0, <1>1 DEF SnapshotStart, Goto, TasksOK, Assigned, OpKinds, RegistryOK, DiskOK, KernelOK
<1>2. CASE SnapshotCreateDir(p)
  BY <1>0, <1>2, GotoTypes, FaultTypes DEF SnapshotCreateDir, Entries, RegistryOK, DiskOK, KernelOK
<1>3. CASE SnapshotRefused(p)
  BY <1>0, <1>3, ReturnTypes, FaultTypes DEF SnapshotRefused, RegistryOK, DiskOK, KernelOK
<1>4. CASE SnapshotInsert(p)
  BY <1>0, <1>4, GotoTypes, FaultTypes DEF SnapshotInsert, RegistryOK, DiskOK, KernelOK
<1>5. CASE SnapshotInsertFails(p)
  BY <1>0, <1>5, ReturnTypes, FaultTypes DEF SnapshotInsertFails, Entries, RegistryOK, DiskOK, KernelOK
<1>6. CASE SnapshotFreeze(p)
  <2>1. faults' \in FaultLog
    BY <1>0, <1>6, FaultTypes DEF SnapshotFreeze
  <2>2. KernelOK'
    BY <1>0, <1>6 DEF SnapshotFreeze, FreezeCgroup, KernelOK
  <2> QED BY <1>0, <1>6, <2>1, <2>2 DEF SnapshotFreeze, Goto, TasksOK, Assigned, OpKinds, RegistryOK, DiskOK
<1>7. CASE SnapshotCopyBegin(p)
  BY <1>0, <1>7, GotoTypes, FaultTypes DEF SnapshotCopyBegin, Entries, RegistryOK, DiskOK, KernelOK
<1>8. CASE SnapshotCopyEnd(p)
  BY <1>0, <1>8, GotoTypes, FaultTypes DEF SnapshotCopyEnd, Thaw, Entries, RegistryOK, DiskOK, KernelOK
<1>9. CASE SnapshotCopyFails(p)
  BY <1>0, <1>9, GotoTypes, FaultTypes DEF SnapshotCopyFails, ThawFailed, RegistryOK, DiskOK, KernelOK
<1>10. CASE SnapshotThaw(p)
  <2>1. faults' \in FaultLog
    BY <1>0, <1>10, FaultTypes DEF SnapshotThaw
  <2>2. KernelOK'
    BY <1>0, <1>10 DEF SnapshotThaw, UnfreezeCgroup, Suspended, KernelOK
  <2> QED BY <1>0, <1>10, <2>1, <2>2, GotoTypes DEF SnapshotThaw, RegistryOK, DiskOK
<1>11. CASE SnapshotDone(p)
  BY <1>0, <1>11, ReturnTypes, FaultTypes DEF SnapshotDone, RegistryOK, DiskOK, KernelOK
<1>12. CASE SnapshotUndoDir(p)
  BY <1>0, <1>12, GotoTypes, FaultTypes DEF SnapshotUndoDir, Entries, RegistryOK, DiskOK, KernelOK
<1>13. CASE SnapshotUndoRow(p)
  BY <1>0, <1>13, ReturnTypes, FaultTypes DEF SnapshotUndoRow, RegistryOK, DiskOK, KernelOK
<1> QED BY <1>1, <1>2, <1>3, <1>4, <1>5, <1>6, <1>7, <1>8, <1>9, <1>10, <1>11, <1>12, <1>13 DEF SnapshotStep

\* The steps of reconcile.
LEMMA ReconcileTypes ==
    ASSUME NEW p \in Procs, Typed, ReconcileStep(p)
    PROVE  Typed'
<1> USE DEF Typed, TypeOK, At, registryVars, diskVars, kernelVars, locals
<1> USE DEF Pcs, ReconcilePc, SpawnPc, SnapPc, TeardownPc
<1>0. faults \in FaultLog /\ (pc[p] \notin {"off", "idle", "rc_next"} => sb[p] \in Ids)
  BY DEF TasksOK, Assigned
<1>1. CASE ReconcileStart(p)
  BY <1>0, <1>1, LeaveTypes DEF ReconcileStart, TasksOK, RegistryOK, DiskOK, KernelOK
<1>2. CASE ReconcileRow(p)
  BY <1>0, <1>2 DEF ReconcileRow, Goto, TasksOK, Assigned, OpKinds, RegistryOK, DiskOK, KernelOK
<1>3. CASE ReconcileEnd(p)
  BY <1>0, <1>3, LeaveTypes DEF ReconcileEnd, TasksOK, RegistryOK, DiskOK, KernelOK
<1>4. CASE ReconcileDrop(p)
  BY <1>0, <1>4, ReturnTypes, FaultTypes DEF ReconcileDrop, RemoveSandbox, RegistryOK, DiskOK, KernelOK
<1>5. CASE ReconcileReap(p)
  BY <1>0, <1>5, LockInodeType DEF ReconcileReap, TryLock, OpenLockFile, Goto, TasksOK, Assigned, OpKinds, Entries, RegistryOK, DiskOK, KernelOK
<1>6. CASE ReconcileThawLock(p)
  BY <1>0, <1>6, LockInodeType DEF ReconcileThawLock, TryLock, OpenLockFile, Goto, TasksOK, Assigned, OpKinds, Entries, RegistryOK, DiskOK, KernelOK
<1>7. CASE ReconcileSkip(p)
  BY <1>0, <1>7, ReturnTypes, FaultTypes DEF ReconcileSkip, RegistryOK, DiskOK, KernelOK
<1>8. CASE ReconcileUnfreeze(p)
  <2>1. faults' \in FaultLog
    BY <1>0, <1>8, FaultTypes DEF ReconcileUnfreeze
  <2>2. KernelOK'
    BY <1>0, <1>8 DEF ReconcileUnfreeze, ThawFrozen, KernelOK
  <2> QED BY <1>0, <1>8, <2>1, <2>2, ReturnTypes DEF ReconcileUnfreeze, RegistryOK, DiskOK
<1> QED BY <1>1, <1>2, <1>3, <1>4, <1>5, <1>6, <1>7, <1>8 DEF ReconcileStep

\* A destroy that starts, a task that dies or is cancelled, a command that ends.
LEMMA ControlTypes ==
    ASSUME NEW p \in Procs, Typed, DestroyStart(p) \/ Crash(p) \/ Exit(p)
    PROVE  Typed'
<1> USE DEF Typed, TypeOK, At, registryVars, diskVars, kernelVars, locals
<1>1. CASE DestroyStart(p)
  BY <1>1 DEF DestroyStart, Goto, Pcs, OpKinds, RegistryOK, DiskOK, KernelOK, TasksOK, Assigned
<1>2. CASE Crash(p)
  <2>1. todo' \in [Procs -> SUBSET Ids] /\ faults' \in FaultLog
    BY <1>2, FaultTypes DEF Crash, TasksOK
  <2> QED BY <1>2, <2>1, LeaveTypes DEF Crash, RegistryOK, DiskOK, KernelOK
<1>3. CASE Exit(p)
  BY <1>3 DEF Exit, Goto, Pcs, RegistryOK, DiskOK, KernelOK, TasksOK, Assigned
<1> QED BY <1>1, <1>2, <1>3

\* Every step keeps the types.
LEMMA NextTypes == Typed /\ [Next]_vars => Typed'
<1> SUFFICES ASSUME Typed, [Next]_vars PROVE Typed'
  OBVIOUS
<1>1. CASE UNCHANGED vars
  BY <1>1 DEF vars, registryVars, diskVars, kernelVars, locals, Typed, TypeOK, Assigned,
              RegistryOK, DiskOK, KernelOK, TasksOK
<1>2. CASE Next
  BY <1>2, TeardownTypes, SpawnTypes, SnapshotTypes, ReconcileTypes, SandboxTypes,
     ControlTypes DEF Next, TaskStep
<1> QED BY <1>1, <1>2

\* Every reachable state of the backend is well typed, whatever operations
\* run and whatever fails: TypeOK of the model of backend.rs, setup.rs and
\* registry.rs.
THEOREM TypeCorrect == Spec => []TypeOK
<1>1. Init => Typed
  BY InodeAssumption, FaultsAssumption
     DEF Init, FaultLog, Typed, TypeOK, Assigned, RegistryOK, DiskOK, KernelOK, TasksOK, Pcs
<1>2. Typed => TypeOK
  BY DEF Typed
<1> QED BY <1>1, <1>2, NextTypes, PTL DEF Spec
=============================================================================

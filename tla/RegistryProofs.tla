--------------------------- MODULE RegistryProofs ---------------------------
(***************************************************************************)
(* What the registry accounts for, whatever fails: nothing but directories *)
(* exists of a sandbox before its row does, and a finished snapshot is not *)
(* touched again.  Neither rests on the op-lock, so op.lock may fail, too. *)
(***************************************************************************)
EXTENDS NsBackendTypes

\* A sandbox without a row is known to nobody but the spawn that drew its id,
\* and only as long as that spawn has not inserted the row.
Unlisted ==
    /\ \A p \in Procs : sb[p] # None /\ row[sb[p]] = "new" =>
         op[p] = "spawn" /\ pc[p] \in {"open", "lock", "seed", "insert"}
    /\ \A p \in Procs : \A i \in todo[p] : row[i] # "new"

\* A snapshot in the making belongs to one task, and is not whole before the
\* copy has ended; one that failed never becomes whole.
Owned ==
    \A p \in Procs :
        /\ pc[p] \in SnapPc => op[p] = "snapshot"
        /\ op[p] = "snapshot" =>
             /\ sn[p] \in Snaps
             /\ pc[p] \in {"open", "lock"} \cup SnapPc
             /\ pc[p] \notin {"sn_thaw", "sn_size"} => snapData[sn[p]] # "whole"
             /\ \A q \in Procs : op[q] = "snapshot" /\ sn[q] = sn[p] => q = p

Listed == Unlisted /\ RegistryFirst /\ Owned

-----------------------------------------------------------------------------
(* Steps that leave the shared state alone *)

\* A task that leaves its operation gives its snapshot up.
LEMMA LeaveOwned ==
    ASSUME NEW p \in Procs, NEW l \in {"off", "idle", "rc_next"}, Typed, Owned, Leave(p, l),
           \A q \in Procs \ {p} : op[q] = "snapshot" => snapData'[sn[q]] = snapData[sn[q]]
    PROVE  Owned'
BY DEF Owned, Typed, TypeOK, TasksOK, Leave, Goto, SnapPc

\* It knows of no sandbox any more.
LEMMA LeaveListed ==
    ASSUME NEW p \in Procs, NEW l \in {"off", "idle", "rc_next"}, Typed, Listed, Leave(p, l),
           \A q \in Procs : \A i \in todo'[q] : row[i] # "new",
           UNCHANGED <<row, disk, kernelVars>>,
           \A q \in Procs \ {p} : op[q] = "snapshot" => snapData'[sn[q]] = snapData[sn[q]]
    PROVE  Listed'
<1>1. Owned'
  BY LeaveOwned DEF Listed
<1>2. Unlisted'
  BY DEF Listed, Unlisted, Leave, Goto, Typed, TypeOK, TasksOK
<1>3. RegistryFirst'
  BY DEF Listed, RegistryFirst, kernelVars
<1> QED BY <1>1, <1>2, <1>3 DEF Listed

\* The same for a call that returns.
LEMMA ReturnListed ==
    ASSUME NEW p \in Procs, Typed, Listed, Return(p), UNCHANGED <<row, disk, kernelVars>>,
           \A q \in Procs \ {p} : op[q] = "snapshot" => snapData'[sn[q]] = snapData[sn[q]]
    PROVE  Listed'
<1>1. \A q \in Procs : \A i \in todo'[q] : row[i] # "new"
  BY DEF Return, Listed, Unlisted
<1> QED BY <1>1, LeaveListed DEF Return

\* A task that goes on, without being a spawn before its insert, and without
\* being a snapshot, keeps what it had.
LEMMA GotoListed ==
    ASSUME NEW p \in Procs, NEW l \in Pcs \ SnapPc, Typed, Listed, Goto(p, l),
           op[p] # "snapshot", sb[p] \in Ids, row[sb[p]] # "new",
           UNCHANGED <<locals, snapData>>, \A i \in Ids : row'[i] = "new" <=> row[i] = "new",
           \A i \in Ids \ {sb[p]} : /\ disk'[i] = disk[i] /\ cgroup'[i] = cgroup[i]
                                    /\ setup'[i] = setup[i] /\ guest'[i] = guest[i]
    PROVE  Listed'
<1> USE DEF Listed, Typed, TypeOK, TasksOK, Goto, locals
<1>1. Owned'
  BY DEF Owned
<1>2. Unlisted'
  BY NoneAssumption DEF Unlisted
<1>3. RegistryFirst'
  BY DEF RegistryFirst
<1> QED BY <1>1, <1>2, <1>3

\* Past its lock, a task that is not a spawn before its insert works on a
\* sandbox that has, or had, a row.
LEMMA KnownRow ==
    ASSUME NEW p \in Procs, Typed, Listed, pc[p] \notin {"off", "idle", "rc_next"},
           op[p] # "spawn" \/ pc[p] \notin {"open", "lock", "seed", "insert"}
    PROVE  sb[p] \in Ids /\ row[sb[p]] # "new"
BY NoneAssumption DEF Typed, Assigned, Listed, Unlisted

-----------------------------------------------------------------------------
(* The steps *)

\* Waiting for the op-lock, and destroy_inner.
LEMMA TeardownListed ==
    ASSUME NEW p \in Procs, Typed, Listed, TeardownStep(p)
    PROVE  Listed'
<1> USE DEF At, registryVars, diskVars, kernelVars
<1> USE DEF Pcs, ReconcilePc, SpawnPc, SnapPc, TeardownPc
<1>0. /\ pc[p] \in {"open", "lock"} => sb[p] \in Ids
      /\ pc[p] \in TeardownPc => op[p] # "snapshot" /\ sb[p] \in Ids /\ row[sb[p]] # "new"
  BY KnownRow DEF Typed, Assigned, Listed, Owned
<1>1. CASE OpenLock(p)
  <2> USE <1>0, <1>1 DEF OpenLock, Listed, Typed, TypeOK, TasksOK, DiskOK, Goto
  <2>1. Owned'
    BY DEF Owned
  <2>2. Unlisted'
    BY DEF Unlisted
  <2>3. RegistryFirst'
    BY DEF RegistryFirst
  <2> QED BY <2>1, <2>2, <2>3
<1>2. CASE LockEx(p)
  <2> USE <1>0, <1>2 DEF LockEx, Locked, Listed, Typed, TypeOK, TasksOK, DiskOK, Goto, locals
  <2>1. Owned'
    BY DEF Owned
  <2>2. Unlisted'
    BY DEF Unlisted
  <2>3. RegistryFirst'
    BY DEF RegistryFirst
  <2> QED BY <2>1, <2>2, <2>3
<1>3. CASE LockFails(p)
  <2>1. CASE op[p] = "destroy"
    BY <1>0, <1>3, <2>1, GotoListed, KnownRow DEF LockFails, Typed, TypeOK, DiskOK
  <2>2. CASE op[p] # "destroy"
    <3>1. Return(p) /\ pc[p] = "open" /\ UNCHANGED <<row, snapData, kernelVars>>
      BY <1>3, <2>2 DEF LockFails
    <3>2. Owned'
      BY <3>1, LeaveOwned DEF Return, Listed
    <3>3. Unlisted'
      BY <3>1 DEF Listed, Unlisted, Return, Leave, Goto, Typed, TypeOK, TasksOK
    <3>4. RegistryFirst'
      BY <1>0, <1>3, <3>1 DEF LockFails, Listed, RegistryFirst, Typed, TypeOK, DiskOK
    <3> QED BY <3>2, <3>3, <3>4 DEF Listed
  <2> QED BY <2>1, <2>2
<1>4. CASE KillGuest(p)
  BY <1>0, <1>4, GotoListed DEF KillGuest, Typed, TypeOK, KernelOK
<1>5. CASE KillGuestFails(p)
  BY <1>5, ReturnListed DEF KillGuestFails
<1>6. CASE DestroyCgroup(p)
  BY <1>0, <1>6, GotoListed DEF DestroyCgroup, Typed, TypeOK, KernelOK
<1>6a. CASE DestroyCgroupFails(p)
  BY <1>0, <1>6a, GotoListed DEF DestroyCgroupFails
<1>7. CASE UnlinkEntry(p)
  <2> USE <1>0, <1>7 DEF UnlinkEntry, Listed, Typed, TypeOK, TasksOK, DiskOK, locals
  <2>1. Owned'
    BY DEF Owned
  <2>2. Unlisted'
    BY DEF Unlisted
  <2>3. RegistryFirst'
    BY DEF RegistryFirst
  <2> QED BY <2>1, <2>2, <2>3
<1>8. CASE RemoveDir(p)
  BY <1>0, <1>8, GotoListed DEF RemoveDir, Typed, TypeOK, DiskOK
<1>9. CASE RemoveDirFails(p)
  BY <1>9, ReturnListed DEF RemoveDirFails
<1>10. CASE DropRow(p)
  <2>1. \A i \in Ids : row'[i] = "new" <=> row[i] = "new"
    BY <1>0, <1>10 DEF DropRow, RemoveSandbox, HasRow, Typed, TypeOK, RegistryOK
  <2>2. Owned'
    BY <1>10, LeaveOwned DEF DropRow, Return, Listed
  <2>3. Unlisted'
    BY <1>10, <2>1 DEF DropRow, Return, Leave, Goto, Listed, Unlisted, Typed, TypeOK, TasksOK
  <2>4. RegistryFirst'
    BY <1>10, <2>1 DEF DropRow, Listed, RegistryFirst
  <2> QED BY <2>2, <2>3, <2>4 DEF Listed
<1>11. CASE DropRowFails(p)
  BY <1>11, ReturnListed DEF DropRowFails
<1> QED BY <1>1, <1>2, <1>3, <1>4, <1>5, <1>6, <1>6a, <1>7, <1>8, <1>9, <1>10, <1>11 DEF TeardownStep

\* spawn and do_spawn: the insert comes before the cgroup and the processes.
LEMMA SpawnListed ==
    ASSUME NEW p \in Procs, Typed, Listed, SpawnStep(p)
    PROVE  Listed'
<1> USE DEF At, registryVars, diskVars, kernelVars
<1> USE DEF Pcs, ReconcilePc, SpawnPc, SnapPc, TeardownPc
<1>0. /\ pc[p] \in SpawnPc => op[p] # "snapshot" /\ sb[p] \in Ids
      /\ pc[p] \in SpawnPc \ {"seed", "insert"} => row[sb[p]] # "new"
  BY KnownRow DEF Typed, Assigned, Listed, Owned
<1>1. CASE SpawnMkdir(p)
  <2> USE <1>1 DEF SpawnMkdir, Listed, Typed, TypeOK, TasksOK, DiskOK, Goto
  <2>1. Owned'
    BY DEF Owned
  <2>2. Unlisted'
    BY DEF Unlisted
  <2>3. RegistryFirst'
    BY DEF RegistryFirst
  <2> QED BY <2>1, <2>2, <2>3
<1>2. CASE SpawnSeed(p)
  <2> USE <1>0, <1>2 DEF SpawnSeed, Listed, Typed, TypeOK, TasksOK, DiskOK, Goto, locals
  <2>1. Owned'
    BY DEF Owned
  <2>2. Unlisted'
    BY DEF Unlisted
  <2>3. RegistryFirst'
    BY DEF RegistryFirst
  <2> QED BY <2>1, <2>2, <2>3
<1>3. CASE SpawnSeedFails(p)
  BY <1>3, ReturnListed DEF SpawnSeedFails
<1>4. CASE SpawnInsert(p)
  <2> USE <1>0, <1>4 DEF SpawnInsert, Listed, Typed, TypeOK, TasksOK, RegistryOK, Goto, locals
  <2>1. Owned'
    BY DEF Owned
  <2>2. Unlisted'
    BY DEF Unlisted
  <2>3. RegistryFirst'
    BY DEF RegistryFirst
  <2> QED BY <2>1, <2>2, <2>3
<1>5. CASE SpawnInsertFails(p)
  BY <1>5, ReturnListed DEF SpawnInsertFails
<1>6. CASE SpawnCgroup(p)
  BY <1>0, <1>6, GotoListed DEF SpawnCgroup, Typed, TypeOK, KernelOK
<1>6a. CASE SpawnCgroupFails(p)
  BY <1>0, <1>6a, GotoListed DEF SpawnCgroupFails, Typed, TypeOK, KernelOK
<1>7. CASE SpawnRecordCgroup(p)
  BY <1>0, <1>7, GotoListed DEF SpawnRecordCgroup, Typed, TypeOK, DiskOK
<1>8. CASE SpawnSetup(p)
  BY <1>0, <1>8, GotoListed DEF SpawnSetup, Typed, TypeOK, KernelOK
<1>9. CASE SpawnGo(p)
  <2>1. Goto(p, pc[p])
    BY <1>9 DEF SpawnGo, Goto, Typed, TypeOK, TasksOK
  <2> QED BY <1>0, <1>9, <2>1, GotoListed DEF SpawnGo, Typed, TypeOK, KernelOK
<1>10. CASE DriveRead(p)
  BY <1>0, <1>10, GotoListed DEF DriveRead, AbortSetup, Typed, TypeOK, KernelOK
<1>11. CASE DriveFails(p)
  BY <1>0, <1>11, GotoListed DEF DriveFails, AbortSetup, Typed, TypeOK, KernelOK
<1>12. CASE SpawnPidfile(p)
  BY <1>0, <1>12, GotoListed DEF SpawnPidfile, Typed, TypeOK, DiskOK
<1>13. CASE SpawnReady(p)
  <2>1. \A i \in Ids : row'[i] = "new" <=> row[i] = "new"
    BY <1>0, <1>13 DEF SpawnReady, HasRow, Typed, TypeOK, RegistryOK
  <2>2. Owned'
    BY <1>13, LeaveOwned DEF SpawnReady, Return, Listed
  <2>3. Unlisted'
    BY <1>13, <2>1 DEF SpawnReady, Return, Leave, Goto, Listed, Unlisted, Typed, TypeOK, TasksOK
  <2>4. RegistryFirst'
    BY <1>13, <2>1 DEF SpawnReady, Listed, RegistryFirst
  <2> QED BY <2>2, <2>3, <2>4 DEF Listed
<1>14. CASE SpawnStepFails(p)
  BY <1>0, <1>14, GotoListed DEF SpawnStepFails
<1> QED BY <1>1, <1>2, <1>3, <1>4, <1>5, <1>6, <1>6a, <1>7, <1>8, <1>9, <1>10, <1>11, <1>12, <1>13, <1>14
        DEF SpawnStep

\* Setup and guest run only where a row was inserted; the freezer likewise.
LEMMA SandboxListed ==
    ASSUME NEW i \in Ids, Typed, Listed, SandboxStep(i)
    PROVE  Listed'
<1> USE DEF registryVars, diskVars, kernelVars, locals, Listed
<1> USE DEF SandboxStep, SetupFails, SetupFork, SetupReportPid, GuestReady, GuestBootFails,
            GuestDies, FreezeTakes
<1>1. UNCHANGED <<row, snapData, pc, locals>>
  OBVIOUS
<1>2. Owned' /\ Unlisted'
  BY <1>1 DEF Owned, Unlisted
<1>3. setup[i] # "none" \/ guest[i] # "none" \/ cgroup[i] # "none"
  OBVIOUS
<1>4. RegistryFirst'
  BY <1>1, <1>3 DEF RegistryFirst, Typed, TypeOK, KernelOK, DiskOK
<1> QED BY <1>2, <1>4

\* A snapshot that goes on with the one it owns, and has not ended its copy
\* unless it just did.
LEMMA CopyListed ==
    ASSUME NEW p \in Procs, NEW l \in SnapPc, Typed, Listed, pc[p] \in SnapPc, Goto(p, l),
           UNCHANGED <<row, disk, setup, guest, op, sb, sn, todo>>,
           \A i \in Ids : row[i] = "new" => cgroup'[i] = cgroup[i],
           \A s \in Snaps \ {sn[p]} : snapData'[s] = snapData[s],
           l \notin {"sn_thaw", "sn_size"} => snapData'[sn[p]] # "whole"
    PROVE  Listed'
<1> USE DEF Listed, Typed, TypeOK, TasksOK, Goto
<1>1. Owned'
  BY DEF Owned
<1>2. Unlisted'
  BY KnownRow DEF Unlisted, SnapPc
<1>3. RegistryFirst'
  BY DEF RegistryFirst
<1> QED BY <1>1, <1>2, <1>3

\* The steps of snapshot.
LEMMA SnapshotListed ==
    ASSUME NEW p \in Procs, Typed, Listed, SnapshotStep(p)
    PROVE  Listed'
<1> USE DEF At, registryVars, diskVars, kernelVars
<1>0. pc[p] \in SnapPc =>
        /\ op[p] = "snapshot" /\ sn[p] \in Snaps /\ sb[p] \in Ids /\ row[sb[p]] # "new"
        /\ pc[p] \notin {"sn_thaw", "sn_size"} => snapData[sn[p]] # "whole"
        /\ \A q \in Procs \ {p} : op[q] = "snapshot" => sn[q] # sn[p]
  BY KnownRow DEF Listed, Owned, SnapPc
<1>1. CASE SnapshotStart(p)
  <2> USE <1>1 DEF SnapshotStart, Listed, Typed, TypeOK, TasksOK, DiskOK, Goto
  <2>1. Owned'
    BY DEF Owned, SnapPc
  <2>2. Unlisted'
    BY DEF Unlisted, HasRow
  <2>3. RegistryFirst'
    BY DEF RegistryFirst
  <2> QED BY <2>1, <2>2, <2>3
<1> USE <1>0 DEF SnapPc
<1>2. CASE SnapshotCreateDir(p)
  BY <1>2, CopyListed DEF SnapshotCreateDir, locals, Typed, TypeOK, DiskOK
<1>3. CASE SnapshotRefused(p)
  BY <1>3, ReturnListed DEF SnapshotRefused
<1>4. CASE SnapshotInsert(p)
  BY <1>4, CopyListed DEF SnapshotInsert, locals
<1>5. CASE SnapshotInsertFails(p)
  <2>1. \A q \in Procs \ {p} : op[q] = "snapshot" => snapData'[sn[q]] = snapData[sn[q]]
    BY <1>5 DEF SnapshotInsertFails, Typed, TypeOK, DiskOK, Listed, Owned
  <2> QED BY <1>5, <2>1, ReturnListed DEF SnapshotInsertFails
<1>6. CASE SnapshotFreeze(p)
  BY <1>6, CopyListed DEF SnapshotFreeze, FreezeCgroup, Typed, TypeOK, KernelOK
<1>7. CASE SnapshotCopyBegin(p)
  BY <1>7, CopyListed DEF SnapshotCopyBegin, locals, Typed, TypeOK, DiskOK
<1>8. CASE SnapshotCopyEnd(p)
  BY <1>8, CopyListed DEF SnapshotCopyEnd, Thaw, locals, Typed, TypeOK, DiskOK
<1>9. CASE SnapshotCopyFails(p)
  BY <1>9, CopyListed DEF SnapshotCopyFails, ThawFailed, locals
<1>10. CASE SnapshotThaw(p)
  <2>1. \A i \in Ids : row[i] = "new" => cgroup'[i] = cgroup[i]
    BY <1>10 DEF SnapshotThaw, UnfreezeCgroup, Typed, TypeOK, KernelOK
  <2> QED BY <1>10, <2>1, CopyListed DEF SnapshotThaw, locals
<1>11. CASE SnapshotDone(p)
  BY <1>11, ReturnListed DEF SnapshotDone
<1>12. CASE SnapshotUndoDir(p)
  BY <1>12, CopyListed DEF SnapshotUndoDir, locals, Typed, TypeOK, DiskOK
<1>13. CASE SnapshotUndoRow(p)
  BY <1>13, ReturnListed DEF SnapshotUndoRow
<1> QED BY <1>1, <1>2, <1>3, <1>4, <1>5, <1>6, <1>7, <1>8, <1>9, <1>10, <1>11, <1>12, <1>13 DEF SnapshotStep

\* The steps of reconcile.
LEMMA ReconcileListed ==
    ASSUME NEW p \in Procs, Typed, Listed, ReconcileStep(p)
    PROVE  Listed'
<1> USE DEF At, registryVars, diskVars, kernelVars
<1> USE DEF Pcs, ReconcilePc, SnapPc, TeardownPc
<1>0. pc[p] \in {"rc_drop", "rc_try", "rc_thaw", "rc_unfreeze"} =>
        op[p] # "snapshot" /\ sb[p] \in Ids /\ row[sb[p]] # "new"
  BY KnownRow DEF Listed, Owned
<1>1. CASE ReconcileStart(p)
  <2>1. \A q \in Procs : \A i \in todo'[q] : row[i] # "new"
    BY <1>1 DEF ReconcileStart, Listed, Unlisted, HasRow, Typed, TypeOK, TasksOK
  <2> QED BY <1>1, <2>1, LeaveListed DEF ReconcileStart
<1>2. CASE ReconcileRow(p)
  <2>1. pc' = [pc EXCEPT ![p] = pc'[p]] /\ pc'[p] \in ReconcilePc
    BY <1>2 DEF ReconcileRow, Goto, Typed, TypeOK, TasksOK
  <2>2. Owned'
    BY <1>2, <2>1 DEF ReconcileRow, Listed, Owned, Typed, TypeOK, TasksOK
  <2>3. Unlisted'
    <3>1. PICK i \in todo[p] : /\ todo' = [todo EXCEPT ![p] = @ \ {i}]
                               /\ sb' \in {[sb EXCEPT ![p] = i], [sb EXCEPT ![p] = None]}
      BY <1>2 DEF ReconcileRow
    <3>2. row[i] # "new" /\ UNCHANGED <<row, op>>
      BY <1>2 DEF ReconcileRow, Listed, Unlisted
    <3> QED BY <2>1, <3>1, <3>2 DEF Listed, Unlisted, Typed, TypeOK, TasksOK
  <2>4. RegistryFirst'
    BY <1>2 DEF ReconcileRow, Listed, RegistryFirst
  <2> QED BY <2>2, <2>3, <2>4 DEF Listed
<1>3. CASE ReconcileEnd(p)
  <2>1. \A q \in Procs : \A i \in todo'[q] : row[i] # "new"
    BY <1>3 DEF ReconcileEnd, Listed, Unlisted
  <2> QED BY <1>3, <2>1, LeaveListed DEF ReconcileEnd
<1>4. CASE ReconcileDrop(p)
  <2>1. \A i \in Ids : row'[i] = "new" <=> row[i] = "new"
    BY <1>0, <1>4 DEF ReconcileDrop, RemoveSandbox, HasRow, Typed, TypeOK, RegistryOK
  <2>2. Owned'
    BY <1>4, LeaveOwned DEF ReconcileDrop, Return, Listed
  <2>3. Unlisted'
    BY <1>4, <2>1 DEF ReconcileDrop, Return, Leave, Goto, Listed, Unlisted, Typed, TypeOK, TasksOK
  <2>4. RegistryFirst'
    BY <1>4, <2>1 DEF ReconcileDrop, Listed, RegistryFirst
  <2> QED BY <2>2, <2>3, <2>4 DEF Listed
<1>5. CASE ReconcileReap(p) \/ ReconcileThawLock(p)
  <2> USE <1>0, <1>5 DEF ReconcileReap, ReconcileThawLock, TryLock, Listed, Typed, TypeOK,
                         TasksOK, DiskOK, Goto
  <2>1. Owned'
    BY DEF Owned
  <2>2. Unlisted'
    BY DEF Unlisted
  <2>3. RegistryFirst'
    BY DEF RegistryFirst
  <2> QED BY <2>1, <2>2, <2>3
<1>6. CASE ReconcileSkip(p)
  BY <1>6, ReturnListed DEF ReconcileSkip
<1>7. CASE ReconcileUnfreeze(p)
  <2>1. \A i \in Ids : row[i] = "new" => cgroup'[i] = cgroup[i]
    BY <1>0, <1>7 DEF ReconcileUnfreeze, ThawFrozen, Typed, TypeOK, KernelOK
  <2>2. Owned'
    BY <1>7, LeaveOwned DEF ReconcileUnfreeze, Return, Listed
  <2>3. Unlisted'
    BY <1>7 DEF ReconcileUnfreeze, Return, Leave, Goto, Listed, Unlisted, Typed, TypeOK, TasksOK
  <2>4. RegistryFirst'
    BY <1>7, <2>1 DEF ReconcileUnfreeze, Listed, RegistryFirst
  <2> QED BY <2>2, <2>3, <2>4 DEF Listed
<1> QED BY <1>1, <1>2, <1>3, <1>4, <1>5, <1>6, <1>7 DEF ReconcileStep

\* A destroy that starts, a task that dies or is cancelled, a command that ends.
LEMMA ControlListed ==
    ASSUME NEW p \in Procs, Typed, Listed, DestroyStart(p) \/ Crash(p) \/ Exit(p)
    PROVE  Listed'
<1> USE DEF At, registryVars, diskVars, kernelVars
<1>1. CASE DestroyStart(p)
  <2> USE <1>1 DEF DestroyStart, Listed, Typed, TypeOK, TasksOK, Goto
  <2>1. Owned'
    BY DEF Owned, SnapPc
  <2>2. Unlisted'
    BY DEF Unlisted, HasRow
  <2>3. RegistryFirst'
    BY DEF RegistryFirst
  <2> QED BY <2>1, <2>2, <2>3
<1>2. CASE Crash(p)
  <2>1. \A q \in Procs : \A i \in todo'[q] : row[i] # "new"
    BY <1>2 DEF Crash, Listed, Unlisted, Typed, TypeOK, TasksOK
  <2> QED BY <1>2, <2>1, LeaveListed DEF Crash
<1>3. CASE Exit(p)
  <2> USE <1>3 DEF Exit, Listed, Typed, TypeOK, TasksOK, Goto, locals
  <2>1. Owned'
    BY DEF Owned, SnapPc
  <2>2. Unlisted'
    BY DEF Unlisted
  <2>3. RegistryFirst'
    BY DEF RegistryFirst
  <2> QED BY <2>1, <2>2, <2>3
<1> QED BY <1>1, <1>2, <1>3

\* The invariant, for every step and every failure.
LEMMA ListedInvariance == Spec => [](Typed /\ Listed)
<1>1. Init => Typed /\ Listed
  BY InodeAssumption, FaultsAssumption
     DEF Init, Typed, TypeOK, Assigned, RegistryOK, DiskOK, KernelOK, TasksOK, FaultLog, Pcs,
         Listed, Unlisted, RegistryFirst, Owned, SnapPc
<1>2. Typed /\ Listed /\ [Next]_vars => (Typed /\ Listed)'
  <2> SUFFICES ASSUME Typed, Listed, [Next]_vars PROVE Listed'
    BY NextTypes
  <2>1. CASE UNCHANGED vars
    BY <2>1 DEF vars, registryVars, diskVars, kernelVars, locals, Listed, Unlisted,
                RegistryFirst, Owned
  <2>2. CASE Next
    BY <2>2, TeardownListed, SpawnListed, SandboxListed, SnapshotListed, ReconcileListed,
       ControlListed DEF Next, TaskStep
  <2> QED BY <2>1, <2>2
<1> QED BY <1>1, <1>2, PTL DEF Spec

-----------------------------------------------------------------------------
(* The theorems *)

\* spawn is registry-first: whatever fails, dies or is cancelled, no process,
\* cgroup or record of one exists of a sandbox that has no row yet, so that
\* destroy and reconcile can find everything that needs to be undone.
THEOREM RegistryIsFirst == Spec => []RegistryFirst
<1>1. Listed => RegistryFirst
  BY DEF Listed
<1> QED BY <1>1, ListedInvariance, PTL

\* The steps that write a snapshot or its row, seen from a finished one.
LEMMA KeptStep ==
    ASSUME Typed, Listed, [Next]_vars, NEW s \in Snaps, snapData[s] = "whole", snapRow[s]
    PROVE  snapData'[s] = "whole" /\ snapRow'[s]
<1> USE DEF registryVars, diskVars, Typed, TypeOK, RegistryOK, DiskOK
<1>1. CASE UNCHANGED vars
  BY <1>1 DEF vars
<1>2. ASSUME NEW p \in Procs, SnapshotStep(p)
      PROVE  snapData'[s] = "whole" /\ snapRow'[s]
  <2>1. pc[p] \in SnapPc /\ pc[p] \notin {"sn_thaw", "sn_size"} => sn[p] # s
    BY DEF Listed, Owned
  <2> QED BY <1>2, <2>1 DEF SnapPc, At, SnapshotStep, SnapshotStart, SnapshotCreateDir,
                SnapshotRefused, SnapshotInsert, SnapshotInsertFails, SnapshotFreeze,
                SnapshotCopyBegin, SnapshotCopyEnd, SnapshotCopyFails, SnapshotThaw,
                SnapshotDone, SnapshotUndoDir, SnapshotUndoRow
<1>3. ASSUME NEW p \in Procs, TeardownStep(p)
      PROVE  snapData'[s] = "whole" /\ snapRow'[s]
  BY <1>3 DEF TeardownStep, OpenLock, LockEx, LockFails, KillGuest, KillGuestFails,
              DestroyCgroup, DestroyCgroupFails, UnlinkEntry, RemoveDir, RemoveDirFails,
              DropRow, DropRowFails
<1>4. ASSUME NEW p \in Procs, SpawnStep(p) \/ ReconcileStep(p)
      PROVE  snapData'[s] = "whole" /\ snapRow'[s]
  BY <1>4 DEF SpawnStep, SpawnMkdir, SpawnSeed, SpawnSeedFails, SpawnInsert, SpawnInsertFails,
              SpawnCgroup, SpawnCgroupFails, SpawnRecordCgroup, SpawnSetup, SpawnGo, DriveRead, DriveFails,
              SpawnPidfile, SpawnReady, SpawnStepFails,
              ReconcileStep, ReconcileStart, ReconcileRow, ReconcileEnd, ReconcileDrop,
              ReconcileReap, ReconcileThawLock, TryLock, ReconcileSkip, ReconcileUnfreeze
<1>5. ASSUME NEW p \in Procs, DestroyStart(p) \/ Crash(p) \/ Exit(p)
      PROVE  snapData'[s] = "whole" /\ snapRow'[s]
  BY <1>5 DEF DestroyStart, Crash, Exit
<1>6. ASSUME NEW i \in Ids, SandboxStep(i)
      PROVE  snapData'[s] = "whole" /\ snapRow'[s]
  BY <1>6 DEF SandboxStep, SetupFails, SetupFork, SetupReportPid, GuestReady, GuestBootFails,
              GuestDies, FreezeTakes
<1> QED BY <1>1, <1>2, <1>3, <1>4, <1>5, <1>6 DEF Next, TaskStep

\* A finished snapshot stays whole and listed, whatever other snapshots, the
\* destruction of its sandbox, crashes and reconcile passes do: snapshot's undo
\* only ever reaches the snapshot that its own task failed to finish.
THEOREM SnapshotsAreKept == Spec => SnapshotKept
<1>1. Typed /\ Listed /\ [Next]_vars =>
        [\A s \in Snaps : snapData[s] = "whole" /\ snapRow[s]
           => snapData'[s] = "whole" /\ snapRow'[s]]_vars
  BY KeptStep
<1> QED BY <1>1, ListedInvariance, PTL DEF Spec, SnapshotKept
=============================================================================

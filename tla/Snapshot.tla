------------------------------ MODULE Snapshot ------------------------------
(***************************************************************************)
(* NsBackend::snapshot: under the op-lock of the sandbox, record the       *)
(* snapshot, freeze the sandbox, copy its upper layer, thaw it.            *)
(***************************************************************************)
EXTENDS Teardown

\* Look the sandbox up.  The snapshot's id, random in the code, is drawn here.
SnapshotStart(p) ==
    /\ At(p, "idle") /\ "snapshot" \in Ops[p]
    /\ \E i \in Ids : HasRow(i) /\ sb' = [sb EXCEPT ![p] = i]
    /\ \E s \in Snaps :
         /\ snapData[s] = "none" /\ ~snapRow[s] /\ \A q \in Procs : sn[q] # s
         /\ sn' = [sn EXCEPT ![p] = s]
    /\ op' = [op EXCEPT ![p] = "snapshot"]
    /\ Goto(p, "open")
    /\ UNCHANGED <<registryVars, diskVars, kernelVars, fd, froze, todo, faults>>

\* With the lock: look the sandbox up again, then make the snapshot's own
\* directory, exclusively.
SnapshotCreateDir(p) ==
    /\ At(p, "sn_check") /\ HasRow(sb[p])
    /\ snapData' = [snapData EXCEPT ![sn[p]] = "dir"]
    /\ Goto(p, "sn_insert")
    /\ UNCHANGED <<registryVars, disk, inode, layer, kernelVars, locals, faults>>

\* The sandbox was destroyed while the task waited, or the directory cannot be
\* made.
SnapshotRefused(p) ==
    /\ At(p, "sn_check")
    /\ \/ ~HasRow(sb[p]) /\ UNCHANGED faults
       \/ Fault("io")
    /\ Return(p)
    /\ UNCHANGED <<registryVars, diskVars, kernelVars>>

\* The row refers to the sandbox's row, which the schema requires to exist.
SnapshotInsert(p) ==
    /\ At(p, "sn_insert") /\ HasRow(sb[p])
    /\ snapRow' = [snapRow EXCEPT ![sn[p]] = TRUE]
    /\ Goto(p, "sn_freeze")
    /\ UNCHANGED <<row, diskVars, kernelVars, locals, faults>>

\* The sandbox's row went away, the name is taken, or the database fails.
SnapshotInsertFails(p) ==
    /\ At(p, "sn_insert")
    /\ \/ ~HasRow(sb[p]) /\ UNCHANGED faults
       \/ Fault("io")
    /\ snapData' = [snapData EXCEPT ![sn[p]] = "none"]
    /\ Return(p)
    /\ UNCHANGED <<registryVars, disk, inode, layer, kernelVars>>

\* Best effort: no recorded cgroup, or one that is gone, is not frozen, and an
\* error is ignored.
SnapshotFreeze(p) ==
    /\ At(p, "sn_freeze")
    /\ \/ /\ CgroupRecorded(sb[p])
          /\ FreezeCgroup(sb[p])
          /\ froze' = [froze EXCEPT ![p] = TRUE]
          /\ UNCHANGED faults
       \/ /\ \/ ~CgroupRecorded(sb[p]) /\ UNCHANGED faults
             \/ CgroupRecorded(sb[p]) /\ Fault("io")
          /\ UNCHANGED <<cgroup, froze>>
    /\ Goto(p, "sn_copy")
    /\ UNCHANGED <<registryVars, diskVars, setup, guest, out, op, sb, fd, sn, todo>>

Thaw(p) == IF froze[p] THEN "sn_thaw" ELSE "sn_size"

ThawFailed(p) == IF froze[p] THEN "sn_thaw_err" ELSE "sn_undo"

SnapshotCopyBegin(p) ==
    /\ At(p, "sn_copy") /\ "upper" \in disk[sb[p]]
    /\ snapData' = [snapData EXCEPT ![sn[p]] = "partial"]
    /\ Goto(p, "sn_copying")
    /\ UNCHANGED <<registryVars, disk, inode, layer, kernelVars, locals, faults>>

\* The copy ends without an error.  It is short if the teardown of another
\* task removed entries before they were read.
SnapshotCopyEnd(p) ==
    /\ At(p, "sn_copying")
    /\ snapData' = [snapData EXCEPT ![sn[p]] = IF @ = "partial" THEN "whole" ELSE @]
    /\ Goto(p, Thaw(p))
    /\ UNCHANGED <<registryVars, disk, inode, layer, kernelVars, locals, faults>>

\* There is no upper layer, an entry vanishes under the copy, or it fails.
SnapshotCopyFails(p) ==
    /\ \/ At(p, "sn_copy") /\ "upper" \notin disk[sb[p]] /\ UNCHANGED faults
       \/ At(p, "sn_copying") /\ snapData[sn[p]] = "short" /\ UNCHANGED faults
       \/ pc[p] \in {"sn_copy", "sn_copying"} /\ Fault("io")
    /\ Goto(p, ThawFailed(p))
    /\ UNCHANGED <<registryVars, diskVars, kernelVars, locals>>

\* The cgroup the snapshot froze is thawed; an error is ignored.
SnapshotThaw(p) ==
    /\ pc[p] \in {"sn_thaw", "sn_thaw_err"}
    /\ \/ UnfreezeCgroup(sb[p]) /\ UNCHANGED faults
       \/ Fault("io") /\ UNCHANGED cgroup
    /\ Goto(p, IF At(p, "sn_thaw") THEN "sn_size" ELSE "sn_undo")
    /\ UNCHANGED <<registryVars, diskVars, setup, guest, out, locals>>

\* set_snapshot_size, then the snapshot id is returned; or the update's error,
\* and the snapshot stays all the same.
SnapshotDone(p) ==
    /\ At(p, "sn_size")
    /\ Return(p)
    /\ UNCHANGED <<registryVars, diskVars, kernelVars, faults>>

\* A failed copy takes its directory and then its row with it; an error of
\* either is ignored.
SnapshotUndoDir(p) ==
    /\ At(p, "sn_undo")
    /\ \/ snapData' = [snapData EXCEPT ![sn[p]] = "none"] /\ UNCHANGED faults
       \/ Fault("io") /\ UNCHANGED snapData
    /\ Goto(p, "sn_unrow")
    /\ UNCHANGED <<registryVars, disk, inode, layer, kernelVars, locals>>

\* Mutant: the rollback does not delete by the snapshot's own key.
SnapshotUndoRows(p) ==
    /\ At(p, "sn_unrow")
    /\ snapRow' = [s \in Snaps |-> FALSE]
    /\ Return(p)
    /\ UNCHANGED <<row, diskVars, kernelVars, faults>>

SnapshotUndoRow(p) ==
    /\ At(p, "sn_unrow")
    /\ \/ snapRow' = [snapRow EXCEPT ![sn[p]] = FALSE] /\ UNCHANGED faults
       \/ Fault("io") /\ UNCHANGED snapRow
    /\ Return(p)
    /\ UNCHANGED <<row, diskVars, kernelVars>>

SnapshotStep(p) ==
    \/ SnapshotStart(p) \/ SnapshotCreateDir(p) \/ SnapshotRefused(p)
    \/ SnapshotInsert(p) \/ SnapshotInsertFails(p) \/ SnapshotFreeze(p)
    \/ SnapshotCopyBegin(p) \/ SnapshotCopyEnd(p) \/ SnapshotCopyFails(p)
    \/ SnapshotThaw(p) \/ SnapshotDone(p) \/ SnapshotUndoDir(p) \/ SnapshotUndoRow(p)
=============================================================================

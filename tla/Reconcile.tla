----------------------------- MODULE Reconcile -----------------------------
(***************************************************************************)
(* NsBackend::reconcile, which every sbx/mcp process runs when it starts:  *)
(* list the rows, and for each one thaw a live sandbox that a crash left   *)
(* frozen, drop a row without a directory, or tear a dead sandbox down.    *)
(***************************************************************************)
EXTENDS Teardown

\* A process starts and lists the rows.
ReconcileStart(p) ==
    /\ At(p, "off")
    /\ todo' = [todo EXCEPT ![p] = {i \in Ids : HasRow(i)}]
    /\ Leave(p, "rc_next")
    /\ UNCHANGED <<registryVars, diskVars, kernelVars, faults>>

\* Mutant: a row without a pidfile is taken for a spawn in flight and left alone.
ReconcileRowNeedsPidfile(p) ==
    /\ At(p, "rc_next")
    /\ \E i \in todo[p] :
         /\ todo' = [todo EXCEPT ![p] = @ \ {i}]
         /\ IF "guest.pid" \in disk[i] /\ guest[i] = "dead"
              THEN sb' = [sb EXCEPT ![p] = i] /\ Goto(p, "rc_try")
              ELSE UNCHANGED sb /\ Goto(p, "rc_next")
    /\ UNCHANGED <<registryVars, diskVars, kernelVars, op, fd, sn, froze, faults>>

\* Look at the next row: what to do is decided before any lock is taken.
ReconcileRow(p) ==
    /\ At(p, "rc_next")
    /\ \E i \in todo[p] :
         /\ todo' = [todo EXCEPT ![p] = @ \ {i}]
         /\ sb' = [sb EXCEPT ![p] = IF GuestAlive(i) /\ "cgroup.path" \notin disk[i]
                                      THEN None ELSE i]
         /\ Goto(p, CASE GuestAlive(i) ->
                              IF "cgroup.path" \in disk[i] THEN "rc_thaw" ELSE "rc_next"
                      [] ~GuestAlive(i) /\ "dir" \notin disk[i] -> "rc_drop"
                      [] OTHER -> "rc_try")
    /\ UNCHANGED <<registryVars, diskVars, kernelVars, op, fd, sn, froze, faults>>

ReconcileEnd(p) ==
    /\ At(p, "rc_next") /\ todo[p] = {}
    /\ Leave(p, "idle")
    /\ UNCHANGED <<registryVars, diskVars, kernelVars, todo, faults>>

\* A row whose state dir is missing is just dropped, without the op-lock.
ReconcileDrop(p) ==
    /\ At(p, "rc_drop")
    /\ RemoveSandbox(sb[p])
    /\ Return(p)
    /\ UNCHANGED <<snapRow, diskVars, kernelVars, faults>>

\* flock_try: open or create op.lock in an existing dir, LOCK_NB.
TryLock(p, l) ==
    /\ "dir" \in disk[sb[p]]
    /\ ~Busy(sb[p], LockInode(sb[p]))
    /\ OpenLockFile(sb[p])
    /\ disk' = [disk EXCEPT ![sb[p]] = @ \cup {"op.lock"}]
    /\ fd' = [fd EXCEPT ![p] = LockInode(sb[p])]
    /\ Goto(p, l)
    /\ UNCHANGED <<registryVars, snapData, layer, kernelVars,
                   op, sb, sn, froze, todo, faults>>

\* The lock is free: tear the sandbox down.  The guest's liveness is not
\* looked at again.
ReconcileReap(p) == At(p, "rc_try") /\ TryLock(p, "kill")

\* Mutant: thaw_if_orphaned does not ask for the op-lock.
ReconcileThawUnlocked(p) ==
    /\ At(p, "rc_thaw")
    /\ Goto(p, "rc_unfreeze")
    /\ UNCHANGED <<registryVars, diskVars, kernelVars, locals, faults>>

ReconcileThawLock(p) == At(p, "rc_thaw") /\ TryLock(p, "rc_unfreeze")

\* The lock is held or cannot be opened, or the directory is gone: leave the
\* sandbox alone.
ReconcileSkip(p) ==
    /\ pc[p] \in {"rc_try", "rc_thaw"}
    /\ \/ /\ "dir" \notin disk[sb[p]] \/ Busy(sb[p], LockInode(sb[p]))
          /\ UNCHANGED faults
       \/ Fault("lock")
    /\ Return(p)
    /\ UNCHANGED <<registryVars, diskVars, kernelVars>>

\* Mutant: the is_frozen test is inverted, so nothing is thawed.
ReconcileUnfreezeNever(p) ==
    /\ At(p, "rc_unfreeze")
    /\ Return(p)
    /\ UNCHANGED <<registryVars, diskVars, kernelVars, faults>>

\* Thaw what is frozen; an error is ignored.
ReconcileUnfreeze(p) ==
    /\ At(p, "rc_unfreeze")
    /\ \/ ThawFrozen(sb[p]) /\ UNCHANGED faults
       \/ Fault("io") /\ UNCHANGED cgroup
    /\ Return(p)
    /\ UNCHANGED <<registryVars, diskVars, setup, guest, out>>

ReconcileStep(p) ==
    \/ ReconcileStart(p) \/ ReconcileRow(p) \/ ReconcileEnd(p) \/ ReconcileDrop(p)
    \/ ReconcileReap(p) \/ ReconcileThawLock(p) \/ ReconcileSkip(p)
    \/ ReconcileUnfreeze(p)
=============================================================================

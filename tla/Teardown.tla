------------------------------ MODULE Teardown ------------------------------
(***************************************************************************)
(* What several operations share: waiting for the op-lock, and the         *)
(* teardown destroy_inner (kill the guest, destroy the cgroup, remove the  *)
(* state dir, drop the row), which destroy, a failed spawn and reconcile   *)
(* all run.  Each await of the code is a step boundary here.               *)
(***************************************************************************)
EXTENDS HostState

\* The step a task takes once it has the op-lock.
Locked(p) == CASE op[p] = "spawn"    -> "seed"
               [] op[p] = "snapshot" -> "sn_check"
               [] OTHER              -> "kill"

\* flock_blocking, first half: create the state dir if it is missing, open or
\* create op.lock.
OpenLock(p) ==
    /\ At(p, "open")
    /\ OpenLockFile(sb[p])
    /\ disk' = [disk EXCEPT ![sb[p]] = @ \cup {"dir", "op.lock"}]
    /\ fd' = [fd EXCEPT ![p] = LockInode(sb[p])]
    /\ Goto(p, "lock")
    /\ UNCHANGED <<registryVars, snapData, layer, kernelVars,
                   op, sb, sn, froze, todo, faults>>

\* Mutant: LOCK_SH, so that nobody blocks.
LockShared(p) ==
    /\ At(p, "lock")
    /\ Goto(p, Locked(p))
    /\ UNCHANGED <<registryVars, diskVars, kernelVars, locals, faults>>

\* flock_blocking, second half: LOCK_EX blocks while another task holds this
\* inode.
LockEx(p) ==
    /\ At(p, "lock")
    /\ ~Busy(sb[p], fd[p])
    /\ Goto(p, Locked(p))
    /\ UNCHANGED <<registryVars, diskVars, kernelVars, locals, faults>>

\* The op-lock cannot be had (out of descriptors or space, a failed task):
\* spawn and snapshot return the error, destroy goes on without the lock.  The
\* state dir may have been created before the open failed.
LockFails(p) ==
    /\ At(p, "open")
    /\ Fault("lock")
    /\ \E made \in {{}, {"dir"}} : disk' = [disk EXCEPT ![sb[p]] = @ \cup made]
    /\ IF op[p] = "destroy"
         THEN Goto(p, "kill") /\ UNCHANGED locals
         ELSE Return(p)
    /\ UNCHANGED <<registryVars, inode, snapData, layer, kernelVars>>

-----------------------------------------------------------------------------
(* destroy_inner *)

\* kill_guest: SIGKILL the guest the pidfile names and wait until it is gone.
\* No pidfile, or one that names no live process: nothing to kill.
KillGuest(p) ==
    /\ At(p, "kill")
    /\ guest' = IF GuestAlive(sb[p]) THEN [guest EXCEPT ![sb[p]] = "dead"]
                                     ELSE guest
    /\ Goto(p, "cg")
    /\ UNCHANGED <<registryVars, diskVars, cgroup, setup, out, locals, faults>>

\* Mutant: the error of kill_guest is dropped and the teardown goes on.
KillErrorIgnored(p) ==
    /\ At(p, "kill")
    /\ GuestAlive(sb[p])
    /\ Fault("io")
    /\ Goto(p, "cg")
    /\ UNCHANGED <<registryVars, diskVars, kernelVars, locals>>

\* The guest outlives SIGKILL for five seconds: the teardown stops here.
KillGuestFails(p) ==
    /\ At(p, "kill")
    /\ GuestAlive(sb[p])
    /\ Fault("io")
    /\ Return(p)
    /\ UNCHANGED <<registryVars, diskVars, kernelVars>>

\* cgroup::destroy of the recorded cgroup: cgroup.kill takes every process in
\* it, frozen or not, and the directory is removed.
DestroyCgroup(p) ==
    LET i == sb[p] IN
    /\ At(p, "cg")
    /\ \/ /\ CgroupRecorded(i)
          /\ cgroup' = [cgroup EXCEPT ![i] = "removed"]
          /\ guest' = IF Running(i) THEN [guest EXCEPT ![i] = "dead"] ELSE guest
          /\ setup' = IF setup[i] \in {"going", "forked"}
                        THEN [setup EXCEPT ![i] = "gone"] ELSE setup
       \/ ~CgroupRecorded(i) /\ UNCHANGED <<cgroup, guest, setup>>
    /\ Goto(p, "rm")
    /\ UNCHANGED <<registryVars, diskVars, out, locals, faults>>

\* Best effort: the error of cgroup.kill is ignored and the rmdir is given up
\* after 20 attempts.  What runs in the cgroup goes on, and so does the
\* teardown.
DestroyCgroupFails(p) ==
    /\ At(p, "cg")
    /\ CgroupRecorded(sb[p])
    /\ "cgkill" \in Faults /\ faults.count < MaxFaults
    /\ faults' = [count |-> faults.count + 1, spared |-> faults.spared \cup {sb[p]}]
    /\ Goto(p, "rm")
    /\ UNCHANGED <<registryVars, diskVars, kernelVars, locals>>

\* remove_state_dir unlinks the entries in the order readdir returns them.
\* A copy of the upper layer that is under way loses what it had not read.
UnlinkEntry(p) ==
    LET i == sb[p] IN
    /\ At(p, "rm")
    /\ \E e \in disk[i] \ {"dir"} :
         /\ disk' = [disk EXCEPT ![i] = @ \ {e}]
         /\ inode' = [inode EXCEPT ![i] = IF e = "op.lock" THEN 0 ELSE @]
         /\ snapData' = [s \in Snaps |->
              IF e = "upper" /\ snapData[s] = "partial"
                   /\ \E q \in Procs : At(q, "sn_copying") /\ sb[q] = i /\ sn[q] = s
                THEN "short" ELSE snapData[s]]
    /\ UNCHANGED <<registryVars, layer, kernelVars, pc, locals, faults>>

\* The last step of remove_state_dir; a missing directory counts as removed.
RemoveDir(p) ==
    /\ At(p, "rm")
    /\ disk[sb[p]] \subseteq {"dir"}
    /\ disk' = [disk EXCEPT ![sb[p]] = {}]
    /\ Goto(p, "row")
    /\ UNCHANGED <<registryVars, inode, snapData, layer, kernelVars, locals, faults>>

\* Mutant: the error of remove_state_dir is dropped and the row goes all the same.
RemoveDirErrorIgnored(p) ==
    /\ At(p, "rm")
    /\ "dir" \in disk[sb[p]]
    /\ Fault("io")
    /\ Goto(p, "row")
    /\ UNCHANGED <<registryVars, diskVars, kernelVars, locals>>

\* rmdir finds an op.lock that another task created after the entries were
\* listed (ENOTEMPTY), or a removal fails for good: the row stays.
RemoveDirFails(p) ==
    /\ At(p, "rm")
    /\ "dir" \in disk[sb[p]]
    /\ \/ /\ disk[sb[p]] = {"dir", "op.lock"} /\ inode[sb[p]] # fd[p]
          /\ UNCHANGED faults
       \/ Fault("io")
    /\ Return(p)
    /\ UNCHANGED <<registryVars, diskVars, kernelVars>>

\* The row goes last; then the operation returns and the lock is released.
DropRow(p) ==
    /\ At(p, "row")
    /\ RemoveSandbox(sb[p])
    /\ Return(p)
    /\ UNCHANGED <<snapRow, diskVars, kernelVars, faults>>

\* The database fails: a row stays whose state dir is gone.
DropRowFails(p) ==
    /\ pc[p] \in {"row", "rc_drop"}
    /\ Fault("io")
    /\ Return(p)
    /\ UNCHANGED <<registryVars, diskVars, kernelVars>>

TeardownStep(p) ==
    \/ OpenLock(p) \/ LockEx(p) \/ LockFails(p)
    \/ KillGuest(p) \/ KillGuestFails(p)
    \/ DestroyCgroup(p) \/ DestroyCgroupFails(p)
    \/ UnlinkEntry(p) \/ RemoveDir(p) \/ RemoveDirFails(p)
    \/ DropRow(p) \/ DropRowFails(p)
=============================================================================

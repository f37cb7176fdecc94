----------------------------- MODULE NsBackend -----------------------------
(***************************************************************************)
(* The namespace backend: any number of host tasks that spawn, restore,    *)
(* snapshot and destroy sandboxes and reconcile at start-up, interleaved   *)
(* at every await, together with the setup and guest processes they leave  *)
(* running, and tasks that die or are cancelled at any step.               *)
(***************************************************************************)
EXTENDS Spawn, Snapshot, Reconcile

\* destroy looks the sandbox up; a missing row is Ok and nothing happens.
DestroyStart(p) ==
    /\ At(p, "idle") /\ "destroy" \in Ops[p]
    /\ \E i \in Ids : HasRow(i) /\ sb' = [sb EXCEPT ![p] = i]
    /\ op' = [op EXCEPT ![p] = "destroy"]
    /\ Goto(p, "open")
    /\ UNCHANGED <<registryVars, diskVars, kernelVars, fd, sn, froze, todo, faults>>

\* The process dies (its flock goes with it), or the MCP call deadline drops
\* the future of an operation and the server goes on.
Crash(p) ==
    /\ pc[p] \notin {"off", "idle"}
    /\ Fault("crash")
    /\ todo' = [todo EXCEPT ![p] = {}]
    /\ \/ Leave(p, "off")
       \/ op[p] # "reconcile" /\ Leave(p, "idle")
    /\ UNCHANGED <<registryVars, diskVars, kernelVars>>

\* A command is finished and its process exits; the next one reconciles.
Exit(p) ==
    /\ At(p, "idle") /\ "exit" \in Ops[p]
    /\ Goto(p, "off")
    /\ UNCHANGED <<registryVars, diskVars, kernelVars, locals, faults>>

TaskStep(p) ==
    \/ TeardownStep(p) \/ SpawnStep(p) \/ SnapshotStep(p) \/ ReconcileStep(p)
    \/ DestroyStart(p)

Next ==
    \/ \E p \in Procs : TaskStep(p) \/ Crash(p) \/ Exit(p)
    \/ \E i \in Ids : SandboxStep(i)

Spec == Init /\ [][Next]_vars

\* Every task that is in the middle of an operation goes on, a free lock is
\* eventually given to a task that waits for it, setup and guest processes
\* run, uninterruptible system calls end, and a host process ends some day,
\* after which the user starts another one, which reconciles.  SF on RemoveDir:
\* the last unlink and the rmdir are adjacent system calls of one
\* remove_dir_all, so two reconcile passes do not recreate op.lock in each
\* other's window every single time.
Fairness ==
    /\ \A p \in Procs :
         /\ WF_vars(pc[p] # "idle" /\ TaskStep(p))
         /\ SF_vars(LockEx(p))
         /\ SF_vars(Exit(p))
         /\ SF_vars(RemoveDir(p))
    /\ \A i \in Ids :
         /\ WF_vars(SetupFork(i) \/ SetupReportPid(i) \/ SetupFails(i) \/ GuestReady(i))
         /\ WF_vars(FreezeTakes(i))

FairSpec == Spec /\ Fairness

-----------------------------------------------------------------------------
(* Safety *)

Building(p) == op[p] = "spawn" /\ pc[p] \in SpawnPc

TearingDown(p) == pc[p] \in TeardownPc

\* While a spawn builds a sandbox under its op-lock, no destroy and no
\* reconcile pass of another task is anywhere in destroy_inner for it.
SpawnExclusive ==
    \A p, q \in Procs :
        Building(p) /\ TearingDown(q) => sb[p] # sb[q]

\* spawn, registry-first: until its row is inserted a sandbox consists of its
\* directories and its lock file, so an early return, a crash or a cancellation
\* without a rollback leaves no process, no cgroup and no pidfile behind that
\* neither destroy nor reconcile could find.
RegistryFirst ==
    \A i \in Ids : row[i] = "new" =>
        /\ guest[i] = "none" /\ setup[i] = "none" /\ cgroup[i] = "none"
        /\ disk[i] \subseteq {"dir", "upper", "op.lock"}

\* Once destroy, a rollback or reconcile has dropped the row, nothing of the
\* user's data is left on disk: at most an empty state dir that a task which
\* looked the row up too early created again to lock it.
DroppedIsEmpty ==
    \A i \in Ids : row[i] = "dropped" => disk[i] \subseteq {"dir", "op.lock"}

\* destroy_inner and reconcile drop the row of a Ready sandbox only after its
\* guest is gone, whatever becomes of its cgroup: kill_guest's error stops the
\* teardown.  The guest of a spawn that did not get that far, which no pidfile
\* names, survives its row only if it has no cgroup, or if cgroup::destroy,
\* whose failure is ignored, left its cgroup standing.
DropOnlyStopped ==
    [][\A i \in Ids :
         HasRow(i) /\ row'[i] = "dropped" /\ Running(i)
           => row[i] = "creating" /\ (CgroupExists(i) => i \in faults.spared)]_vars

\* While a snapshot that froze its sandbox copies the upper layer, nobody
\* thaws it: reconcile's thaw_if_orphaned stays away from a freeze in use, one
\* that has not taken effect yet included.  Not so where a teardown overtook
\* the copy and left the cgroup standing, with what runs in it.
FreezeHolds ==
    \A p \in Procs :
        froze[p] /\ pc[p] \in {"sn_copy", "sn_copying"} /\ Running(sb[p])
          => Suspended(sb[p]) \/ sb[p] \in faults.spared

\* A snapshot that was returned, or whose task is past the copy, is not
\* removed or rewritten by anyone: not by another snapshot's rollback, not by
\* the destruction of its sandbox, not by reconcile.
SnapshotKept ==
    [][\A s \in Snaps : snapData[s] = "whole" /\ snapRow[s]
         => snapData'[s] = "whole" /\ snapRow'[s]]_vars

-----------------------------------------------------------------------------
(* Liveness, under FairSpec *)

\* A sandbox whose guest is gone, or never came up, loses its row: by its own
\* spawn's rollback, by a destroy, or by a later process's reconcile.
DeadReaped ==
    \A i \in Ids : HasRow(i) /\ ~GuestAlive(i) ~> ~HasRow(i) \/ GuestAlive(i)

\* A live sandbox does not stay suspended, even if the task that froze it died,
\* and even if the freeze took effect only after a reconcile pass looked at it.
FrozenThawed ==
    \A i \in Ids : GuestAlive(i) /\ Suspended(i) ~> ~(GuestAlive(i) /\ Suspended(i))

-----------------------------------------------------------------------------
(* What the comments and the design say, and the code does not do *)

\* reconcile: "Lock free (Ok(Some)) means no operation is in flight and the
\* guest is gone: reap."
ReconcileReapsDead ==
    \A p \in Procs : op[p] = "reconcile" /\ pc[p] = "kill" => ~GuestAlive(sb[p])

\* DESIGN, cancellation safety: spawn "must not leak kernel state unaccounted
\* for": a running guest always has a row that destroy or reconcile can find.
GuestAccounted ==
    \A i \in Ids : guest[i] = "alive" => HasRow(i)

\* DESIGN, restore: "Files come back exactly as captured".
RestoredWhole ==
    \A i \in Ids : row[i] = "ready" => layer[i] # "partial"
=============================================================================

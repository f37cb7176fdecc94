----------------------------- MODULE HostState -----------------------------
(***************************************************************************)
(* The state that every draug host process shares, and the operators over  *)
(* it that all backend operations use: the registry rows, the per-sandbox  *)
(* state directories with their op.lock, the cgroups, the setup and guest  *)
(* processes, the snapshots, and for each host task where it stands in its *)
(* operation.  There is no daemon: several sbx/mcp processes work on this  *)
(* state at once, and any of them may die between two steps.               *)
(*                                                                         *)
(* A task is one spawn/snapshot/restore/destroy call, or the start-up      *)
(* reconcile pass, of one host process.                                    *)
(***************************************************************************)
EXTENDS Naturals, Sequences, FiniteSets

CONSTANTS
    Procs,      \* host tasks
    Ids,        \* sandbox ids (128-bit random in the code, so never reused)
    Snaps,      \* snapshot ids, likewise
    Ops,        \* Ops[p]: the operations task p is asked to perform; "exit" if
                \* it is a command that ends, not the MCP server
    Faults,     \* the kinds of failure that may happen
    MaxFaults,  \* bound: how many of them happen in one behaviour
    MaxInode,   \* inode numbers of op.lock files are 1..MaxInode
    None        \* no sandbox / no snapshot

OpKinds == {"spawn", "restore", "snapshot", "destroy", "exit"}
\* crash: a host task dies or is cancelled; death: a guest dies; lock: op.lock
\* cannot be opened; io: a file, process or database operation fails; setup:
\* setup or the guest fails to come up, or takes too long; cgkill: cgroup.kill
\* is missing (before Linux 5.14), or what it kills is not gone in a second.
FaultKinds == {"crash", "death", "lock", "io", "setup", "cgkill"}

ASSUME NoneAssumption   == None \notin Ids \cup Snaps
ASSUME OpsAssumption    == Ops \in [Procs -> SUBSET OpKinds]
ASSUME FaultsAssumption == Faults \subseteq FaultKinds /\ MaxFaults \in Nat
\* Every task may have one op.lock open that is no longer linked.
ASSUME InodeAssumption  == MaxInode \in Nat /\ MaxInode > Cardinality(Procs)

VARIABLES
    \* registry.db
    row,        \* row[i]: "new" before the insert, "dropped" after the delete
    snapRow,    \* snapRow[s]: the snapshot table holds a row for s
    \* the state root
    disk,       \* disk[i]: what exists of <state_root>/<i>
    inode,      \* inode[i]: the inode that is linked as <i>/op.lock (0: none)
    snapData,   \* snapData[s]: what <state_root>/snapshots/<s> holds
    layer,      \* layer[i]: what the upper layer was seeded from
    \* the kernel
    cgroup,     \* cgroup[i]
    setup,      \* setup[i]: the re-executed setup process
    guest,      \* guest[i]: PID 1 of the sandbox
    out,        \* out[i]: lines in the pipe from setup and guest to the host
    \* the host tasks
    pc,         \* the step task p takes next
    op,         \* the operation it is part of
    sb,         \* the sandbox it works on
    fd,         \* the op.lock inode it has open (0: none)
    sn,         \* the snapshot it reads or writes
    froze,      \* this snapshot froze the cgroup
    todo,       \* rows the reconcile pass has still to look at
    faults      \* faults.count: failures so far; faults.spared, history:
                \* the sandboxes whose cgroup outlived a teardown

registryVars == <<row, snapRow>>
diskVars     == <<disk, inode, snapData, layer>>
kernelVars   == <<cgroup, setup, guest, out>>
locals       == <<op, sb, fd, sn, froze, todo>>
vars         == <<registryVars, diskVars, kernelVars, pc, locals, faults>>

Entries == {"dir", "upper", "op.lock", "guest.pid", "cgroup.path"}

Lines == {"pid", "ready", "err"}

ReconcilePc == {"rc_next", "rc_drop", "rc_try", "rc_thaw", "rc_unfreeze"}
SpawnPc     == {"seed", "insert", "cgroup", "cgfile", "setup",
                "drive", "drive_pid", "pidfile", "ready"}
SnapPc      == {"sn_check", "sn_insert", "sn_freeze", "sn_copy", "sn_copying",
                "sn_thaw", "sn_size", "sn_thaw_err", "sn_undo", "sn_unrow"}
TeardownPc  == {"kill", "cg", "rm", "row"}
Pcs == {"off", "idle", "open", "lock"}
          \cup ReconcilePc \cup SpawnPc \cup SnapPc \cup TeardownPc

RegistryOK ==
    /\ row \in [Ids -> {"new", "creating", "ready", "dropped"}]
    /\ snapRow \in [Snaps -> BOOLEAN]

DiskOK ==
    /\ disk \in [Ids -> SUBSET Entries]
    /\ inode \in [Ids -> 0..MaxInode]
    /\ snapData \in [Snaps -> {"none", "dir", "partial", "short", "whole"}]
    /\ layer \in [Ids -> {"fresh", "whole", "partial"}]

KernelOK ==
    /\ cgroup \in [Ids -> {"none", "thawed", "freezing", "frozen", "removed"}]
    /\ setup \in [Ids -> {"none", "waiting", "going", "forked", "gone"}]
    /\ guest \in [Ids -> {"none", "booting", "alive", "dead"}]
    /\ out \in [Ids -> Seq(Lines)]

FaultLog == [count: 0..MaxFaults, spared: SUBSET Ids]

TasksOK ==
    /\ pc \in [Procs -> Pcs]
    /\ op \in [Procs -> OpKinds \cup {"none", "reconcile"}]
    /\ sb \in [Procs -> Ids \cup {None}]
    /\ fd \in [Procs -> 0..MaxInode]
    /\ sn \in [Procs -> Snaps \cup {None}]
    /\ froze \in [Procs -> BOOLEAN]
    /\ todo \in [Procs -> SUBSET Ids]
    /\ faults \in FaultLog

TypeOK == RegistryOK /\ DiskOK /\ KernelOK /\ TasksOK

Init ==
    /\ row = [i \in Ids |-> "new"]
    /\ snapRow = [s \in Snaps |-> FALSE]
    /\ disk = [i \in Ids |-> {}]
    /\ inode = [i \in Ids |-> 0]
    /\ snapData = [s \in Snaps |-> "none"]
    /\ layer = [i \in Ids |-> "fresh"]
    /\ cgroup = [i \in Ids |-> "none"]
    /\ setup = [i \in Ids |-> "none"]
    /\ guest = [i \in Ids |-> "none"]
    /\ out = [i \in Ids |-> << >>]
    /\ pc = [p \in Procs |-> "off"]
    /\ op = [p \in Procs |-> "none"]
    /\ sb = [p \in Procs |-> None]
    /\ fd = [p \in Procs |-> 0]
    /\ sn = [p \in Procs |-> None]
    /\ froze = [p \in Procs |-> FALSE]
    /\ todo = [p \in Procs |-> {}]
    /\ faults = [count |-> 0, spared |-> {}]

-----------------------------------------------------------------------------
(* Control of a task *)

At(p, l) == pc[p] = l

Goto(p, l) == pc' = [pc EXCEPT ![p] = l]

\* A call returns: its descriptors close, which drops the flock, and its
\* locals are gone.  A teardown that reconcile started returns to the pass.
Leave(p, l) ==
    /\ Goto(p, l)
    /\ op' = [op EXCEPT ![p] = IF l = "rc_next" THEN "reconcile" ELSE "none"]
    /\ sb' = [sb EXCEPT ![p] = None]
    /\ fd' = [fd EXCEPT ![p] = 0]
    /\ sn' = [sn EXCEPT ![p] = None]
    /\ froze' = [froze EXCEPT ![p] = FALSE]

Return(p) ==
    /\ Leave(p, IF op[p] = "reconcile" THEN "rc_next" ELSE "idle")
    /\ UNCHANGED todo

\* One of the failures the configuration allows happens in this step.
Fault(k) ==
    /\ k \in Faults
    /\ faults.count < MaxFaults
    /\ faults' = [faults EXCEPT !.count = @ + 1]

-----------------------------------------------------------------------------
(* Registry *)

HasRow(i) == row[i] \in {"creating", "ready"}

\* remove_sandbox is idempotent: deleting a missing row is Ok.
RemoveSandbox(i) ==
    row' = [row EXCEPT ![i] = IF HasRow(i) THEN "dropped" ELSE @]

-----------------------------------------------------------------------------
(* The op-lock: flock(2) on <state_dir>/op.lock *)

\* flock is on the inode, not on the name: a task that opened op.lock before
\* it was unlinked locks something nobody else can open any more.
Held(p) == fd[p] # 0 /\ pc[p] # "lock"

Busy(i, n) == \E q \in Procs : Held(q) /\ sb[q] = i /\ fd[q] = n

\* A file that is created gets an inode that is neither linked nor open.
NewInodes(i) ==
    {n \in 1..MaxInode : \A q \in Procs : sb[q] = i => fd[q] # n}

\* open(op.lock, O_CREAT): the linked inode, or a new one.
LockInode(i) == IF "op.lock" \in disk[i] THEN inode[i]
                ELSE CHOOSE n \in NewInodes(i) : TRUE

OpenLockFile(i) ==
    /\ "op.lock" \in disk[i] \/ NewInodes(i) # {}
    /\ inode' = [inode EXCEPT ![i] = LockInode(i)]

-----------------------------------------------------------------------------
(* Liveness as the kernel reports it *)

\* A pidfile whose pid and starttime name a process that is no zombie.
GuestAlive(i) == "guest.pid" \in disk[i] /\ guest[i] = "alive"

Running(i) == guest[i] \in {"booting", "alive"}

CgroupExists(i) == cgroup[i] \in {"thawed", "freezing", "frozen"}

-----------------------------------------------------------------------------
(* The freezer *)

\* A cgroup that the state dir names and that is there.
CgroupRecorded(i) == "cgroup.path" \in disk[i] /\ CgroupExists(i)

\* The freeze is asked for, and takes effect when every task has stopped.
Suspended(i) == cgroup[i] \in {"freezing", "frozen"}

\* freeze writes "1" and waits for "frozen 1", but not longer than two seconds.
FreezeCgroup(i) ==
    \E f \in {"freezing", "frozen"} : cgroup' = [cgroup EXCEPT ![i] = f]

\* The last task of the cgroup leaves its uninterruptible call and stops.
FreezeTakes(i) ==
    /\ cgroup[i] = "freezing"
    /\ cgroup' = [cgroup EXCEPT ![i] = "frozen"]
    /\ UNCHANGED <<registryVars, diskVars, setup, guest, out, pc, locals, faults>>

\* unfreeze writes "0", which also ends a freeze that has not taken effect.
UnfreezeCgroup(i) ==
    cgroup' = IF Suspended(i) THEN [cgroup EXCEPT ![i] = "thawed"] ELSE cgroup

\* is_frozen goes by cgroup.events, which knows nothing of a pending freeze.
ThawFrozen(i) ==
    cgroup' = IF cgroup[i] = "frozen" THEN [cgroup EXCEPT ![i] = "thawed"] ELSE cgroup
=============================================================================

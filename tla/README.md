# draug: a TLA+ model of the sandbox backend

draug runs commands in throw-away Linux sandboxes. There is no daemon: several
`sbx` commands and MCP servers work on the same SQLite registry, the same state
directories and the same cgroups at once, and any of them may be killed between
two system calls. The sandboxes outlive the processes that made them. The code
keeps this together with one `flock` per sandbox, a fixed order of steps, and a
reconcile pass that every process runs when it starts. Inside a sandbox, PID 1
runs commands for whoever connects to its socket, with five threads per command.

This project models the sandbox protocol, the execution of commands from the
host's handle to the guest's processes, the quotas and deadlines of the MCP
server, and the copy and diff of a sandbox's layer. It checks them with TLC, and
proves every invariant and action property that the runs check, and the
refinement of `ExecPromise`, with TLAPS; liveness is only model-checked.

## Inventory

| Part | State | Operations | Correct when |
| --- | --- | --- | --- |
| Registry (`draug-core/src/registry.rs`) | sandbox and snapshot rows | insert, look up, set state, delete | rows go last, after what they account for |
| Backend: spawn, restore (`draug-ns/src/linux/backend.rs`) | state dir, op.lock, pidfile, cgroup path | seed, insert, cgroup, setup, drive, Ready, rollback | nobody tears down a sandbox that is being built; no process is left unaccounted for |
| Backend: destroy | the same | lock, kill, cgroup, remove dir, drop row | idempotent, finished by somebody after a crash, data gone when the row is gone |
| Backend: snapshot | snapshot dir and row, freezer | recheck, record, freeze, copy, thaw, undo | copies a quiet layer, never loses a finished snapshot, never leaves a sandbox frozen |
| Backend: reconcile | none of its own | thaw, drop, reap | reaps only what is dead, leaves operations in flight alone |
| Setup process (`setup.rs`), guest start (`draug-guest/src/server.rs`) | namespaces, pipe to the host | wait for maps, build, fork, "pid", "ready" | the host learns which process to account for |
| Guest router (`server.rs`) | waiters, parked statuses, queue | reap, route, wait_child | every exec gets its own status; memory of PID 1 is bounded |
| Guest exec connections (`server.rs`) | child, pumps, watchdog, flags | run, time out, cancel, terminal frame | one terminal frame, no runaway process |
| Host exec relay (`backend.rs`, `draug-core/src/exec.rs`) | a socket and a channel per exec | connect, relay, receive, drop | events in order, exactly one terminal event, a dropped handle kills |
| MCP server (`draug-cli/src/mcp.rs`) | create gate, call deadline, captured output | create, restore, exec, destroy | quota kept, guest deadline below host deadline, capture bounded and exact |
| Layer copy (`fscopy.rs`), diff (`diff.rs`) | the layer | copy_tree, diff_upper | a restored layer shows the same files; the diff is the difference from the base |
| uid maps, re-exec helpers, wire protocol | none | pure or one-shot | |

The parts meet in five places: the registry (rows), the file system (state dir
and op.lock), the kernel (cgroup, pidfile's process), the pipe from setup and
guest to the host, and the socket of every exec. The hard behaviour is all
there: a decision taken before a lock and used after it, a lock file that is
deleted by its holder, two processes writing to one pipe, crashes at every
await and cleaning up after them, threads that block on a full socket while
others wait for them, a deadline that races an exit, a future that is dropped
while its work goes on. `PROJECT.json` lists the hazards line by line.

## Modules

| Module | Models |
| --- | --- |
| `HostState` | the shared state, the constants with their assumptions, the op-lock and the freezer |
| `Teardown` | waiting for the op-lock; `destroy_inner` |
| `Spawn` | `spawn`, `restore`, `do_spawn`; the setup process and the guest's start |
| `Snapshot` | `snapshot` |
| `Reconcile` | `reconcile`, `thaw_if_orphaned` |
| `NsBackend` | all of them together, `destroy`, crashes; the properties |
| `MCNsBackend` | which task may do what in the runs |
| `Router` | `reaper`, `route`, `wait_child` |
| `ExecPromise` | abstract: what the holder of an `ExecHandle` may rely on |
| `ExecConn` | `exec`, the relay task and `next_event` on the host, the socket, `handle_conn` with its pumps, watchdog and completion thread; extends `Router`, and implements `ExecPromise` |
| `Mcp`, `MCMcp` | the server's `create`, `restore`, `exec` and `destroy` with gate, quota and deadlines, beside the command line |
| `Layer`, `MCLayer` | overlayfs (external), `copy_tree`, `diff_upper` |
| `NsBackendTypes`, `NsBackendProofs`, `RegistryProofs`, `FreezeProofs` | theorems about `NsBackend` |
| `RouterProofs`, `ExecConnProofs` | theorems about `Router` and `ExecConn`, the refinement of `ExecPromise` included |
| `McpProofs` | theorems about `Mcp` |
| `LayerProofs` | theorems about `Layer` |

A *task* is one call of the backend, or one reconcile pass, in one host process.
`pc` names its next step, and every `await` or system call at which another task
can act is a step boundary. `Leave` is the end of a call: the descriptors close,
and with them the flock. `Fault(k)` guards every step in which something fails;
a configuration chooses the kinds (`Faults`) and how many per behaviour
(`MaxFaults`). Actions with `Fails` in their name are the error paths. The kinds
are a crash, a guest's death, an I/O error, a setup that fails, a lock that
cannot be opened, and `cgkill`: `cgroup::destroy` neither kills nor removes the
cgroup, because `cgroup.kill` cannot be written (it needs Linux 5.14) or because
20 rmdirs were not enough, and the teardown goes on all the same.
`faults.spared` is a history of the sandboxes to which this happened; no action
reads it, and the properties use it to say what they do not cover.

The op-lock is modelled as it is: `flock` locks an inode, `op.lock` is a
directory entry, and `remove_state_dir` unlinks it while it is held. So `fd`
holds an inode number, `inode` the one that is linked, and a task that waits on
an unlinked inode gets a lock nobody else contends for.

What a directory holds is a set of entries (`dir`, `upper`, `op.lock`,
`guest.pid`, `cgroup.path`); what a snapshot holds is `dir` (nothing yet),
`partial` (being copied), `short` (a teardown removed files before they were
read) or `whole`. `work`, `rt` and `root` come and go with `upper`.

A freeze writes `cgroup.freeze` and then waits two seconds for `frozen 1`. The
kernel may take longer, so a cgroup is `thawed`, `freezing` or `frozen`:
`FreezeCgroup` ends in either of the last two, and `FreezeTakes` is the kernel's
own step. `is_frozen` reads what has happened, not what was asked for.

`ExecConn` takes every action of `Router` and adds to it: `SpawnChild` starts a
child, `WaitChild` is the completion thread's `wait_child`, and Router's orphans
are the background processes that commands leave behind, in the command's group
or out of it, with or without its output pipes open. Each of the five threads
of a connection has its variable (`conn`, `pump` twice, `dog`, `fin`), and each
access to the atomics `done` and `timed_out` is a step. `ReapUnknown` is the
`Err(_)` arm of the reaper's `waitpid`: nix has taken the child off the kernel's
list and then cannot decode its status, which happens for a child that died of a
real-time signal (constant `RealTime`), so the status is lost. A frame is a model
value; what matters is that a write blocks while the socket is full, that it
fails once the host has closed, and that the relay blocks on a full channel.

`ExecPromise` knows nothing of sockets or threads: a command writes, falls quiet
when nobody is left who could write, and the handle is told Started, output, and
one end. The refinement mapping computes "quiet" from the processes that hold
the pipes, so an early Exited, lost output before an Exited, or a timeout nobody
asked for would be a step that the abstract specification does not have.

In `Mcp` a create is a sequence of awaits (gate, quota check, spawn up to the
insert, insert, the rest of spawn), and the call deadline may drop the future at
each of them. The insert runs in the blocking pool and is not recalled
(`pending`, `late`). Exec calls live on a clock of whole seconds; timers that
are due fire before the clock moves on.

`Layer` keeps two descriptions of a sandbox's files: the entries of the layer,
which the code copies and diffs, and the plain tree `view` that each operation
of a command changes directly. The properties compare the two. The tree of
paths is a constant (`Parent`); `Above[p]`, the directories above a path, is the
least set that has `Parent[p]` and is closed upwards, and `TreeAssumption` says
that no path is above itself.

Abstractions to know about:

- Ids are drawn at random from 128 bits, so an id is never drawn twice.
- A cancelled call ends at once. In the code a `flock` or a copy already handed
  to a blocking thread runs on, and its result is dropped when it ends.
- `remove_dir_all` removes the upper layer in one step, and readdir order is
  arbitrary. The cleanup helper does the same removal in another process.
- A lock that fails does so before the lock file exists; the directory may have
  been created. `create_dir_all` and `open` of `op.lock` are one step, and so are
  `open` and `flock` of reconcile's non-blocking attempt: an rmdir between the two
  makes the attempt fail, which is what a lock that cannot be opened does.
- A teardown's rmdir that finds the directory gone counts as its own, as in the
  code; so the row may go while the other remover is still at its last unlink.
- A reconcile pass that cannot list the sandboxes ends; it is a pass that was not
  started. The directory of a snapshot is new because its id is.
- A setup process that finds its directories removed (a cancelled spawn that was
  torn down without a cgroup) makes the state dir once more, empty, and fails. A
  limit that cannot be written leaves an empty cgroup that nothing records.
- `thread::spawn` does not fail: that a thread of a connection cannot be created
  under a tight `pids.max` is left out. A completion thread panics only on a pid
  collision, which needs reuse; the thread that joins it then never ends.
- The guest's timeout answer takes no time in `Mcp`: an answer due in the same
  second as the deadline arrives before it.
- A snapshot whose freeze has not taken effect goes on, as in the code; which
  files its copy then misses is not modelled.
- In `Router` the status of a child is the child itself; an exec whose
  connection fails right after the spawn behaves like an orphan. In
  `ExecConn` it is a child without a completion thread, as in the code.
- The host never sends `Stdin` frames, so the guest's stdin path is left out.
- The bytes of a chunk do not matter to `ExecConn`; `Mcp` counts them.
- In `Layer` there are files and directories. Renames, symlinks, hard links,
  modes and owners are left out, and a copy is one step that succeeds; what
  happens to a copy while other tasks run, or when it fails, is in `Snapshot` and
  `Spawn`. A base symlink to a directory that was replaced by a directory, which
  `walk` would follow, is therefore not covered.

## Runs

| Run | Instance | Checks |
| --- | --- | --- |
| `lifecycle` | 3 tasks, 1 sandbox, 2 failures, `cgkill` included | `TypeOK`, `SpawnExclusive`, `RegistryFirst`, `DroppedIsEmpty`, `DropOnlyStopped` |
| `snapshots` | 2 tasks, 2 sandboxes, 2 snapshots, 1 failure, locks may fail | `SnapshotKept` |
| `recovery` | 2 tasks, 1 sandbox, 1 snapshot, 1 failure, `cgkill` included, fair | `FreezeHolds`, `DeadReaped`, `FrozenThawed` |
| `router` | 2 execs, 2 orphans, cap 1, statuses that cannot be decoded, fair | `TypeOK`, `NeverBoth`, `ParkedBounded`, `OwnStatus`, `NoVainWait`, `Told` |
| `exec` | 1 exec, 1 background process, 1 stream, socket and channel of 1, 2 chunks, fair | `ConnTypeOK`, `TimeoutTold`, `Supervised`, `KeepsPromise`, `Answered`, `CancelKills` |
| `quota` | 2 servers, 3 creates, quota 1, 1 sandbox of the CLI, 1 exec, fair | `TypeOK`, `QuotaKept`, `BackstopOnly`, `CaptureExact`, `CreateAnswered` |
| `diff` | a tree of 6 paths, 4 deep | `TypeOK`, `RestoreExact`, `DiffExact` |
| `reap_race`, `stray_guest`, `early_restore`, `queue_leak`, `deadline` | without failures | one statement of the documentation each, violated |

Bounds. Three tasks are the least number in which two teardowns meet a spawn:
one holds an unlinked lock, one creates a new one. Two failures allow a crash
and a failure of the recovery from it. Locks are per sandbox and rows are
independent, so a second sandbox only matters where a snapshot of one seeds the
other (`snapshots`), and a second snapshot only where the rollback of one could
reach the other (`snapshots` again; there each task runs until both sandboxes
and both snapshots are used up, so the run may stop). `MaxInode` is one more than the number of tasks, which is
what `InodeAssumption` demands: every task may keep one unlinked inode open.
A cap of one parked status makes every second parking evict. The symmetry sets
(two like destroyers, two like sandboxes and snapshots) are used in runs without liveness.

Connections share nothing but the router, which `router` checks with several
execs, so `exec` has one. A socket and a channel of one frame each block at the
second frame, and with Started, two chunks and the terminal frame everybody
blocks on everybody. With two streams and one chunk the same properties hold;
the pumps differ in nothing but their pipe. In `quota` two creates meet at one
gate and a third passes another; the reserve is 2 s, a call timeout of 2 s is
used up by it and one of 3 s is not, chunks of two against a capture of three cut in the middle
of a chunk. In `diff` TLC starts from every base over the six paths (53 of them)
and takes every sequence of changes; depth four has room for a deletion below a
directory that was made again below one that was made again.

Fairness (`recovery`). A task in the middle of an operation goes on (weak): a
tokio task is scheduled. `LockEx` is strongly fair: the kernel hands a contended
flock to a waiter some day. `Exit` is strongly fair: commands end and users
start others, which reconcile. Setup and guest processes run (weak). `RemoveDir`
is strongly fair, and this matters: two reconcile passes could for ever recreate
`op.lock` between each other's last unlink and rmdir; these are adjacent system
calls of one `remove_dir_all`, so they do not do so every time. In `router` the
reaper and the completion threads run (weak); processes need not exit.
`FreezeTakes` is weakly fair: system calls that delay a freeze end.

In `exec` the guest's threads, the relay task and the caller's read loop run,
time passes, and a process that was sent SIGKILL dies (all weak). Commands need
not end, write or read, callers need not drop anything, and the guest need not
die. In `quota` futures are polled and the blocking pool works (weak), but
`CreateAnswered` does not lean on the deadline: it is not a fair action.

### What holds, and what does not

With any failure but a lock that cannot be opened, no teardown touches a
sandbox that a spawn is building, a dropped row leaves no data, and the row of a
Ready sandbox is dropped only when its guest is gone, also if its cgroup cannot
be killed: the pidfile names the guest, and `destroy_inner` stops at a kill that
fails. A guest without a pidfile, whose spawn was cancelled or rolled back after
the fork, is killed by its cgroup alone; it outlives its row where there is no
cgroup or `cgroup::destroy` failed. So `DropOnlyStopped` allows this for a row
in state `creating` and for a cgroup in `faults.spared`, and nothing else.
`FreezeHolds` has the same exception: a teardown that overtook the copy and could
not kill the cgroup has unlinked `op.lock`, and others may lock a new one and
thaw.

`destroy` goes on without a lock that it cannot open (`.ok()`; the comment says
"there is nothing to lock against"), and then none of these four holds; the
theorems carry the assumption `"lock" \notin Faults`. With two tasks such a
destroy leaves no data behind, with three it does: one destroys without the lock
and removes the directory, another makes it again in order to lock it, the spawn
writes `cgroup.path` into it, and the first drops the row. A finished snapshot
survives also this (`snapshots`).

Several properties hold with exceptions that the code really has, and state
them:

- `Answered`: an exec with a deadline ends, unless a background process keeps
  its output open, either outside the group or because the command had exited
  before the deadline, or its status could not be decoded.
- `NoVainWait`, `Told`: a status reaches its exec unless it was evicted at the cap
  or could not be decoded (`server.rs:147`).
- `CancelKills`: a dropped handle kills its command, unless `Started` could not
  be written (`handle_conn` returns with the child running), or the command has
  no deadline and writes nothing: the relay notices a closed channel only when
  it has something to send.
- `QuotaKept`: the gate is per server, so each further server may add one row
  beyond the quota; the command line has no quota; and an insert whose call was
  dropped may land after the gate went to the next call. The last needs one
  server only, and `mcp.rs:18-19` says that "racing `sandbox_create` calls can't
  overshoot it".
- `BackstopOnly`: the guest's timeout fires before the host's deadline only if
  starting the command took less than the reserve, or less than the call
  timeout less one second where the reserve does not fit. With a call timeout of
  1 s that is nothing: guest and host both have one second, although
  `mcp.rs:143` says "always fires before the host call deadline" and `mcp.rs:349`
  "strictly inside the host deadline".
- `DiffExact`: `diff.rs:16-17` says the walk reports "every path it adds,
  modifies, or deletes". Where a directory was deleted and made again with a
  subdirectory that the base has as well, the subdirectory carries no opaque
  mark of its own, the walk takes it for merged, and the base's entries in it,
  which are gone, are not reported. `Overlooked` is exactly this case.

Five statements of comments and design notes do not hold:

- `reap_race`: reconcile looks at the guest before it takes the lock and not
  again afterwards; it can kill a sandbox that has just become Ready.
- `stray_guest`: the guest's "ready" can overtake setup's "pid". Without a
  cgroup, the rollback then drops the row of a guest that keeps running.
- `early_restore`: a snapshot can be restored while it is being copied.
- `queue_leak`: claimed statuses stay in the router's queue.
- `deadline`: a command that exits and leaves a background process with its
  output open gets neither an Exit nor a timeout, whatever its deadline.

## Proofs

All theorems hold for every number of tasks, sandboxes, snapshots, children,
pids, execs, streams, servers and calls, every tree of paths, every set of
operations, every limit and capacity, and every number of failures. They assume
what the modules' `ASSUME`s say of the constants (TLC evaluates these in the
runs), and where a further hypothesis is needed it is part of the theorem:

- `"lock" \notin Faults` for what rests on the op-lock;
- `Recycle = FALSE` where a reused pid really breaks the property: the wrong
  status is delivered, or `kill_group` kills another exec's command.

Every inductive invariant was checked by TLC before it was proved.

### The sandbox protocol

`NsBackendTypes` proves `TypeCorrect` (`Spec => []TypeOK`) without any
assumption about failures. The invariant is `TypeOK` together with `Assigned`
(a task inside an operation has a sandbox), without which the functional updates
at `sb[p]` could not be typed.

`NsBackendProofs` proves `SpawnIsExclusive`, `DroppedLeavesNothing` and
`DropsOnlyStopped` from one inductive invariant, a conjunction of

- `Control`: which operation each `pc` belongs to and when a lock is open;
- `Locking`: one holder per inode, and a directory entry `op.lock` exactly when
  an inode is linked;
- `Fresh`: an id without a row belongs to the one spawn that drew it;
- `Build`: a spawn past its lock holds the inode that is *linked*, and every
  other task on that sandbox is still outside. This is the point of the
  argument: unlinking `op.lock` is a teardown step, teardowns are excluded while
  a spawn holds the linked inode, so the inode stays linked, so whoever comes
  later contends for it;
- `Stages`, `Said`: how far the build is, and what the lines in the pipe imply;
- `Gone`: a row is dropped only after the directory was emptied, and nobody puts
  anything but `op.lock` back;
- `Recorded`: a Ready sandbox that runs has a pidfile, and the guest that it names
  is dead once a teardown is past the kill;
- `Covered`: a cgroup in which something runs is named by `cgroup.path`, and none
  is left once a teardown has been through it, except for the spared ones. That
  the history only grows (`Sparing`) is proved once, for every step.

None of the three properties is inductive alone: each needs to know who may
write the directory, and that needs the lock. Each action has its lemma;
`NextInv` puts them together.

`RegistryProofs` proves `RegistryIsFirst` and the action property
`SnapshotsAreKept`. Neither needs the lock, so neither assumes that it can be
opened. `Unlisted` says that only the spawn that drew an id, and only before its
insert, knows of a sandbox without a row; `Owned` says that a snapshot in the
making belongs to one task and is not whole before its copy has ended, so the
undo of one snapshot cannot reach another.

`FreezeProofs` proves `FreezesHold` on top of the invariant of
`NsBackendProofs`. A copy's lock may have been unlinked under it by a teardown,
and then a second task may lock a new `op.lock` and thaw. `Overtaken` says why
this does no harm: by then the teardown has killed what ran in the cgroup, or
failed, which is the exception in `FreezeHolds`.
`StillFrozen` (while a copy goes on, the cgroup is frozen or nothing can run in
it) is only inductive together with it.

### Execution of commands

`RouterProofs` proves `RouterTypes`, `NoLostWakeup`, `OrphansBounded`,
`StatusIsOwn` and `WaitIsNotVain`. Its invariant adds `Linked` (a registered
thread waits under its own pid, a parked status is under its own pid) and,
without pid reuse, `Unmixed` (a pid names one child, the status of a child whose
thread has not asked yet is parked under that pid, evicted or lost, and a thread
with a status has that of a child that is gone). That every parked pid is in the
queue, the second half of `ParkedBounded`, is what makes the eviction loop find
a victim, so the two halves are only inductive together.

`ExecConnProofs` first shows that every step of `ExecConn` is a step of `Router`
or a stutter (`ConnRoutes`), so that the router's invariant can be used. Then,
for each exec `k`:

- `Control(k)`: which threads exist at which point of a connection, what the
  flags `done` and `timed_out` say of them, and (`Drained`) that a pump ends only
  at the end of its pipe as long as the host listens;
- `Order(k)`: Started comes first and a terminal frame last on the socket and in
  the channel, and neither comes twice;
- `Flow(k)`: the conservation of output. What was produced is in a pipe, on the
  socket, in the channel or told, and nothing is lost before the host closes its
  end; behind an Exited or a timeout there is nothing left;
- `Verdict(k)`: a watchdog that kills has set `timed_out` before, an Exited is
  not on its way for a command that the watchdog killed, and a running command
  has its watchers.

`ConnTyping` follows from the first three: that the told output never exceeds
the produced is part of it. `ExecKeepsPromise` is the refinement: the initial
states map to initial states of `ExecPromise`, and each action of `ExecConn` to a
step of it or a stutter. The step that needs the most is the receipt of Exited,
which `ExecPromise` allows only when the command is quiet and all its output was
told; this is the last conjunct of `Flow`. It needs nothing about pids, so pids
may be reused. `TimeoutIsTold` and `NoneUnsupervised` follow from `Verdict`.

### The MCP server

`McpProofs` proves `Typing`, `CaptureIsExact`, `DeadlineIsBackstop` and
`QuotaIsKept`. `Timer` relates the age of a call, the start of its command and
its clamped timeout: a command that is not stuck is never older than its
timeout. `Quota` is inductive because it counts the rows together with the calls
that have passed the check and not inserted yet (`Counted`); `Gated` says that
such a call holds its server's gate, so there is at most one per server. At a
check that passes, at most one call of each *other* server is uncounted, which
is where the "one more per further server" comes from.

### The layer

`LayerProofs` proves `LayerTypes`, `RestoresExactly` and `DiffIsExact`. What is
above a path is a least closed set, so facts about the tree (`AboveAbove`,
`AboveStep`, `AboveChild`, `AboveLinear`) are proved by naming a closed set that
contains it, without induction. `RestoreExact` is inductive with `BaseTree` (all
that the base has is in directories). The argument is local: an operation at `p`
only copies up above `p`, which hides nothing (`CopyUpRest`), and below `p` there
is nothing to be seen, before and after. `DiffExact` needs no invariant of its
own: it follows from the two in every state. `DeletedSound` and
`DeletedComplete` are its two halves; for the second, the lowest directory with
an entry above a deleted path decides who reports it, and if that is a plain
directory below an opaque one, nobody does (`Overlooked`).

Proving this also corrected the model: two guards of the `CASE` in `WalkEntry`
overlapped (a whiteout where the base has nothing), which TLC resolves by order
and TLA+ does not.

### Only model-checked

Liveness (`DeadReaped`, `FrozenThawed`, `Told`, `Answered`, `CancelKills`,
`CreateAnswered`): its proof needs `ENABLED` and the fairness rules, which are
outside what TLAPS proves here. The five runs that end in a violation are
counterexamples, and there is nothing to prove about them.

## Not modelled

- Mounts and the layout of the root file system, cgroup limits and delegation,
  reflinks, modes, owners: sequences of system calls without a decision that
  another actor could invalidate; each is one step that works or fails.
- Names and the id-or-name lookup of the registry, its columns and migration,
  `parse_subid`, the frame encoding, JSON, argument parsing, output shaped into
  lines, error texts: pure functions without state, which unit tests reach.
- A blocking call that goes on after its future was dropped, except for the
  registry's insert in `Mcp`. In `NsBackend` a cancelled call ends at once.
- Pid reuse is modelled (`Recycle`) but not run: the size of the pid space makes
  its absence the normal case. With two execs and one pid that is reused, TLC
  finds `TimeoutTold` and `Supervised` violated (a watchdog kills the command
  that got its own command's pid), and `OwnStatus` and `NoVainWait` are stated
  for pids that are not reused. All other theorems cover reuse.
- The non-Linux stub and the guest's entry point.

## Plan

Every component with state of its own is modelled, and every invariant, action
property and refinement of the passing runs is proved. What remains:

1. Simplify the longest proofs (`ExecConnProofs`), where several lemmas about
   steps that leave an exec alone say almost the same.
2. State what a snapshot and a restore promise together (a restored sandbox
   starts from a whole copy) for the case without an early restore.

A client's view of a sandbox (absent, creating, ready, gone) as an abstract
specification of `NsBackend` was considered and dropped: with `reap_race` and
`stray_guest` in the code, what it could still promise is what `DropOnlyStopped`
and `DroppedIsEmpty` say.

------------------------------- MODULE Spawn -------------------------------
(***************************************************************************)
(* NsBackend::spawn and do_spawn (restore is a spawn seeded from a         *)
(* snapshot), with the two processes they start: the re-executed setup     *)
(* process, which waits for the uid maps, builds the sandbox and forks the *)
(* guest, and the guest up to the line that says it accepts connections.   *)
(* Both write to one pipe, and both outlive the host task that started     *)
(* them if it dies.                                                        *)
(***************************************************************************)
EXTENDS Teardown

\* The caller asks for a plain sandbox, or restore finds the snapshot's row.
SpawnAsked(p, s) == IF s = None THEN "spawn" \in Ops[p]
                                ELSE "restore" \in Ops[p] /\ snapRow[s]

\* A random id and its directories.
SpawnMkdir(p) ==
    /\ At(p, "idle")
    /\ \E i \in Ids, s \in Snaps \cup {None} :
         /\ row[i] = "new" /\ disk[i] = {}
         /\ SpawnAsked(p, s)
         /\ disk' = [disk EXCEPT ![i] = {"dir", "upper"}]
         /\ sb' = [sb EXCEPT ![p] = i]
         /\ sn' = [sn EXCEPT ![p] = s]
    /\ op' = [op EXCEPT ![p] = "spawn"]
    /\ Goto(p, "open")
    /\ UNCHANGED <<registryVars, inode, snapData, layer, kernelVars,
                   fd, froze, todo, faults>>

\* Mutant: the sandbox is built before its row is inserted.
SpawnSeedSkipsInsert(p) ==
    /\ At(p, "seed")
    /\ Goto(p, "cgroup")
    /\ UNCHANGED <<registryVars, diskVars, kernelVars, locals, faults>>

\* Seed the upper layer under the op-lock.  The snapshot is looked up again;
\* what is copied is whatever its directory holds at that moment.
SpawnSeed(p) ==
    /\ At(p, "seed")
    /\ \/ sn[p] = None /\ UNCHANGED layer
       \/ /\ sn[p] # None /\ snapRow[sn[p]]
          /\ snapData[sn[p]] \in {"partial", "short", "whole"}
          /\ layer' = [layer EXCEPT ![sb[p]] =
                         IF snapData[sn[p]] = "whole" THEN "whole" ELSE "partial"]
    /\ Goto(p, "insert")
    /\ UNCHANGED <<registryVars, disk, inode, snapData, kernelVars, locals, faults>>

\* The snapshot's row or its upper directory is gone, or the copy fails: spawn
\* returns the error at once and the new state dir stays behind without a row.
SpawnSeedFails(p) ==
    /\ At(p, "seed") /\ sn[p] # None
    /\ \/ /\ ~snapRow[sn[p]] \/ snapData[sn[p]] \in {"none", "dir"}
          /\ UNCHANGED faults
       \/ Fault("io")
    /\ Return(p)
    /\ UNCHANGED <<registryVars, diskVars, kernelVars>>

\* Mutant: the row is inserted with a state that spawn never records.
SpawnInsertStopped(p) ==
    /\ At(p, "insert")
    /\ row' = [row EXCEPT ![sb[p]] = "stopped"]
    /\ Goto(p, "cgroup")
    /\ UNCHANGED <<snapRow, diskVars, kernelVars, locals, faults>>

SpawnInsert(p) ==
    /\ At(p, "insert")
    /\ row' = [row EXCEPT ![sb[p]] = "creating"]
    /\ Goto(p, "cgroup")
    /\ UNCHANGED <<snapRow, diskVars, kernelVars, locals, faults>>

\* The name is taken or the database fails: same early return.
SpawnInsertFails(p) ==
    /\ At(p, "insert")
    /\ Fault("io")
    /\ Return(p)
    /\ UNCHANGED <<registryVars, diskVars, kernelVars>>

\* cgroup::create: best effort without limits, so there may be none.
SpawnCgroup(p) ==
    /\ At(p, "cgroup")
    /\ \/ cgroup' = [cgroup EXCEPT ![sb[p]] = "thawed"] /\ Goto(p, "cgfile")
       \/ UNCHANGED cgroup /\ Goto(p, "setup")
    /\ UNCHANGED <<registryVars, diskVars, setup, guest, out, locals, faults>>

\* A limit cannot be enforced: spawn rolls back, and a cgroup whose limits
\* could not be written stays behind, unrecorded and empty.
SpawnCgroupFails(p) ==
    /\ At(p, "cgroup")
    /\ Fault("io")
    /\ cgroup' \in {cgroup, [cgroup EXCEPT ![sb[p]] = "thawed"]}
    /\ Goto(p, "kill")
    /\ UNCHANGED <<registryVars, diskVars, setup, guest, out, locals>>

SpawnRecordCgroup(p) ==
    /\ At(p, "cgfile")
    /\ "dir" \in disk[sb[p]]
    /\ disk' = [disk EXCEPT ![sb[p]] = @ \cup {"cgroup.path"}]
    /\ Goto(p, "setup")
    /\ UNCHANGED <<registryVars, inode, snapData, layer, kernelVars, locals, faults>>

\* Start the setup process; it unshares its user namespace and waits.
SpawnSetup(p) ==
    /\ At(p, "setup")
    /\ setup' = [setup EXCEPT ![sb[p]] = "waiting"]
    /\ Goto(p, "drive")
    /\ UNCHANGED <<registryVars, diskVars, cgroup, guest, out, locals, faults>>

\* "unshared": write the uid maps, move setup into the cgroup, answer "go".
SpawnGo(p) ==
    /\ At(p, "drive")
    /\ setup[sb[p]] = "waiting" /\ cgroup[sb[p]] # "removed"
    /\ setup' = [setup EXCEPT ![sb[p]] = "going"]
    /\ UNCHANGED <<registryVars, diskVars, cgroup, guest, out, pc, locals, faults>>

-----------------------------------------------------------------------------
(* The setup process and the guest, as independent actors *)

Driver(p, i) == sb[p] = i /\ pc[p] \in {"drive", "drive_pid"}

Driven(i) == \E p \in Procs : Driver(p, i)

\* println! to a pipe whose reader is gone panics; otherwise the line is queued.
Say(i, line) ==
    out' = IF Driven(i) THEN [out EXCEPT ![i] = Append(@, line)] ELSE out

\* Setup fails before the fork, or its stdin closes before "go", or a teardown
\* has removed its directories: then it makes its mount point, and the state
\* dir with it, once more.
SetupFails(i) ==
    /\ \/ setup[i] \in {"waiting", "going"} /\ Fault("setup") /\ UNCHANGED disk
       \/ setup[i] = "waiting" /\ ~Driven(i) /\ UNCHANGED <<disk, faults>>
       \/ /\ setup[i] = "going" /\ "upper" \notin disk[i]
          /\ disk' = [disk EXCEPT ![i] = @ \cup {"dir"}]
          /\ UNCHANGED faults
    /\ setup' = [setup EXCEPT ![i] = "gone"]
    /\ Say(i, "err")
    /\ UNCHANGED <<registryVars, inode, snapData, layer, cgroup, guest, pc, locals>>

SetupFork(i) ==
    /\ setup[i] = "going"
    /\ setup' = [setup EXCEPT ![i] = "forked"]
    /\ guest' = [guest EXCEPT ![i] = "booting"]
    /\ UNCHANGED <<registryVars, diskVars, cgroup, out, pc, locals, faults>>

\* The parent side of the fork reports the guest's pid and exits.
SetupReportPid(i) ==
    /\ setup[i] = "forked"
    /\ setup' = [setup EXCEPT ![i] = "gone"]
    /\ Say(i, "pid")
    /\ UNCHANGED <<registryVars, diskVars, cgroup, guest, pc, locals, faults>>

\* The child side binds its socket and prints "ready", in no order with the
\* parent's "pid"; without a reader the print panics and the guest is gone.
GuestReady(i) ==
    /\ guest[i] = "booting"
    /\ guest' = [guest EXCEPT ![i] = IF Driven(i) THEN "alive" ELSE "dead"]
    /\ Say(i, "ready")
    /\ UNCHANGED <<registryVars, diskVars, cgroup, setup, pc, locals, faults>>

GuestBootFails(i) ==
    /\ guest[i] = "booting"
    /\ Fault("setup")
    /\ guest' = [guest EXCEPT ![i] = "dead"]
    /\ Say(i, "err")
    /\ UNCHANGED <<registryVars, diskVars, cgroup, setup, pc, locals>>

\* A guest dies on its own: killed, out of memory, or the host rebooted.
GuestDies(i) ==
    /\ guest[i] = "alive"
    /\ Fault("death")
    /\ guest' = [guest EXCEPT ![i] = "dead"]
    /\ UNCHANGED <<registryVars, diskVars, cgroup, setup, out, pc, locals>>

-----------------------------------------------------------------------------
(* The host reads the lines *)

\* Any error while driving setup, and the 20 s timeout, kills the setup
\* process (only that one) and rolls back under the lock that is held.
AbortSetup(p) ==
    /\ setup' = [setup EXCEPT ![sb[p]] = "gone"]
    /\ Goto(p, "kill")

\* "pid" names the guest; "ready" ends the loop if the pid is known, and is an
\* error if it is not.
DriveRead(p) ==
    LET i == sb[p] IN
    /\ pc[p] \in {"drive", "drive_pid"}
    /\ out[i] # << >>
    /\ out' = [out EXCEPT ![i] = Tail(@)]
    /\ CASE Head(out[i]) = "pid"   -> Goto(p, "drive_pid") /\ UNCHANGED setup
         [] Head(out[i]) = "ready" -> IF At(p, "drive_pid")
                                        THEN Goto(p, "pidfile") /\ UNCHANGED setup
                                        ELSE AbortSetup(p)
         [] OTHER                  -> AbortSetup(p)
    /\ UNCHANGED <<registryVars, diskVars, cgroup, guest, locals, faults>>

\* End of file once every writer is gone; the cgroup that setup should join is
\* no longer there; the timeout, or a failure to write the maps or to signal.
DriveFails(p) ==
    LET i == sb[p] IN
    /\ pc[p] \in {"drive", "drive_pid"}
    /\ \/ /\ \/ out[i] = << >> /\ setup[i] = "gone" /\ ~Running(i)
             \/ setup[i] = "waiting" /\ cgroup[i] = "removed"
          /\ UNCHANGED faults
       \/ Fault("setup")
    /\ AbortSetup(p)
    /\ UNCHANGED <<registryVars, diskVars, cgroup, guest, out, locals>>

\* The pidfile: only if /proc still knows the guest, if only as a zombie.
SpawnPidfile(p) ==
    /\ At(p, "pidfile")
    /\ "dir" \in disk[sb[p]]
    /\ disk' = [disk EXCEPT ![sb[p]] = @ \cup {"guest.pid"}]
    /\ Goto(p, "ready")
    /\ UNCHANGED <<registryVars, inode, snapData, layer, kernelVars, locals, faults>>

\* update_sandbox_state(Ready), then the op-lock is dropped.
SpawnReady(p) ==
    /\ At(p, "ready")
    /\ HasRow(sb[p])
    /\ row' = [row EXCEPT ![sb[p]] = "ready"]
    /\ Return(p)
    /\ UNCHANGED <<snapRow, diskVars, kernelVars, faults>>

\* A step of do_spawn fails: the guest died before its pidfile, the state dir
\* or the row is missing, a write fails.  Roll back.
SpawnStepFails(p) ==
    /\ \/ /\ \/ At(p, "cgfile") /\ "dir" \notin disk[sb[p]]
             \/ At(p, "pidfile")
                  /\ (guest[sb[p]] = "dead" \/ "dir" \notin disk[sb[p]])
             \/ At(p, "ready") /\ ~HasRow(sb[p])
          /\ UNCHANGED faults
       \/ pc[p] \in {"cgfile", "setup", "pidfile", "ready"} /\ Fault("io")
    /\ Goto(p, "kill")
    /\ UNCHANGED <<registryVars, diskVars, kernelVars, locals>>

SpawnStep(p) ==
    \/ SpawnMkdir(p) \/ SpawnSeed(p) \/ SpawnSeedFails(p)
    \/ SpawnInsert(p) \/ SpawnInsertFails(p)
    \/ SpawnCgroup(p) \/ SpawnCgroupFails(p) \/ SpawnRecordCgroup(p)
    \/ SpawnSetup(p) \/ SpawnGo(p)
    \/ DriveRead(p) \/ DriveFails(p)
    \/ SpawnPidfile(p) \/ SpawnReady(p) \/ SpawnStepFails(p)

SandboxStep(i) ==
    \/ SetupFails(i) \/ SetupFork(i) \/ SetupReportPid(i)
    \/ GuestReady(i) \/ GuestBootFails(i) \/ GuestDies(i)
    \/ FreezeTakes(i)
=============================================================================

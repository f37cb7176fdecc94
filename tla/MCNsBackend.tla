---------------------------- MODULE MCNsBackend ----------------------------
(* Instances of NsBackend for TLC: which task performs which operations. *)
EXTENDS NsBackend, TLC

CONSTANTS p1, p2, p3, i1, i2, s1, s2

\* One task creates, two others destroy; all of them reconcile at start-up.
CreateAndDestroy ==
    p1 :> {"spawn"} @@ p2 :> {"destroy", "exit"} @@ p3 :> {"destroy", "exit"}

\* One task creates, the other snapshots and destroys.
SnapshotAndDestroy ==
    p1 :> {"spawn"} @@ p2 :> {"snapshot", "destroy", "exit"}

\* One task creates and restores, the other snapshots and destroys.
SnapshotAndRestore ==
    p1 :> {"spawn", "restore"} @@ p2 :> {"snapshot", "destroy"}

\* A server that creates, and commands that snapshot.
CreateAndSnapshot ==
    p1 :> {"spawn"} @@ p2 :> {"snapshot", "exit"}

Destroyers == Permutations({p2, p3})

SandboxesAndSnapshots == Permutations({i1, i2}) \cup Permutations({s1, s2})
=============================================================================

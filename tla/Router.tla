------------------------------- MODULE Router -------------------------------
(***************************************************************************)
(* Exit-status routing in the guest agent (PID 1 of a sandbox).  One       *)
(* reaper thread does every waitpid(-1); each exec connection has a thread *)
(* that wants the status of its own child.  A status that arrives before   *)
(* its thread has registered is parked; so is the status of every orphan   *)
(* that was reparented to PID 1, which nobody will ever ask for, and the   *)
(* number of parked statuses is bounded by evicting the oldest.            *)
(*                                                                         *)
(* A child stands for one process and for its exit status: the status of a *)
(* child is the child itself, so that a wrong delivery can be told apart.  *)
(***************************************************************************)
EXTENDS Naturals, Sequences, FiniteSets

CONSTANTS
    Execs,       \* children started by an exec connection
    Orphans,     \* processes reparented to PID 1
    Pids,        \* pid numbers of the sandbox's pid namespace
    MaxOrphans,  \* MAX_ORPHANS, 4096 in the code
    Recycle,     \* the kernel may hand a pid out again once it is reaped
    RealTime,    \* processes may die of a real-time signal
    None

Children == Execs \cup Orphans

ASSUME ChildrenAssumption == Execs \cap Orphans = {} /\ None \notin Children \cup Pids
ASSUME RouterAssumption   ==
    MaxOrphans \in Nat \ {0} /\ Recycle \in BOOLEAN /\ RealTime \in BOOLEAN
ASSUME PidsAssumption     == IsFiniteSet(Pids)

VARIABLES
    life,          \* life[k]: where the process, then its status, is
    pid,           \* pid[k]: its pid, None before it starts
    thread,        \* thread[k]: the completion thread of exec k
    got,           \* got[k]: the status that thread received
    waiters,       \* waiters[n]: the exec whose sender is registered for n
    orphans,       \* orphans[n]: the status parked for n
    orphan_order   \* pids in the order their statuses were parked

vars == <<life, pid, thread, got, waiters, orphans, orphan_order>>

TypeOK ==
    /\ life \in [Children -> {"unborn", "running", "zombie", "reaped",
                              "routed", "evicted", "lost"}]
    /\ pid \in [Children -> Pids \cup {None}]
    /\ thread \in [Execs -> {"none", "spawned", "waiting", "done", "panicked"}]
    /\ got \in [Execs -> Children \cup {None}]
    /\ waiters \in [Pids -> Execs \cup {None}]
    /\ orphans \in [Pids -> Children \cup {None}]
    /\ orphan_order \in Seq(Pids)

Init ==
    /\ life = [k \in Children |-> "unborn"]
    /\ pid = [k \in Children |-> None]
    /\ thread = [k \in Execs |-> "none"]
    /\ got = [k \in Execs |-> None]
    /\ waiters = [n \in Pids |-> None]
    /\ orphans = [n \in Pids |-> None]
    /\ orphan_order = << >>

\* The pids with a parked status: the keys of the code's map.
Parked == {n \in Pids : orphans[n] # None}

-----------------------------------------------------------------------------
(* The kernel *)

\* A pid is taken from its process's start until waitpid has returned it.
Free(n) == \A k \in Children : pid[k] = n =>
              Recycle /\ life[k] \notin {"running", "zombie"}

\* An exec connection spawns its child, or a process of the sandbox is forked
\* and later reparented to PID 1.
Start(k) ==
    /\ life[k] = "unborn"
    /\ \E n \in Pids : Free(n) /\ pid' = [pid EXCEPT ![k] = n]
    /\ life' = [life EXCEPT ![k] = "running"]
    /\ thread' = IF k \in Execs THEN [thread EXCEPT ![k] = "spawned"] ELSE thread
    /\ UNCHANGED <<got, waiters, orphans, orphan_order>>

Die(k) ==
    /\ life[k] = "running"
    /\ life' = [life EXCEPT ![k] = "zombie"]
    /\ UNCHANGED <<pid, thread, got, waiters, orphans, orphan_order>>

-----------------------------------------------------------------------------
(* The reaper thread *)

\* waitpid(-1): takes any zombie; its pid is free from now on, although the
\* status is not routed yet.
Reap(k) ==
    /\ life[k] = "zombie"
    /\ \A j \in Children : life[j] # "reaped"
    /\ life' = [life EXCEPT ![k] = "reaped"]
    /\ UNCHANGED <<pid, thread, got, waiters, orphans, orphan_order>>

\* The child died of a real-time signal, which nix's Signal does not know:
\* waitpid has taken the child, and returns an error instead of its status.
ReapUnknown(k) ==
    /\ RealTime
    /\ life[k] = "zombie"
    /\ \A j \in Children : life[j] # "reaped"
    /\ life' = [life EXCEPT ![k] = "lost"]
    /\ UNCHANGED <<pid, thread, got, waiters, orphans, orphan_order>>

\* Mutant: the status goes to a waiter of another pid.
DeliverAny(k) ==
    /\ life[k] = "reaped"
    /\ \E n \in Pids :
         /\ waiters[n] # None
         /\ waiters' = [waiters EXCEPT ![n] = None]
         /\ got' = [got EXCEPT ![waiters[n]] = k]
         /\ thread' = [thread EXCEPT ![waiters[n]] = "done"]
    /\ life' = [life EXCEPT ![k] = "routed"]
    /\ UNCHANGED <<pid, orphans, orphan_order>>

\* route, with a waiter: the sender leaves the map and delivers the status.
Deliver(k) ==
    LET c == waiters[pid[k]] IN
    /\ life[k] = "reaped" /\ c # None
    /\ waiters' = [waiters EXCEPT ![pid[k]] = None]
    /\ got' = [got EXCEPT ![c] = k]
    /\ thread' = [thread EXCEPT ![c] = "done"]
    /\ life' = [life EXCEPT ![k] = "routed"]
    /\ UNCHANGED <<pid, orphans, orphan_order>>

\* The first entry of the queue whose status is still in map m.
Oldest(queue, m) ==
    CHOOSE j \in 1..Len(queue) :
        /\ m[queue[j]] # None
        /\ \A h \in 1..(j - 1) : m[queue[h]] = None

\* Mutant: a status without a waiter is dropped.
ParkDrops(k) ==
    /\ life[k] = "reaped" /\ waiters[pid[k]] = None
    /\ life' = [life EXCEPT ![k] = "routed"]
    /\ UNCHANGED <<pid, thread, got, waiters, orphans, orphan_order>>

\* Mutant: over the cap, one entry is popped, whether it is stale or not.
ParkPopsOnce(k) ==
    LET n     == pid[k]
        m     == [orphans EXCEPT ![n] = k]
        queue == IF orphans[n] = None THEN Append(orphan_order, n) ELSE orphan_order
        over  == Cardinality(Parked \cup {n}) > MaxOrphans
    IN  /\ life[k] = "reaped" /\ waiters[n] = None
        /\ orphans' = IF over THEN [m EXCEPT ![Head(queue)] = None] ELSE m
        /\ orphan_order' = IF over THEN Tail(queue) ELSE queue
        /\ life' = [life EXCEPT ![k] = "routed"]
        /\ UNCHANGED <<pid, thread, got, waiters>>

\* route, without a waiter: park the status; the pid joins the queue unless
\* the map already held one for it; over the cap, entries are popped until one
\* of them was still parked.
Park(k) ==
    LET n     == pid[k]
        m     == [orphans EXCEPT ![n] = k]
        queue == IF orphans[n] = None THEN Append(orphan_order, n) ELSE orphan_order
        over  == Cardinality(Parked \cup {n}) > MaxOrphans
        j     == Oldest(queue, m)
        gone  == (IF orphans[n] = None THEN {} ELSE {orphans[n]})
                   \cup (IF over THEN {m[queue[j]]} ELSE {})
    IN  /\ life[k] = "reaped" /\ waiters[n] = None
        /\ orphans' = IF over THEN [m EXCEPT ![queue[j]] = None] ELSE m
        /\ orphan_order' = IF over THEN SubSeq(queue, j + 1, Len(queue)) ELSE queue
        /\ life' = [c \in Children |-> IF c \in gone THEN "evicted"
                                       ELSE IF c = k THEN "routed" ELSE life[c]]
        /\ UNCHANGED <<pid, thread, got, waiters>>

-----------------------------------------------------------------------------
(* wait_child, in the completion thread of an exec *)

\* Mutant: wait_child returns the pid instead of the status.
ClaimPid(k) ==
    LET n == pid[k] IN
    /\ thread[k] = "spawned" /\ orphans[n] # None
    /\ got' = [got EXCEPT ![k] = n]
    /\ orphans' = [orphans EXCEPT ![n] = None]
    /\ thread' = [thread EXCEPT ![k] = "done"]
    /\ UNCHANGED <<life, pid, waiters, orphan_order>>

\* The status is parked: take it.  The pid stays in the queue.
Claim(k) ==
    LET n == pid[k] IN
    /\ thread[k] = "spawned" /\ orphans[n] # None
    /\ got' = [got EXCEPT ![k] = orphans[n]]
    /\ orphans' = [orphans EXCEPT ![n] = None]
    /\ thread' = [thread EXCEPT ![k] = "done"]
    /\ UNCHANGED <<life, pid, waiters, orphan_order>>

\* Mutant: wait_child registers without looking for a parked status first.
RegisterBlindly(k) ==
    /\ thread[k] = "spawned"
    /\ thread' = [thread EXCEPT ![k] = "waiting"]
    /\ waiters' = [waiters EXCEPT ![pid[k]] = k]
    /\ UNCHANGED <<life, pid, got, orphans, orphan_order>>

\* Register a sender and block.  A sender another thread had registered for
\* the same pid is dropped, and that thread's recv().expect() panics.
Register(k) ==
    LET n == pid[k] IN
    /\ thread[k] = "spawned" /\ orphans[n] = None
    /\ thread' = [c \in Execs |-> IF c = k THEN "waiting"
                                  ELSE IF c = waiters[n] THEN "panicked" ELSE thread[c]]
    /\ waiters' = [waiters EXCEPT ![n] = k]
    /\ UNCHANGED <<life, pid, got, orphans, orphan_order>>

\* No child is left: waitpid says ECHILD, the reaper sleeps and tries again.
NoChild ==
    /\ \A k \in Children : life[k] \in {"routed", "evicted", "lost"}
    /\ \A k \in Execs : thread[k] # "spawned"
    /\ UNCHANGED vars

Next == \/ \E k \in Children : \/ Start(k) \/ Die(k) \/ Reap(k) \/ ReapUnknown(k)
                              \/ Deliver(k) \/ Park(k)
        \/ \E k \in Execs : Claim(k) \/ Register(k)
        \/ NoChild

Spec == Init /\ [][Next]_vars

\* The reaper and the completion threads keep running; processes need not die.
FairSpec ==
    /\ Spec
    /\ \A k \in Children : WF_vars(Reap(k) \/ ReapUnknown(k)) /\ WF_vars(Deliver(k)) /\ WF_vars(Park(k))
    /\ \A k \in Execs : WF_vars(Claim(k)) /\ WF_vars(Register(k))

-----------------------------------------------------------------------------
(* Properties *)

\* No lost wake-up: a status is never parked for a pid somebody waits for.
\* route looks for a waiter and wait_child for a parked status under one lock.
NeverBoth == \A n \in Pids : waiters[n] = None \/ orphans[n] = None

\* The cap holds whenever the router's lock is free, although claimed statuses
\* leave stale entries in the queue: every parked status is in the queue, so
\* the eviction loop never runs dry.
ParkedBounded ==
    /\ Cardinality(Parked) <= MaxOrphans
    /\ \A n \in Parked : \E j \in 1..Len(orphan_order) : orphan_order[j] = n

\* As long as the kernel hands no pid out twice, an exec gets the status of its
\* own child and of no other.
OwnStatus == Recycle \/ \A k \in Execs : got[k] \in {None, k}

\* As long as the kernel hands no pid out twice, a completion thread never
\* waits in vain, except for a status that eviction threw away or that waitpid
\* could not tell: otherwise its child runs, is a zombie or is in the reaper's
\* hands while it waits.
NoVainWait ==
    Recycle \/ \A k \in Execs : thread[k] = "waiting" =>
        /\ waiters[pid[k]] = k
        /\ life[k] \in {"running", "zombie", "reaped", "evicted", "lost"}

\* The exec whose child has died is told, or its status was evicted or lost.
Told ==
    \A k \in Execs : life[k] \notin {"unborn", "running"}
                       ~> \/ thread[k] \in {"done", "panicked"}
                          \/ life[k] \in {"evicted", "lost"}

\* server.rs: evicting keeps a storm of orphans from growing PID 1's memory
\* "without limit"; so the queue that serves the eviction should stay within
\* the order of the cap.
QueueBounded == Len(orphan_order) <= 2 * MaxOrphans
=============================================================================

-------------------------------- MODULE Mcp --------------------------------
(***************************************************************************)
(* The MCP servers' tool calls that share a resource: sandbox_create and   *)
(* sandbox_restore, which check the quota and insert a row under the       *)
(* server's create_gate, and sandbox_exec, which collects output and sets  *)
(* the guest's timeout.  Every call runs under a host-side deadline that   *)
(* drops its future at any await, but not a registry operation that was    *)
(* already handed to the blocking pool.  Several servers and the command   *)
(* line, which knows no quota, share one registry.                         *)
(*                                                                         *)
(* One tick of the clock is one second; what an exec does below the        *)
(* ExecHandle is ExecConn's matter.                                        *)
(***************************************************************************)
EXTENDS Naturals, FiniteSets

CONSTANTS
    Creates,       \* calls that create a sandbox, and the sandboxes they create
    Servers,       \* MCP server processes
    Owner,         \* Owner[c]: the server of call c
    ExecCalls,     \* sandbox_exec calls
    MaxSandboxes,  \* --max-sandboxes
    MaxCli,        \* bound: sandboxes of the command line
    CallTimeouts,  \* --call-timeout of the servers, in seconds
    Reserve,       \* what the guest's timeout leaves to the host, 15 in the code
    Default,       \* DEFAULT_EXEC_TIMEOUT_MS in seconds, 120 in the code
    Asked,         \* timeouts that callers ask for, in seconds
    MaxCapture,    \* MAX_CAPTURE: bytes kept of a stream
    Chunks,        \* sizes of output chunks
    MaxSent,       \* bound: bytes a command writes
    None

ASSUME OwnerAssumption == Owner \in [Creates -> Servers] /\ None \notin Creates
ASSUME FiniteAssumption == IsFiniteSet(Creates) /\ IsFiniteSet(Servers) /\ Servers # {}
ASSUME LimitAssumption ==
    /\ MaxSandboxes \in Nat /\ MaxCli \in Nat /\ CallTimeouts \subseteq Nat /\ Reserve \in Nat
    /\ Default \in Nat \ {0} /\ Asked \subseteq Nat /\ None \notin Nat
    /\ MaxCapture \in Nat /\ Chunks \subseteq Nat /\ MaxSent \in Nat

VARIABLES
    \* the registry
    rows,      \* sandboxes of the servers that have a row
    cli,       \* number of rows the command line made
    pending,   \* inserts in the blocking pool
    \* create and restore calls
    gate,      \* gate[v]: the call that holds the create_gate of server v
    pc,        \* pc[c]: where the call is
    late,      \* calls that were dropped while their insert was pending
    \* exec calls
    state,     \* state[x]: "idle", "lookup", "running" or its answer
    deadline,  \* deadline[x]: the call timeout of the server that took it
    age,       \* age[x]: seconds since the call came
    limit,     \* limit[x]: the guest's timeout, guest_ms
    begun,     \* begun[x]: age at which the guest started the command, or None
    stuck,     \* stuck[x]: a background process keeps the output open
    sent,      \* sent[x]: bytes the command wrote
    captured   \* captured[x]: bytes kept

createVars == <<rows, cli, pending, gate, pc, late>>
execVars   == <<state, deadline, age, limit, begun, stuck, sent, captured>>
vars       == <<createVars, execVars>>

Answers == {"exit", "failed", "timeout", "error", "deadline"}

TypeOK ==
    /\ cli \in 0..MaxCli
    /\ rows \subseteq Creates /\ pending \subseteq Creates /\ late \subseteq Creates
    /\ gate \in [Servers -> Creates \cup {None}]
    /\ pc \in [Creates -> {"idle", "gate", "check", "spawn", "insert", "build", "answered"}]
    /\ state \in [ExecCalls -> {"idle", "lookup", "running"} \cup Answers]
    /\ deadline \in [ExecCalls -> CallTimeouts \cup {0}]
    /\ age \in [ExecCalls -> Nat] /\ begun \in [ExecCalls -> Nat \cup {None}]
    /\ \A x \in ExecCalls : age[x] <= deadline[x]
    /\ limit \in [ExecCalls -> Nat] /\ stuck \in [ExecCalls -> BOOLEAN]
    /\ sent \in [ExecCalls -> 0..MaxSent] /\ captured \in [ExecCalls -> 0..MaxCapture]

Init ==
    /\ rows = {} /\ cli = 0 /\ pending = {} /\ late = {}
    /\ gate = [v \in Servers |-> None]
    /\ pc = [c \in Creates |-> "idle"]
    /\ state = [x \in ExecCalls |-> "idle"]
    /\ deadline = [x \in ExecCalls |-> 0]
    /\ age = [x \in ExecCalls |-> 0]
    /\ limit = [x \in ExecCalls |-> 0]
    /\ begun = [x \in ExecCalls |-> None]
    /\ stuck = [x \in ExecCalls |-> FALSE]
    /\ sent = [x \in ExecCalls |-> 0]
    /\ captured = [x \in ExecCalls |-> 0]

-----------------------------------------------------------------------------
(* sandbox_create and sandbox_restore *)

Goto(c, l) == pc' = [pc EXCEPT ![c] = l]

\* The future ends or is dropped: its gate guard goes with it.
Answer(c) ==
    /\ Goto(c, "answered")
    /\ gate' = [v \in Servers |-> IF gate[v] = c THEN None ELSE gate[v]]

\* A relative project_dir or an unknown snapshot is answered at once.
CreateCall(c) ==
    /\ pc[c] = "idle"
    /\ Goto(c, "gate") \/ Goto(c, "answered")
    /\ UNCHANGED <<rows, cli, pending, gate, late, execVars>>

\* Mutant: no create_gate.
TakeNoGate(c) ==
    /\ pc[c] = "gate"
    /\ Goto(c, "check")
    /\ UNCHANGED <<rows, cli, pending, gate, late, execVars>>

TakeGate(c) ==
    /\ pc[c] = "gate" /\ gate[Owner[c]] = None
    /\ gate' = [gate EXCEPT ![Owner[c]] = c]
    /\ Goto(c, "check")
    /\ UNCHANGED <<rows, cli, pending, late, execVars>>

\* list_sandboxes().len()
Count == Cardinality(rows) + cli

\* Mutant: a refusal leaves the gate locked.
CheckQuotaKeepsGate(c) ==
    /\ pc[c] = "check"
    /\ \/ Count < MaxSandboxes /\ Goto(c, "spawn")
       \/ Count >= MaxSandboxes /\ Goto(c, "answered")
    /\ UNCHANGED <<rows, cli, pending, gate, late, execVars>>

\* check_quota counts the rows; at the limit, or without an answer from the
\* registry, the call is refused.
CheckQuota(c) ==
    /\ pc[c] = "check"
    /\ \/ Count < MaxSandboxes /\ Goto(c, "spawn") /\ UNCHANGED gate
       \/ Count >= MaxSandboxes /\ Answer(c)
       \/ Answer(c)
    /\ UNCHANGED <<rows, cli, pending, late, execVars>>

\* Backend::spawn up to the insert, which goes to the blocking pool; an error
\* before that (directories, lock, seed) is returned.
SpawnToInsert(c) ==
    /\ pc[c] = "spawn"
    /\ \/ Goto(c, "insert") /\ pending' = pending \cup {c} /\ UNCHANGED gate
       \/ Answer(c) /\ UNCHANGED pending
    /\ UNCHANGED <<rows, cli, late, execVars>>

\* The blocking pool runs the insert, whether or not anybody still awaits it.
Insert(c) ==
    /\ c \in pending
    /\ pending' = pending \ {c}
    /\ \/ /\ rows' = rows \cup {c}
          /\ pc' = [pc EXCEPT ![c] = IF @ = "insert" THEN "build" ELSE @]
          /\ UNCHANGED gate
       \/ /\ UNCHANGED rows
          /\ IF pc[c] = "insert" THEN Answer(c) ELSE UNCHANGED <<pc, gate>>
    /\ UNCHANGED <<cli, late, execVars>>

\* The rest of spawn succeeds, or fails and rolls back.
SpawnEnds(c) ==
    /\ pc[c] = "build"
    /\ Answer(c)
    /\ rows' \in {rows, rows \ {c}}
    /\ UNCHANGED <<cli, pending, late, execVars>>

\* guard: the call deadline drops the future.  A row that was inserted stays
\* for reconcile; an insert that is pending is not recalled.
CreateDeadline(c) ==
    /\ pc[c] \in {"gate", "check", "spawn", "insert", "build"}
    /\ Answer(c)
    /\ late' = IF c \in pending THEN late \cup {c} ELSE late
    /\ UNCHANGED <<rows, cli, pending, execVars>>

\* sandbox_destroy, or a later reconcile.
Destroy(c) ==
    /\ c \in rows /\ pc[c] = "answered"
    /\ rows' = rows \ {c}
    /\ UNCHANGED <<cli, pending, gate, pc, late, execVars>>

\* sbx run and sbx restore: the command line has no quota and no gate.
CliRun ==
    /\ cli < MaxCli /\ cli' = cli + 1
    /\ UNCHANGED <<rows, pending, gate, pc, late, execVars>>

CliDestroy ==
    /\ cli > 0 /\ cli' = cli - 1
    /\ UNCHANGED <<rows, pending, gate, pc, late, execVars>>

CreateStep(c) ==
    \/ TakeGate(c) \/ CheckQuota(c) \/ SpawnToInsert(c) \/ Insert(c) \/ SpawnEnds(c)

-----------------------------------------------------------------------------
(* sandbox_exec *)

\* do_exec: the caller's timeout, or the default, capped by what the call
\* deadline leaves after the reserve, but never less than a second.
Ceiling(secs) == IF secs > Reserve THEN secs - Reserve ELSE 1

\* Mutant: the caller's timeout as it is.
GuestMsUncapped(t, secs) == IF t = None THEN Default ELSE t

GuestMs(t, secs) ==
    LET ms == IF t = None THEN Default ELSE t
    IN  IF ms < Ceiling(secs) THEN ms ELSE Ceiling(secs)

ExecCall(x) ==
    /\ state[x] = "idle"
    /\ state' = [state EXCEPT ![x] = "lookup"]
    /\ \E t \in Asked \cup {None}, secs \in CallTimeouts :
         /\ deadline' = [deadline EXCEPT ![x] = secs]
         /\ limit' = [limit EXCEPT ![x] = GuestMs(t, secs)]
    /\ UNCHANGED <<createVars, age, begun, stuck, sent, captured>>

\* The sandbox is looked up and the guest starts the command, or not.
ExecBegin(x) ==
    /\ state[x] = "lookup"
    /\ \/ /\ state' = [state EXCEPT ![x] = "running"]
          /\ begun' = [begun EXCEPT ![x] = age[x]]
          /\ \E b \in BOOLEAN : stuck' = [stuck EXCEPT ![x] = b]
       \/ state' = [state EXCEPT ![x] = "error"] /\ UNCHANGED <<begun, stuck>>
    /\ UNCHANGED <<createVars, deadline, age, limit, sent, captured>>

\* Mutant: a chunk is kept whole as long as the buffer is not full.
PushWhole(buf, n) == IF buf >= MaxCapture THEN buf ELSE buf + n

\* Mutant: a chunk that does not fit is dropped.
PushFitting(buf, n) == IF buf + n > MaxCapture THEN buf ELSE buf + n

\* push_capped: a full buffer takes nothing, the last chunk what there is room for.
PushCapped(buf, n) ==
    IF buf >= MaxCapture THEN buf
    ELSE buf + (IF n < MaxCapture - buf THEN n ELSE MaxCapture - buf)

\* A chunk arrives; it is drained in any case.
ExecOutput(x) ==
    /\ state[x] = "running"
    /\ \E n \in Chunks :
         /\ sent[x] + n <= MaxSent
         /\ sent' = [sent EXCEPT ![x] = @ + n]
         /\ captured' = [captured EXCEPT ![x] = PushCapped(@, n)]
    /\ UNCHANGED <<createVars, state, deadline, age, limit, begun, stuck>>

Expired(x) == state[x] = "running" /\ ~stuck[x] /\ age[x] >= begun[x] + limit[x]

\* The terminal event: the command ended or failed, or the guest's timeout.
ExecEnds(x) ==
    /\ state[x] = "running" /\ ~stuck[x]
    /\ \/ \E a \in {"exit", "failed"} : state' = [state EXCEPT ![x] = a]
       \/ Expired(x) /\ state' = [state EXCEPT ![x] = "timeout"]
    /\ UNCHANGED <<createVars, deadline, age, limit, begun, stuck, sent, captured>>

\* guard: the call deadline; the handle is dropped.
ExecDeadline(x) ==
    /\ state[x] \in {"lookup", "running"} /\ age[x] >= deadline[x]
    /\ state' = [state EXCEPT ![x] = "deadline"]
    /\ UNCHANGED <<createVars, deadline, age, limit, begun, stuck, sent, captured>>

\* A second passes; timers that are due fire first.
Tick ==
    /\ \E x \in ExecCalls : state[x] \in {"lookup", "running"}
    /\ \A x \in ExecCalls : state[x] \in {"lookup", "running"} =>
                              age[x] < deadline[x] /\ ~Expired(x)
    /\ age' = [x \in ExecCalls |-> IF state[x] \in {"lookup", "running"}
                                     THEN age[x] + 1 ELSE age[x]]
    /\ UNCHANGED <<createVars, state, deadline, limit, begun, stuck, sent, captured>>

Next ==
    \/ \E c \in Creates : CreateCall(c) \/ CreateStep(c) \/ CreateDeadline(c) \/ Destroy(c)
    \/ \E x \in ExecCalls : ExecCall(x) \/ ExecBegin(x) \/ ExecOutput(x) \/ ExecEnds(x)
                              \/ ExecDeadline(x)
    \/ CliRun \/ CliDestroy \/ Tick

Spec == Init /\ [][Next]_vars

\* Futures are polled and the blocking pool runs; no deadline is relied upon
\* for the creates.
FairSpec == Spec /\ \A c \in Creates : WF_vars(CreateStep(c))

-----------------------------------------------------------------------------
(* Properties *)

\* do_create: "hold the create gate across the check and the spawn, so two
\* concurrent creates can't both pass at max-1".  What that gives: the rows
\* that servers made exceed the quota by at most one for every further server,
\* whatever the command line does, apart from rows whose call was dropped
\* while the insert was pending.
QuotaKept ==
    Cardinality(rows \ late) <= MaxSandboxes + Cardinality(Servers) - 1

\* create_gate: every create or restore is answered without the help of its
\* deadline, whatever happens to the calls before it.
CreateAnswered == \A c \in Creates : pc[c] = "gate" ~> pc[c] = "answered"

\* ExecArgs: the guest's timeout is "clamped so it always fires before the host
\* call deadline".  What the clamp gives: the deadline is the answer only if
\* the command never started, if the guest cannot answer, or if the start used
\* up what the clamp leaves to the host: the reserve where the call timeout
\* exceeds it, all but one second where it does not.  With a call timeout of
\* one second or less that is nothing, and the claim fails there: even a
\* command that started at once may meet the deadline first.
BackstopOnly ==
    \A x \in ExecCalls : state[x] = "deadline" /\ begun[x] # None =>
        \/ stuck[x]
        \/ deadline[x] > Reserve /\ begun[x] >= Reserve
        \/ deadline[x] <= Reserve /\ begun[x] + 1 >= deadline[x]

\* push_capped: exactly the first MAX_CAPTURE bytes are kept.
CaptureExact ==
    \A x \in ExecCalls :
        captured[x] = IF sent[x] < MaxCapture THEN sent[x] ELSE MaxCapture
=============================================================================

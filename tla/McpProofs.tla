----------------------------- MODULE McpProofs -----------------------------
(***************************************************************************)
(* The MCP servers' quota, the clamp of the exec timeout and the output    *)
(* cap, for any number of servers and calls and every value of the limits. *)
(***************************************************************************)
EXTENDS Mcp, FiniteSetTheorems, TLAPS

-----------------------------------------------------------------------------
(* Type correctness *)

\* What one exec call keeps has its type.
ExecTyped ==
    /\ state \in [ExecCalls -> {"idle", "lookup", "running"} \cup Answers]
    /\ deadline \in [ExecCalls -> CallTimeouts \cup {0}]
    /\ age \in [ExecCalls -> Nat] /\ begun \in [ExecCalls -> Nat \cup {None}]
    /\ \A x \in ExecCalls : age[x] <= deadline[x]
    /\ limit \in [ExecCalls -> Nat] /\ stuck \in [ExecCalls -> BOOLEAN]
    /\ sent \in [ExecCalls -> 0..MaxSent] /\ captured \in [ExecCalls -> 0..MaxCapture]

\* What the create calls and the registry keep has its type.
CreateTyped ==
    /\ cli \in 0..MaxCli
    /\ rows \subseteq Creates /\ pending \subseteq Creates /\ late \subseteq Creates
    /\ gate \in [Servers -> Creates \cup {None}]
    /\ pc \in [Creates -> {"idle", "gate", "check", "spawn", "insert", "build", "answered"}]

\* An exec call that has not been taken has no deadline and no age.
Untaken == \A x \in ExecCalls : state[x] = "idle" => age[x] = 0

\* Every step of a create, a destroy or the command line keeps the types.
LEMMA CreateTypes ==
    ASSUME CreateTyped,
           \/ \E c \in Creates : CreateCall(c) \/ CreateStep(c) \/ CreateDeadline(c) \/ Destroy(c)
           \/ CliRun \/ CliDestroy
    PROVE  CreateTyped' /\ UNCHANGED execVars
<1> USE OwnerAssumption, LimitAssumption DEF CreateTyped, Goto, Answer
<1>1. CASE CliRun \/ CliDestroy
  BY <1>1 DEF CliRun, CliDestroy
<1>2. ASSUME NEW c \in Creates, CreateCall(c) \/ CreateStep(c) \/ CreateDeadline(c) \/ Destroy(c)
      PROVE  CreateTyped' /\ UNCHANGED execVars
  <2>1. CASE CreateCall(c)
    BY <2>1 DEF CreateCall
  <2>2. CASE TakeGate(c)
    BY <2>2 DEF TakeGate
  <2>3. CASE CheckQuota(c)
    BY <2>3 DEF CheckQuota
  <2>4. CASE SpawnToInsert(c)
    BY <2>4 DEF SpawnToInsert
  <2>5. CASE Insert(c)
    BY <2>5 DEF Insert
  <2>6. CASE SpawnEnds(c)
    BY <2>6 DEF SpawnEnds
  <2>7. CASE CreateDeadline(c)
    BY <2>7 DEF CreateDeadline
  <2>8. CASE Destroy(c)
    BY <2>8 DEF Destroy
  <2> QED BY <1>2, <2>1, <2>2, <2>3, <2>4, <2>5, <2>6, <2>7, <2>8 DEF CreateStep
<1> QED BY <1>1, <1>2

\* do_exec: the guest's timeout is a number of seconds within the ceiling, and
\* the ceiling leaves the reserve to the host wherever the deadline is longer.
LEMMA GuestMsBound ==
    ASSUME NEW t \in Asked \cup {None}, NEW secs \in CallTimeouts
    PROVE  /\ GuestMs(t, secs) \in Nat
           /\ GuestMs(t, secs) <= Ceiling(secs)
           /\ Ceiling(secs) \in Nat
           /\ Ceiling(secs) + Reserve <= secs \/ Ceiling(secs) = 1
BY LimitAssumption DEF GuestMs, Ceiling

\* push_capped: capping commutes with appending, so what is kept depends on
\* the total only and not on how the output was cut into chunks.
LEMMA PushCappedExact ==
    ASSUME NEW total \in Nat, NEW n \in Nat
    PROVE  LET Cap(m) == IF m < MaxCapture THEN m ELSE MaxCapture
           IN  PushCapped(Cap(total), n) = Cap(total + n)
BY LimitAssumption DEF PushCapped

\* Every step of an exec call and of the clock keeps the types.
LEMMA ExecTypes ==
    ASSUME ExecTyped, Untaken,
           \/ \E x \in ExecCalls : ExecCall(x) \/ ExecBegin(x) \/ ExecOutput(x) \/ ExecEnds(x)
                                     \/ ExecDeadline(x)
           \/ Tick
    PROVE  ExecTyped' /\ Untaken' /\ UNCHANGED createVars
<1> USE LimitAssumption DEF ExecTyped, Untaken, Answers
<1>1. CASE Tick
  <2>0. CallTimeouts \cup {0} \subseteq Nat
    OBVIOUS
  <2>1. \A x \in ExecCalls : deadline[x] \in Nat /\ age[x] \in Nat
    BY <2>0
  <2>2. \A x \in ExecCalls : age'[x] \in Nat /\ age'[x] <= deadline[x]
    BY <1>1, <2>1 DEF Tick
  <2>3. age' \in [ExecCalls -> Nat]
    BY <1>1, <2>2 DEF Tick
  <2> QED BY <1>1, <2>2, <2>3 DEF Tick
<1>2. ASSUME NEW x \in ExecCalls, ExecCall(x)
      PROVE  ExecTyped' /\ Untaken' /\ UNCHANGED createVars
  <2>1. PICK t \in Asked \cup {None}, secs \in CallTimeouts :
          /\ deadline' = [deadline EXCEPT ![x] = secs]
          /\ limit' = [limit EXCEPT ![x] = GuestMs(t, secs)]
    BY <1>2 DEF ExecCall
  <2> QED BY <1>2, <2>1, GuestMsBound DEF ExecCall
<1>3. ASSUME NEW x \in ExecCalls, ExecBegin(x)
      PROVE  ExecTyped' /\ Untaken' /\ UNCHANGED createVars
  BY <1>3 DEF ExecBegin
<1>4. ASSUME NEW x \in ExecCalls, ExecOutput(x)
      PROVE  ExecTyped' /\ Untaken' /\ UNCHANGED createVars
  <2>1. \A n \in Chunks : PushCapped(captured[x], n) \in 0..MaxCapture
    BY DEF PushCapped
  <2> QED BY <1>4, <2>1 DEF ExecOutput
<1>5. ASSUME NEW x \in ExecCalls, ExecEnds(x) \/ ExecDeadline(x)
      PROVE  ExecTyped' /\ Untaken' /\ UNCHANGED createVars
  BY <1>5 DEF ExecEnds, ExecDeadline
<1> QED BY <1>1, <1>2, <1>3, <1>4, <1>5

\* The types and the untaken calls, together inductive.
Typed == CreateTyped /\ ExecTyped /\ Untaken

\* Typed is an invariant of the servers.
LEMMA TypedHolds == Spec => []Typed
<1>1. Init => Typed
  BY LimitAssumption DEF Init, Typed, CreateTyped, ExecTyped, Untaken
<1>2. Typed /\ [Next]_vars => Typed'
  <2> SUFFICES ASSUME Typed, [Next]_vars
               PROVE  Typed'
    OBVIOUS
  <2>1. CASE UNCHANGED execVars /\ CreateTyped'
    BY <2>1 DEF execVars, ExecTyped, Untaken, Typed
  <2>2. CASE UNCHANGED createVars /\ ExecTyped' /\ Untaken'
    BY <2>2 DEF createVars, CreateTyped, Typed
  <2>3. CASE UNCHANGED vars
    BY <2>3 DEF vars, createVars, execVars, CreateTyped, ExecTyped, Untaken, Typed
  <2> QED BY <2>1, <2>2, <2>3, CreateTypes, ExecTypes DEF Next, Typed
<1> QED BY <1>1, <1>2, PTL DEF Spec

\* Everything the servers keep has its type, and no call outlives its deadline.
THEOREM Typing == Spec => []TypeOK
<1>1. Typed => TypeOK
  BY DEF Typed, CreateTyped, ExecTyped, TypeOK
<1> QED BY <1>1, TypedHolds, PTL

-----------------------------------------------------------------------------
(* sandbox_exec *)

\* push_capped: whatever the chunks are, and although a full buffer goes on
\* draining the stream, exactly the first MAX_CAPTURE bytes are kept.
THEOREM CaptureIsExact == Spec => []CaptureExact
<1>1. Init => CaptureExact
  BY LimitAssumption DEF Init, CaptureExact
<1>2. Typed /\ CaptureExact /\ [Next]_vars => CaptureExact'
  <2> SUFFICES ASSUME Typed, CaptureExact, [Next]_vars
               PROVE  CaptureExact'
    OBVIOUS
  <2>1. CASE UNCHANGED <<sent, captured>>
    BY <2>1 DEF CaptureExact
  <2>2. ASSUME NEW x \in ExecCalls, ExecOutput(x)
        PROVE  CaptureExact'
    <3>1. PICK n \in Chunks :
            /\ sent' = [sent EXCEPT ![x] = @ + n]
            /\ captured' = [captured EXCEPT ![x] = PushCapped(@, n)]
      BY <2>2 DEF ExecOutput
    <3>2. sent[x] \in Nat /\ n \in Nat
      BY LimitAssumption DEF Typed, ExecTyped
    <3>3. PushCapped(captured[x], n) =
            IF sent[x] + n < MaxCapture THEN sent[x] + n ELSE MaxCapture
      BY <3>2, PushCappedExact DEF CaptureExact
    <3> QED BY <3>1, <3>3 DEF CaptureExact, Typed, ExecTyped
  <2>3. CASE UNCHANGED execVars
    BY <2>1, <2>3 DEF execVars
  <2>4. CASE Tick
    BY <2>1, <2>4 DEF Tick
  <2>5. ASSUME NEW x \in ExecCalls, ExecCall(x) \/ ExecBegin(x) \/ ExecEnds(x) \/ ExecDeadline(x)
        PROVE  CaptureExact'
    BY <2>1, <2>5 DEF ExecCall, ExecBegin, ExecEnds, ExecDeadline
  <2> QED BY <2>2, <2>3, <2>4, <2>5, CreateTypes DEF Next, Typed, vars
<1> QED BY <1>1, <1>2, TypedHolds, PTL DEF Spec

\* The guest's timer as the clock sees it: its timeout is within the ceiling of
\* the call's deadline, and a command whose guest can answer is not older than
\* its timeout, because the clock waits for a timer that is due.
Timer(x) ==
    /\ state[x] \in {"idle", "lookup"} => begun[x] = None
    /\ state[x] # "idle" => deadline[x] \in CallTimeouts /\ limit[x] <= Ceiling(deadline[x])
    /\ state[x] = "running" =>
         begun[x] \in Nat /\ (~stuck[x] => age[x] <= begun[x] + limit[x])

\* What BackstopOnly says of one call.
Backstop(x) ==
    state[x] = "deadline" /\ begun[x] # None =>
        \/ stuck[x]
        \/ deadline[x] > Reserve /\ begun[x] >= Reserve
        \/ deadline[x] <= Reserve /\ begun[x] + 1 >= deadline[x]

\* One call's step keeps its timer and its verdict.
LEMMA TimerStep ==
    ASSUME Typed, NEW x \in ExecCalls, Timer(x), Backstop(x),
           \/ ExecCall(x) \/ ExecBegin(x) \/ ExecOutput(x) \/ ExecEnds(x) \/ ExecDeadline(x)
           \/ Tick
    PROVE  Timer(x)' /\ Backstop(x)'
<1> USE LimitAssumption DEF Typed, ExecTyped
<1>0. /\ state[x] # "idle" => Ceiling(deadline[x]) \in Nat
      /\ deadline[x] \in Nat /\ age[x] \in Nat /\ limit[x] \in Nat
  <2>1. CallTimeouts \cup {0} \subseteq Nat
    OBVIOUS
  <2> QED BY <2>1, GuestMsBound DEF Timer
<1>1. CASE ExecCall(x)
  <2>1. PICK t \in Asked \cup {None}, secs \in CallTimeouts :
          /\ deadline' = [deadline EXCEPT ![x] = secs]
          /\ limit' = [limit EXCEPT ![x] = GuestMs(t, secs)]
    BY <1>1 DEF ExecCall
  <2>2. /\ state'[x] = "lookup" /\ begun'[x] = None /\ deadline'[x] = secs
        /\ limit'[x] = GuestMs(t, secs)
    BY <1>1, <2>1 DEF ExecCall, Timer
  <2> QED BY <2>2, GuestMsBound DEF Timer, Backstop
<1>2. CASE ExecBegin(x)
  BY <1>0, <1>2 DEF ExecBegin, Timer, Backstop
<1>3. CASE ExecOutput(x)
  BY <1>3 DEF ExecOutput, Timer, Backstop
<1>4. CASE ExecEnds(x)
  BY <1>4 DEF ExecEnds, Timer, Backstop
<1>5. CASE ExecDeadline(x)
  <2>1. /\ state' = [state EXCEPT ![x] = "deadline"] /\ age[x] >= deadline[x]
        /\ UNCHANGED <<deadline, age, limit, begun, stuck>>
    BY <1>5 DEF ExecDeadline
  <2>2. Timer(x)'
    BY <1>5, <2>1 DEF ExecDeadline, Timer
  <2>3. CASE state[x] = "lookup"
    BY <2>1, <2>3 DEF Timer, Backstop
  <2>4. CASE state[x] = "running" /\ ~stuck[x]
    <3>1. /\ begun[x] \in Nat /\ deadline[x] \in CallTimeouts
          /\ age[x] <= begun[x] + limit[x] /\ limit[x] <= Ceiling(deadline[x])
      BY <2>4 DEF Timer
    <3>2. /\ deadline[x] > Reserve => Ceiling(deadline[x]) + Reserve = deadline[x]
          /\ deadline[x] <= Reserve => Ceiling(deadline[x]) = 1
      BY <1>0 DEF Ceiling
    <3>3. \/ deadline[x] > Reserve /\ begun[x] >= Reserve
          \/ deadline[x] <= Reserve /\ begun[x] + 1 >= deadline[x]
      BY <1>0, <2>1, <2>4, <3>1, <3>2
    <3> QED BY <2>1, <2>2, <3>3 DEF Backstop
  <2>5. CASE stuck[x]
    BY <2>1, <2>2, <2>5 DEF Backstop
  <2> QED BY <1>5, <2>2, <2>3, <2>4, <2>5 DEF ExecDeadline
<1>6. CASE Tick
  BY <1>0, <1>6 DEF Tick, Expired, Timer, Backstop
<1> QED BY <1>1, <1>2, <1>3, <1>4, <1>5, <1>6

\* ExecArgs, the guest's timeout "always fires before the host call deadline":
\* the deadline is the answer only where the command never started, the guest
\* cannot answer, or the start used up the reserve, or, where the call timeout
\* does not exceed the reserve, all but one second of it.
THEOREM DeadlineIsBackstop == Spec => []BackstopOnly
<1> DEFINE Timers == \A x \in ExecCalls : Timer(x) /\ Backstop(x)
<1>1. Init => Timers
  BY DEF Init, Timer, Backstop
<1>2. Typed /\ Timers /\ [Next]_vars => Timers'
  <2> SUFFICES ASSUME Typed, Timers, [Next]_vars, NEW x \in ExecCalls
               PROVE  Timer(x)' /\ Backstop(x)'
    OBVIOUS
  <2>1. CASE UNCHANGED <<state[x], deadline[x], age[x], limit[x], begun[x], stuck[x]>>
    BY <2>1 DEF Timer, Backstop
  <2>2. CASE UNCHANGED execVars
    BY <2>1, <2>2 DEF execVars
  <2>3. CASE Tick
    BY <2>3, TimerStep
  <2>4. ASSUME NEW y \in ExecCalls,
               ExecCall(y) \/ ExecBegin(y) \/ ExecOutput(y) \/ ExecEnds(y) \/ ExecDeadline(y)
        PROVE  Timer(x)' /\ Backstop(x)'
    <3>1. CASE y = x
      BY <2>4, <3>1, TimerStep
    <3>2. CASE y # x
      <4>1. UNCHANGED <<state[x], deadline[x], age[x], limit[x], begun[x], stuck[x]>>
        BY <2>4, <3>2 DEF ExecCall, ExecBegin, ExecOutput, ExecEnds, ExecDeadline, Typed, ExecTyped
      <4> QED BY <2>1, <4>1
    <3> QED BY <3>1, <3>2
  <2> QED BY <2>2, <2>3, <2>4, CreateTypes DEF Next, Typed, vars
<1>3. Timers => BackstopOnly
  BY DEF Backstop, BackstopOnly
<1> QED BY <1>1, <1>2, <1>3, TypedHolds, PTL DEF Spec

-----------------------------------------------------------------------------
(* sandbox_create and sandbox_restore *)

\* The calls that passed the quota check and whose row is not there yet.
Passed == {c \in Creates : pc[c] \in {"spawn", "insert"}}

\* A call from the check to the end of its spawn holds its server's gate, and
\* only a call that still waits for it, or was dropped, has an insert pending.
Gated ==
    /\ \A c \in Creates : pc[c] \in {"check", "spawn", "insert", "build"} => gate[Owner[c]] = c
    /\ \A c \in pending : pc[c] = "insert" \/ c \in late
    /\ \A v \in Servers : gate[v] \in Creates \cup {None}

\* The rows that count, together with those that were let through.
Counted == (rows \ late) \cup Passed

Quota == Gated /\ Cardinality(Counted) <= MaxSandboxes + Cardinality(Servers) - 1

\* Where nothing new counts, the quota is kept.
LEMMA FewerCounted ==
    ASSUME CreateTyped, Cardinality(Counted) <= MaxSandboxes + Cardinality(Servers) - 1,
           Counted' \subseteq Counted
    PROVE  Cardinality(Counted') <= MaxSandboxes + Cardinality(Servers) - 1
<1>1. IsFiniteSet(Counted)
  <2>1. Counted \in SUBSET Creates
    BY DEF Counted, Passed, CreateTyped
  <2> QED BY <2>1, FS_Subset, FiniteAssumption
<1>2. Cardinality(Counted') <= Cardinality(Counted) /\ IsFiniteSet(Counted')
  BY <1>1, FS_Subset
<1>3. Cardinality(Counted') \in Nat /\ Cardinality(Counted) \in Nat /\ Cardinality(Servers) \in Nat
  BY <1>1, <1>2, FS_CardinalityType, FiniteAssumption
<1> QED BY <1>2, <1>3, LimitAssumption

\* The gate: at most one call of each server has passed the check or is at it.
LEMMA OnePerServer ==
    ASSUME Gated, CreateTyped, NEW T \in SUBSET Creates,
           \A c \in T : pc[c] \in {"check", "spawn", "insert"}
    PROVE  IsFiniteSet(T) /\ Cardinality(T) <= Cardinality(Servers)
<1> DEFINE f == [c \in T |-> Owner[c]]
<1>1. f \in [T -> Servers]
  BY OwnerAssumption
<1>2. \A a, b \in T : f[a] = f[b] => a = b
  BY DEF Gated
<1>3. f \in Injection(T, Servers)
  BY <1>1, <1>2 DEF Injection, IsInjective
<1> QED BY <1>3, FS_Injection, FiniteAssumption

\* check_quota: below the limit one more may pass, because the others that
\* passed and have no row yet belong to other servers.
LEMMA PassCheck ==
    ASSUME CreateTyped, Gated, NEW c \in Creates, pc[c] = "check", Count < MaxSandboxes,
           Counted' \subseteq rows \cup Passed \cup {c}
    PROVE  Cardinality(Counted') <= MaxSandboxes + Cardinality(Servers) - 1
<1> DEFINE T == Passed \cup {c}
<1>1. IsFiniteSet(T) /\ Cardinality(T) <= Cardinality(Servers)
  BY OnePerServer DEF Passed
<1>2. IsFiniteSet(rows) /\ Cardinality(rows) \in Nat
  BY FS_Subset, FS_CardinalityType, FiniteAssumption DEF CreateTyped
<1>3. Cardinality(rows) < MaxSandboxes
  BY <1>2, LimitAssumption DEF Count, CreateTyped
<1>4. /\ IsFiniteSet(rows \cup T)
      /\ Cardinality(rows \cup T) = Cardinality(rows) + Cardinality(T) - Cardinality(rows \cap T)
  BY <1>1, <1>2, FS_Union
<1>5. Cardinality(Counted') <= Cardinality(rows \cup T) /\ IsFiniteSet(Counted')
  <2>1. Counted' \in SUBSET (rows \cup T)
    OBVIOUS
  <2> QED BY <1>4, <2>1, FS_Subset
<1>6. IsFiniteSet(rows \cap T)
  <2>1. rows \cap T \in SUBSET T
    OBVIOUS
  <2> QED BY <1>1, <2>1, FS_Subset
<1>7. /\ Cardinality(T) \in Nat /\ Cardinality(rows \cap T) \in Nat /\ Cardinality(Counted') \in Nat
      /\ Cardinality(Servers) \in Nat /\ Cardinality(rows \cup T) \in Nat
  BY <1>1, <1>4, <1>5, <1>6, FS_CardinalityType, FiniteAssumption
<1> HIDE DEF T
<1> QED BY <1>1, <1>2, <1>3, <1>4, <1>5, <1>7, LimitAssumption

\* A future that ends gives back its own gate and nobody else's.
LEMMA AnswerGated ==
    ASSUME CreateTyped, Gated, NEW c \in Creates, Answer(c), pending' \subseteq pending,
           late \subseteq late',
           c \in pending' => c \in late'
    PROVE  Gated'
BY OwnerAssumption DEF Gated, Answer, Goto, CreateTyped

\* do_create: the rows that servers made exceed the quota by at most one for
\* every further server, whatever the command line does at the same time,
\* apart from rows whose call was dropped while the insert was pending.
THEOREM QuotaIsKept == Spec => []QuotaKept
<1>1. Init => Quota
  <2> SUFFICES ASSUME Init PROVE Quota
    OBVIOUS
  <2>1. Gated
    BY OwnerAssumption DEF Init, Gated
  <2>2. Counted = {}
    BY DEF Init, Counted, Passed
  <2>3. Cardinality(Servers) \in Nat /\ Cardinality(Servers) # 0
    BY FiniteAssumption, FS_CardinalityType, FS_EmptySet
  <2> QED BY <2>1, <2>2, <2>3, FS_EmptySet, LimitAssumption DEF Quota
<1>2. Typed /\ Quota /\ [Next]_vars => Quota'
  <2> SUFFICES ASSUME CreateTyped, Gated, [Next]_vars,
                      Cardinality(Counted) <= MaxSandboxes + Cardinality(Servers) - 1
               PROVE  Gated' /\ Cardinality(Counted') <= MaxSandboxes + Cardinality(Servers) - 1
    BY DEF Typed, Quota
  <2>1. CASE UNCHANGED createVars
    BY <2>1 DEF createVars, Gated, Counted, Passed
  <2>2. CASE CliRun \/ CliDestroy
    BY <2>2 DEF CliRun, CliDestroy, Gated, Counted, Passed
  <2>3. ASSUME NEW c \in Creates, CreateCall(c) \/ CreateStep(c) \/ CreateDeadline(c) \/ Destroy(c)
        PROVE  Gated' /\ Cardinality(Counted') <= MaxSandboxes + Cardinality(Servers) - 1
    <3> USE OwnerAssumption
    <3>1. CASE CreateCall(c)
      <4>1. Gated'
        BY <3>1 DEF CreateCall, Goto, Gated, CreateTyped
      <4>2. Counted' \subseteq Counted
        BY <3>1 DEF CreateCall, Goto, Counted, Passed, CreateTyped
      <4> QED BY <4>1, <4>2, FewerCounted
    <3>2. CASE TakeGate(c)
      <4>1. Gated'
        BY <3>2 DEF TakeGate, Goto, Gated, CreateTyped
      <4>2. Counted' \subseteq Counted
        BY <3>2 DEF TakeGate, Goto, Counted, Passed, CreateTyped
      <4> QED BY <4>1, <4>2, FewerCounted
    <3>3. CASE CheckQuota(c)
      <4>1. CASE Answer(c)
        <5>1. Gated'
          BY <3>3, <4>1, AnswerGated DEF CheckQuota, Gated
        <5>2. Counted' \subseteq Counted
          BY <3>3, <4>1 DEF CheckQuota, Answer, Goto, Counted, Passed, CreateTyped
        <5> QED BY <5>1, <5>2, FewerCounted
      <4>2. CASE Count < MaxSandboxes /\ Goto(c, "spawn") /\ UNCHANGED gate
        <5>1. Gated'
          BY <3>3, <4>2 DEF CheckQuota, Goto, Gated, CreateTyped
        <5>2. Counted' \subseteq rows \cup Passed \cup {c}
          BY <3>3, <4>2 DEF CheckQuota, Goto, Counted, Passed, CreateTyped
        <5> QED BY <3>3, <4>2, <5>1, <5>2, PassCheck DEF CheckQuota
      <4> QED BY <3>3, <4>1, <4>2 DEF CheckQuota
    <3>4. CASE SpawnToInsert(c)
      <4>1. Gated'
        <5>1. CASE Answer(c) /\ UNCHANGED pending
          BY <3>4, <5>1, AnswerGated DEF SpawnToInsert, Gated
        <5>2. CASE Goto(c, "insert") /\ pending' = pending \cup {c} /\ UNCHANGED gate
          BY <3>4, <5>2 DEF SpawnToInsert, Goto, Gated, CreateTyped
        <5> QED BY <3>4, <5>1, <5>2 DEF SpawnToInsert
      <4>2. Counted' \subseteq Counted
        BY <3>4 DEF SpawnToInsert, Answer, Goto, Counted, Passed, CreateTyped
      <4> QED BY <4>1, <4>2, FewerCounted
    <3>5. CASE Insert(c)
      <4>1. Gated'
        <5>0. pending' = pending \ {c} /\ UNCHANGED late
          BY <3>5 DEF Insert
        <5>1. CASE Answer(c)
          BY <5>0, <5>1, AnswerGated
        <5>2. CASE UNCHANGED <<pc, gate>>
          BY <5>0, <5>2 DEF Gated
        <5>3. CASE /\ pc' = [pc EXCEPT ![c] = IF @ = "insert" THEN "build" ELSE @]
                   /\ UNCHANGED gate
          BY <5>0, <5>3 DEF Gated, CreateTyped
        <5> QED BY <3>5, <5>1, <5>2, <5>3 DEF Insert
      <4>2. Counted' \subseteq Counted
        BY <3>5 DEF Insert, Answer, Goto, Gated, Counted, Passed, CreateTyped
      <4> QED BY <4>1, <4>2, FewerCounted
    <3>6. CASE SpawnEnds(c)
      <4>1. Gated'
        BY <3>6, AnswerGated DEF SpawnEnds, Gated
      <4>2. Counted' \subseteq Counted
        BY <3>6 DEF SpawnEnds, Answer, Goto, Counted, Passed, CreateTyped
      <4> QED BY <4>1, <4>2, FewerCounted
    <3>7. CASE CreateDeadline(c)
      <4>1. Gated'
        BY <3>7, AnswerGated DEF CreateDeadline
      <4>2. Counted' \subseteq Counted
        BY <3>7 DEF CreateDeadline, Answer, Goto, Counted, Passed, CreateTyped
      <4> QED BY <4>1, <4>2, FewerCounted
    <3>8. CASE Destroy(c)
      <4>1. Gated'
        BY <3>8 DEF Destroy, Gated
      <4>2. Counted' \subseteq Counted
        BY <3>8 DEF Destroy, Counted, Passed
      <4> QED BY <4>1, <4>2, FewerCounted
    <3> QED BY <2>3, <3>1, <3>2, <3>3, <3>4, <3>5, <3>6, <3>7, <3>8 DEF CreateStep
  <2>4. ASSUME NEW x \in ExecCalls, ExecCall(x) \/ ExecBegin(x) \/ ExecOutput(x) \/ ExecEnds(x)
                                      \/ ExecDeadline(x)
        PROVE  UNCHANGED createVars
    BY <2>4 DEF ExecCall, ExecBegin, ExecOutput, ExecEnds, ExecDeadline
  <2>5. CASE Tick
    BY <2>1, <2>5 DEF Tick
  <2> QED BY <2>1, <2>2, <2>3, <2>4, <2>5 DEF Next, vars
<1>3. Typed /\ Quota => QuotaKept
  <2> SUFFICES ASSUME CreateTyped, Quota PROVE QuotaKept
    BY DEF Typed
  <2>1. Counted \in SUBSET Creates /\ rows \ late \in SUBSET Counted
    BY DEF Counted, Passed, CreateTyped
  <2>2. IsFiniteSet(Counted) /\ IsFiniteSet(rows \ late) /\ Cardinality(rows \ late) <= Cardinality(Counted)
    BY <2>1, FS_Subset, FiniteAssumption
  <2>3. /\ Cardinality(Counted) \in Nat /\ Cardinality(rows \ late) \in Nat
        /\ Cardinality(Servers) \in Nat
    BY <2>2, FS_CardinalityType, FiniteAssumption
  <2> QED BY <2>2, <2>3, LimitAssumption DEF Quota, QuotaKept
<1> QED BY <1>1, <1>2, <1>3, TypedHolds, PTL DEF Spec
=============================================================================

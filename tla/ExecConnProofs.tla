--------------------------- MODULE ExecConnProofs ---------------------------
(***************************************************************************)
(* Proofs about one exec end to end, for any number of execs, background   *)
(* processes and output pipes and every capacity of socket and channel:    *)
(* it keeps what ExecPromise says.                                         *)
(***************************************************************************)
EXTENDS ExecConn, RouterProofs

-----------------------------------------------------------------------------
(* The router within the connection *)

\* Every step of the connections, the processes or the host is a step of the
\* router or leaves it alone.
LEMMA RouterSteps ==
    ASSUME [ConnNext]_connVars
    PROVE  [Next]_vars
<1>1. CASE UNCHANGED vars
  BY <1>1
<1>2. CASE UNCHANGED connVars
  BY <1>1, <1>2 DEF connVars
<1>3. ASSUME NEW k \in Execs, HostStep(k) \/ DogWakes(k)
      PROVE  UNCHANGED vars
  BY <1>3 DEF HostStep, ExecConnect, ExecSend, ExecDrop, Relay, Receive, DogWakes
<1>4. ASSUME NEW k \in Execs, GuestStep(k)
      PROVE  Start(k) \/ Claim(k) \/ Register(k) \/ UNCHANGED vars
  BY <1>4 DEF GuestStep, Accept, Probe, SpawnFails, SpawnChild, WriteStarted, ReadEof, CancelKill,
              JoinCompletion, PumpChunk, PumpEof, DogMarks, DogKills, WaitChild, StoreDone,
              WriteTerminal
<1>5. ASSUME NEW k \in Execs, NEW o \in Orphans, Fork(k, o)
      PROVE  Start(o)
  BY <1>5 DEF Fork
<1>6. ASSUME NEW k \in Execs, NEW s \in Streams, Output(k, s)
      PROVE  UNCHANGED vars
  BY <1>6 DEF Output
<1>7. ASSUME NEW j \in Children, ProcessDies(j) \/ Reaper(j)
      PROVE  Die(j) \/ Reap(j) \/ ReapUnknown(j) \/ Deliver(j) \/ Park(j)
  BY <1>7 DEF ProcessDies, Reaper
<1>8. CASE GuestKilled
  BY <1>8 DEF GuestKilled
<1> QED BY <1>1, <1>2, <1>3, <1>4, <1>5, <1>6, <1>7, <1>8 DEF ConnNext, Next, Children

\* The guest's connections use the router as its own specification says, so
\* everything proved of the router holds with the connections around it.
THEOREM ConnRoutes == ConnSpec => Spec
<1>1. ConnInit => Init
  BY DEF ConnInit
<1> QED BY <1>1, RouterSteps, PTL DEF ConnSpec, Spec

\* The router's invariant, for the connections.
LEMMA RouterHolds == ConnSpec => []Inv
BY ConnRoutes, RouterInvariant, PTL

-----------------------------------------------------------------------------
(* Types, but for the bounds that the flow of output gives *)

Tellings == [started : BOOLEAN, output : Nat, end : Terminals \cup {"none"}]

ChanOK == chan \in [Execs -> Seq(Events)] /\ \A k \in Execs : Len(chan[k]) <= ChanCap

HostOK ==
    /\ handle \in [Execs -> {"idle", "calling", "open", "over", "dropped", "refused"}]
    /\ deadline \in [Execs -> BOOLEAN] /\ relay \in [Execs -> {"none", "up", "closed"}]
    /\ ChanOK /\ told \in [Execs -> Tellings]

SocketOK ==
    /\ request \in [Execs -> BOOLEAN] /\ shut \in [Execs -> BOOLEAN]
    /\ wire \in [Execs -> Seq(Frames)] /\ \A k \in Execs : Len(wire[k]) <= WireCap

ThreadsOK ==
    /\ conn \in [Execs -> {"none", "request", "started", "reading", "killing",
                           "joining", "ended"}]
    /\ pump \in [Execs -> [Streams -> {"none", "run", "ended"}]]
    /\ dog \in [Execs -> {"off", "armed", "fired", "marked"}]
    /\ fin \in [Execs -> {"none", "wait", "pumps", "ended"}]
    /\ done \in [Execs -> BOOLEAN] /\ timed_out \in [Execs -> BOOLEAN]

ProcsOK ==
    /\ job \in [Orphans -> Execs \cup {None}] /\ daemon \in [Orphans -> BOOLEAN]
    /\ holds \in [Orphans -> SUBSET Streams]
    /\ killed \in [Children -> {"no", "watchdog", "cancel"}]

OutputOK == pipe \in [Execs -> [Streams -> Nat]] /\ produced \in [Execs -> 0..MaxOut]

ConnTyped == HostOK /\ SocketOK /\ ThreadsOK /\ ProcsOK /\ OutputOK /\ up \in BOOLEAN

\* What a step leaves alone keeps its type.
LEMMA SameTypes ==
    /\ HostOK /\ UNCHANGED hostVars => HostOK'
    /\ SocketOK /\ UNCHANGED socketVars => SocketOK'
    /\ ThreadsOK /\ UNCHANGED threadVars => ThreadsOK'
    /\ ProcsOK /\ UNCHANGED procVars => ProcsOK'
    /\ OutputOK /\ UNCHANGED outVars => OutputOK'
BY DEF HostOK, ChanOK, hostVars, SocketOK, socketVars, ThreadsOK, threadVars, flags, ProcsOK, procVars,
       OutputOK, outVars

\* write_frame: the socket takes a frame only while it has room.
LEMMA WritesTypes ==
    ASSUME SocketOK, NEW k \in Execs, NEW f \in Frames, Writes(k, f) \/ WriteFails(k),
           UNCHANGED request, shut' \in [Execs -> BOOLEAN]
    PROVE  SocketOK'
<1>1. /\ Append(wire[k], f) \in Seq(Frames) /\ Len(Append(wire[k], f)) = Len(wire[k]) + 1
      /\ Len(wire[k]) \in Nat
  BY AppendProperties, LenProperties DEF SocketOK
<1>2. CASE Writes(k, f)
  BY <1>1, <1>2, CapAssumption DEF SocketOK, Writes
<1>3. CASE WriteFails(k)
  BY <1>3 DEF SocketOK, WriteFails
<1> QED BY <1>2, <1>3

\* The relay's channel takes an event only while it has room.
LEMMA RelaySendTypes ==
    ASSUME HostOK, NEW k \in Execs, NEW e \in Events, RelaySend(k, e),
           UNCHANGED <<handle, deadline, told>>
    PROVE  HostOK'
<1>1. /\ Append(chan[k], e) \in Seq(Events) /\ Len(Append(chan[k], e)) = Len(chan[k]) + 1
      /\ Len(chan[k]) \in Nat
  BY AppendProperties, LenProperties DEF HostOK, ChanOK
<1>2. ChanOK'
  <2>1. CASE UNCHANGED chan
    BY <2>1 DEF HostOK, ChanOK
  <2>2. CASE Len(chan[k]) < ChanCap /\ chan' = [chan EXCEPT ![k] = Append(@, e)]
    BY <1>1, <2>2, CapAssumption DEF HostOK, ChanOK
  <2> QED BY <2>1, <2>2 DEF RelaySend
<1>3. relay' \in [Execs -> {"none", "up", "closed"}]
  BY DEF HostOK, RelaySend
<1> QED BY <1>2, <1>3 DEF HostOK

\* What a received event adds to what the caller knows.
Heard(t, e) == CASE e = "started" -> [t EXCEPT !.started = TRUE]
                 [] e = "output"  -> [t EXCEPT !.output = @ + 1]
                 [] OTHER         -> [t EXCEPT !.end = e]

\* Each event changes the one field that it is about.
LEMMA HeardIs ==
    ASSUME NEW t \in Tellings, NEW e \in Events
    PROVE  /\ Heard(t, e) \in Tellings
           /\ Heard(t, e).started = (t.started \/ e = "started")
           /\ Heard(t, e).output = IF e = "output" THEN t.output + 1 ELSE t.output
           /\ Heard(t, e).end = IF e \in Terminals THEN e ELSE t.end
<1>1. CASE e = "started"
  BY <1>1 DEF Heard, Terminals, Tellings
<1>2. CASE e = "output"
  BY <1>2 DEF Heard, Terminals, Tellings
<1>3. CASE e \in Terminals
  BY <1>3 DEF Heard, Terminals, Tellings
<1> QED BY <1>1, <1>2, <1>3 DEF Events

\* ExecHandle::next_event, in these terms.
LEMMA Received ==
    ASSUME HostOK, NEW k \in Execs, Receive(k)
    PROVE  /\ handle[k] = "open" /\ chan[k] # << >> /\ Head(chan[k]) \in Events
           /\ chan' = [chan EXCEPT ![k] = Tail(@)]
           /\ Tail(chan[k]) \in Seq(Events) /\ Len(Tail(chan[k])) = Len(chan[k]) - 1
           /\ Len(chan[k]) \in Nat \ {0} /\ Head(chan[k]) = chan[k][1]
           /\ \A i \in 1..Len(Tail(chan[k])) : Tail(chan[k])[i] = chan[k][i + 1]
           /\ told' = [told EXCEPT ![k] = Heard(@, Head(chan[k]))]
           /\ handle' = [handle EXCEPT ![k] = IF Head(chan[k]) \in Terminals THEN "over" ELSE @]
           /\ UNCHANGED <<vars, deadline, relay, socketVars, threadVars, procVars, outVars, up>>
<1>1. chan[k] # << >> /\ chan[k] \in Seq(Events)
  BY DEF Receive, HostOK, ChanOK
<1>2. Head(chan[k]) \in Events /\ Tail(chan[k]) \in Seq(Events) /\ Len(Tail(chan[k])) = Len(chan[k]) - 1
      /\ \A i \in 1..Len(Tail(chan[k])) : Tail(chan[k])[i] = chan[k][i + 1]
  BY <1>1, HeadTailProperties
<1>3. Len(chan[k]) \in Nat \ {0} /\ Head(chan[k]) = chan[k][1]
  BY <1>1, EmptySeq
<1> QED BY <1>1, <1>2, <1>3 DEF Receive, Heard

\* The relay's read of a frame.
LEMMA Relayed ==
    ASSUME SocketOK, NEW k \in Execs, wire[k] # << >>
    PROVE  /\ Head(wire[k]) \in Frames /\ EventOf(Head(wire[k])) \in Events
           /\ Tail(wire[k]) \in Seq(Frames) /\ Len(Tail(wire[k])) = Len(wire[k]) - 1
           /\ Len(wire[k]) \in Nat \ {0} /\ Head(wire[k]) = wire[k][1]
           /\ \A i \in 1..Len(Tail(wire[k])) : Tail(wire[k])[i] = wire[k][i + 1]
<1>1. wire[k] \in Seq(Frames)
  BY DEF SocketOK
<1>2. Head(wire[k]) \in Frames /\ Tail(wire[k]) \in Seq(Frames) /\ Len(Tail(wire[k])) = Len(wire[k]) - 1
      /\ \A i \in 1..Len(Tail(wire[k])) : Tail(wire[k])[i] = wire[k][i + 1]
  BY <1>1, HeadTailProperties
<1>3. Len(wire[k]) \in Nat \ {0} /\ Head(wire[k]) = wire[k][1]
  BY <1>1, EmptySeq
<1>4. \A f \in Frames : EventOf(f) \in Events
  BY DEF EventOf, Frames, Events, Terminals
<1> QED BY <1>1, <1>2, <1>3, <1>4

\* The host's steps keep the types.
LEMMA HostTypes ==
    ASSUME ConnTyped, NEW k \in Execs, HostStep(k)
    PROVE  ConnTyped'
<1> USE SameTypes DEF ConnTyped
<1>1. CASE ExecConnect(k)
  <2>1. HostOK'
    BY <1>1 DEF ExecConnect, HostOK, ChanOK
  <2> QED BY <1>1, <2>1 DEF ExecConnect
<1>2. CASE ExecSend(k)
  <2>1. HostOK' /\ SocketOK'
    BY <1>2 DEF ExecSend, HostOK, ChanOK, SocketOK
  <2> QED BY <1>2, <2>1 DEF ExecSend
<1>3. CASE ExecDrop(k)
  <2>1. << >> \in Seq(Events) /\ Len(<< >>) = 0
    BY EmptySeq
  <2>2. HostOK'
    BY <1>3, <2>1, CapAssumption DEF ExecDrop, HostOK, ChanOK
  <2> QED BY <1>3, <2>2 DEF ExecDrop
<1>4. CASE Relay(k)
  <2>1. "failed" \in Events
    BY DEF Events, Terminals
  <2>2. HostOK'
    BY <1>4, <2>1, Relayed, RelaySendTypes DEF Relay
  <2>3. SocketOK'
    <3>1. CASE wire[k] # << >> /\ wire' = [wire EXCEPT ![k] = Tail(@)]
      BY <1>4, <3>1, Relayed, CapAssumption DEF Relay, SocketOK
    <3>2. CASE UNCHANGED wire
      BY <1>4, <3>2 DEF Relay, SocketOK
    <3> QED BY <1>4, <3>1, <3>2 DEF Relay
  <2> QED BY <1>4, <2>2, <2>3 DEF Relay
<1>5. CASE Receive(k)
  <2>0. /\ chan' = [chan EXCEPT ![k] = Tail(@)] /\ Head(chan[k]) \in Events
        /\ Tail(chan[k]) \in Seq(Events) /\ Len(Tail(chan[k])) = Len(chan[k]) - 1 /\ Len(chan[k]) \in Nat
        /\ told' = [told EXCEPT ![k] = Heard(@, Head(chan[k]))]
        /\ handle' = [handle EXCEPT ![k] = IF Head(chan[k]) \in Terminals THEN "over" ELSE @]
        /\ UNCHANGED <<deadline, relay>>
    BY <1>5, Received
  <2>1. ChanOK'
    BY <2>0, CapAssumption DEF HostOK, ChanOK
  <2>2. told' \in [Execs -> Tellings]
    BY <2>0, HeardIs DEF HostOK
  <2>3. HostOK'
    BY <2>0, <2>1, <2>2 DEF HostOK
  <2> QED BY <1>5, <2>3, Received
<1> QED BY <1>1, <1>2, <1>3, <1>4, <1>5 DEF HostStep

\* The steps of the guest's threads keep the types.
LEMMA GuestTypes ==
    ASSUME ConnTyped, NEW k \in Execs, GuestStep(k) \/ DogWakes(k)
    PROVE  ConnTyped'
<1> USE SameTypes DEF ConnTyped
<1>0. "error" \in Frames /\ "started" \in Frames /\ "output" \in Frames
      /\ "timeout" \in Frames /\ "exit" \in Frames
  BY DEF Frames
<1>1. CASE Accept(k) \/ ReadEof(k) \/ JoinCompletion(k) \/ DogMarks(k) \/ DogWakes(k) \/ StoreDone(k)
  <2>1. ThreadsOK'
    BY <1>1 DEF Accept, ReadEof, JoinCompletion, DogMarks, DogWakes, StoreDone, ThreadsOK, flags
  <2> QED BY <1>1, <2>1 DEF Accept, ReadEof, JoinCompletion, DogMarks, DogWakes, StoreDone
<1>2. CASE Probe(k)
  <2>1. ThreadsOK' /\ SocketOK'
    BY <1>2 DEF Probe, ThreadsOK, SocketOK, flags
  <2> QED BY <1>2, <2>1 DEF Probe
<1>3. CASE SpawnFails(k)
  <2>1. ThreadsOK' /\ shut' \in [Execs -> BOOLEAN]
    BY <1>3 DEF SpawnFails, ThreadsOK, SocketOK, flags
  <2>2. SocketOK'
    BY <1>0, <1>3, <2>1, WritesTypes DEF SpawnFails
  <2> QED BY <1>3, <2>1, <2>2 DEF SpawnFails
<1>4. CASE SpawnChild(k)
  <2>1. ThreadsOK'
    BY <1>4 DEF SpawnChild, ThreadsOK, flags
  <2> QED BY <1>4, <2>1 DEF SpawnChild
<1>5. CASE WriteStarted(k)
  <2>1. shut' \in [Execs -> BOOLEAN]
    BY <1>5 DEF WriteStarted, SocketOK
  <2>3. ThreadsOK'
    <3>1. [s \in Streams |-> "run"] \in [Streams -> {"none", "run", "ended"}]
          /\ [s \in Streams |-> "ended"] \in [Streams -> {"none", "run", "ended"}]
      OBVIOUS
    <3>2. pump' \in [Execs -> [Streams -> {"none", "run", "ended"}]]
      BY <1>5, <3>1 DEF WriteStarted, ThreadsOK
    <3>3. /\ conn' \in [Execs -> {"none", "request", "started", "reading", "killing",
                                   "joining", "ended"}]
          /\ dog' \in [Execs -> {"off", "armed", "fired", "marked"}]
          /\ fin' \in [Execs -> {"none", "wait", "pumps", "ended"}]
      BY <1>5 DEF WriteStarted, ThreadsOK
    <3> QED BY <1>5, <3>2, <3>3 DEF WriteStarted, ThreadsOK, flags
  <2>2. SocketOK'
    BY <1>0, <1>5, <2>1, WritesTypes DEF WriteStarted
  <2> QED BY <1>5, <2>2, <2>3 DEF WriteStarted
<1>6. CASE CancelKill(k) \/ DogKills(k)
  <2>1. ThreadsOK'
    BY <1>6 DEF CancelKill, DogKills, ThreadsOK, flags
  <2>2. ProcsOK'
    BY <1>6 DEF CancelKill, DogKills, KillGroup, ProcsOK
  <2> QED BY <1>6, <2>1, <2>2 DEF CancelKill, DogKills
<1>7. ASSUME NEW s \in Streams, PumpChunk(k, s)
      PROVE  ConnTyped'
  <2>1. ThreadsOK'
    BY <1>7 DEF PumpChunk, ThreadsOK, flags
  <2>2. SocketOK'
    BY <1>0, <1>7, WritesTypes DEF PumpChunk, SocketOK
  <2>3. OutputOK'
    <3>1. pipe[k] \in [Streams -> Nat] /\ pipe[k][s] > 0
      BY <1>7 DEF PumpChunk, OutputOK
    <3>2. [pipe[k] EXCEPT ![s] = @ - 1] \in [Streams -> Nat]
      BY <3>1
    <3>3. pipe' = [pipe EXCEPT ![k] = [pipe[k] EXCEPT ![s] = @ - 1]]
      BY <1>7 DEF PumpChunk, OutputOK
    <3> QED BY <1>7, <3>2, <3>3 DEF PumpChunk, OutputOK
  <2> QED BY <1>7, <2>1, <2>2, <2>3 DEF PumpChunk
<1>8. ASSUME NEW s \in Streams, PumpEof(k, s)
      PROVE  ConnTyped'
  <2>1. ThreadsOK'
    BY <1>8 DEF PumpEof, ThreadsOK, flags
  <2> QED BY <1>8, <2>1 DEF PumpEof
<1>9. CASE WaitChild(k)
  BY <1>9 DEF WaitChild
<1>10. CASE WriteTerminal(k)
  <2>1. ThreadsOK' /\ shut' \in [Execs -> BOOLEAN]
    BY <1>10 DEF WriteTerminal, ThreadsOK, SocketOK, flags
  <2>2. SocketOK'
    BY <1>0, <1>10, <2>1, WritesTypes DEF WriteTerminal
  <2> QED BY <1>10, <2>1, <2>2 DEF WriteTerminal
<1> QED BY <1>1, <1>2, <1>3, <1>4, <1>5, <1>6, <1>7, <1>8, <1>9, <1>10 DEF GuestStep

\* What the processes, the reaper and the sandbox's end do.
WorldStep ==
    \/ \E k \in Execs, o \in Orphans : Fork(k, o)
    \/ \E k \in Execs, s \in Streams : Output(k, s)
    \/ \E j \in Children : ProcessDies(j) \/ Reaper(j)
    \/ GuestKilled

\* The steps of the processes and the reaper keep the types.
LEMMA WorldTypes ==
    ASSUME ConnTyped, WorldStep
    PROVE  ConnTyped'
<1> USE SameTypes DEF ConnTyped
<1>1. ASSUME NEW k \in Execs, NEW o \in Orphans, Fork(k, o) PROVE ConnTyped'
  <2>1. ProcsOK'
    BY <1>1 DEF Fork, ProcsOK
  <2> QED BY <1>1, <2>1 DEF Fork
<1>2. ASSUME NEW k \in Execs, NEW s \in Streams, Output(k, s) PROVE ConnTyped'
  <2>1. OutputOK'
    <3>1. pipe' = [pipe EXCEPT ![k] = [pipe[k] EXCEPT ![s] = @ + 1]]
      BY <1>2 DEF Output, OutputOK
    <3>2. [pipe[k] EXCEPT ![s] = @ + 1] \in [Streams -> Nat]
      BY DEF OutputOK
    <3> QED BY <1>2, <3>1, <3>2, CapAssumption DEF Output, OutputOK
  <2> QED BY <1>2, <2>1 DEF Output
<1>3. ASSUME NEW j \in Children, ProcessDies(j) \/ Reaper(j) PROVE ConnTyped'
  BY <1>3 DEF ProcessDies, Reaper
<1>4. CASE GuestKilled
  BY <1>4 DEF GuestKilled
<1> QED BY <1>1, <1>2, <1>3, <1>4 DEF WorldStep

\* ConnTyped is an invariant of the connections.
LEMMA TypedHolds == ConnSpec => []ConnTyped
<1>1. ConnInit => ConnTyped
  <2> SUFFICES ASSUME ConnInit PROVE ConnTyped
    OBVIOUS
  <2>1. << >> \in Seq(Events) /\ << >> \in Seq(Frames) /\ Len(<< >>) = 0
    BY EmptySeq
  <2>2. HostOK
    <3>1. Nothing \in Tellings
      BY DEF Nothing, Tellings
    <3> QED BY <2>1, <3>1, CapAssumption DEF ConnInit, HostOK, ChanOK
  <2>3. SocketOK
    BY <2>1, CapAssumption DEF ConnInit, SocketOK
  <2>4. ThreadsOK /\ ProcsOK /\ OutputOK
    BY CapAssumption DEF ConnInit, ThreadsOK, ProcsOK, OutputOK
  <2> QED BY <2>2, <2>3, <2>4 DEF ConnInit, ConnTyped
<1>2. ConnTyped /\ [ConnNext]_connVars => ConnTyped'
  <2>1. CASE UNCHANGED connVars
    BY <2>1, SameTypes DEF connVars, ConnTyped
  <2> QED BY <2>1, HostTypes, GuestTypes, WorldTypes DEF ConnNext, WorldStep
<1> QED BY <1>1, <1>2, PTL DEF ConnSpec

-----------------------------------------------------------------------------
(* What a step can do to processes, and to the rows of other execs *)

\* A process that was started stays started, a status that has come stays, and
\* output that nobody holds open is never held open again.
Onward(k) ==
    /\ life[k] # "unborn" => life'[k] # "unborn"
    /\ thread[k] = "done" => thread'[k] = "done"
    /\ \A s \in Streams : life[k] # "unborn" /\ Holders(k, s) = {} => Holders(k, s)' = {}

\* How the router's steps change a process's life.
LEMMA Lives ==
    ASSUME Inv, Inv', [Next]_vars, NEW j \in Children
    PROVE  /\ life[j] # "unborn" => life'[j] # "unborn"
           /\ life[j] = "unborn" /\ life'[j] # "unborn" => Start(j)
           /\ life'[j] = "running" => life[j] = "running" \/ Start(j)
<1> USE DEF Inv, TypeOK
<1>1. /\ life[j] = "unborn" <=> pid[j] = None
      /\ life'[j] = "unborn" <=> pid'[j] = None
  BY DEF Linked
<1>2. CASE UNCHANGED vars
  BY <1>2 DEF vars
<1>3. ASSUME NEW k \in Children, Start(k) PROVE (pid'[j] = pid[j] /\ life'[j] = life[j]) \/ Start(j)
  BY <1>3 DEF Start
<1>4. ASSUME NEW k \in Children, Start(k) PROVE life'[k] = "running" /\ life[k] = "unborn"
  BY <1>4 DEF Start
<1>5. ASSUME NEW k \in Children, Die(k) \/ Reap(k) \/ ReapUnknown(k) \/ Deliver(k) \/ Park(k)
      PROVE  UNCHANGED pid /\ (life'[j] = "running" => life[j] = "running")
  BY <1>5 DEF Die, Reap, ReapUnknown, Deliver, Park
<1>6. ASSUME NEW k \in Execs, Claim(k) \/ Register(k)
      PROVE  UNCHANGED <<pid, life>>
  BY <1>6 DEF Claim, Register
<1> QED BY <1>1, <1>2, <1>3, <1>4, <1>5, <1>6 DEF Next, NoChild

\* A thread that has its status is done.
LEMMA ThreadsStayDone ==
    ASSUME Inv, [Next]_vars, NEW k \in Execs, thread[k] = "done"
    PROVE  thread'[k] = "done"
<1> USE DEF Inv, TypeOK
<1>1. life[k] # "unborn"
  BY DEF Linked
<1>2. CASE UNCHANGED vars
  BY <1>2 DEF vars
<1>3. ASSUME NEW j \in Children, Start(j) PROVE thread'[k] = "done"
  BY <1>1, <1>3 DEF Start
<1>4. ASSUME NEW j \in Children, Die(j) \/ Reap(j) \/ ReapUnknown(j) \/ Deliver(j) \/ Park(j)
      PROVE  thread'[k] = "done"
  BY <1>4 DEF Die, Reap, ReapUnknown, Deliver, Park
<1>5. ASSUME NEW j \in Execs, Claim(j) PROVE thread'[k] = "done"
  BY <1>5 DEF Claim
<1>6. ASSUME NEW j \in Execs, Register(j) PROVE thread'[k] = "done"
  <2>1. pid[j] \in Pids /\ thread[j] = "spawned"
    BY <1>6, ChildrenAssumption DEF Register, Linked, Children
  <2>2. k # waiters[pid[j]]
    BY <2>1, ChildrenAssumption DEF Linked, Children
  <2> QED BY <1>6, <2>1, <2>2 DEF Register
<1> QED BY <1>2, <1>3, <1>4, <1>5, <1>6 DEF Next, NoChild

\* Who forked a background process, and what it holds, is settled by its fork.
LEMMA ForksOnly ==
    ASSUME [ConnNext]_connVars
    PROVE  UNCHANGED <<job, holds, daemon>> \/ \E k \in Execs, o \in Orphans : Fork(k, o)
<1>1. CASE UNCHANGED connVars
  BY <1>1 DEF connVars, procVars
<1>2. ASSUME NEW k \in Execs, HostStep(k) \/ DogWakes(k)
      PROVE  UNCHANGED <<job, holds, daemon>>
  BY <1>2 DEF HostStep, ExecConnect, ExecSend, ExecDrop, Relay, Receive, DogWakes, procVars
<1>3. ASSUME NEW k \in Execs, GuestStep(k)
      PROVE  UNCHANGED <<job, holds, daemon>>
  BY <1>3 DEF GuestStep, Accept, Probe, SpawnFails, SpawnChild, WriteStarted, ReadEof, CancelKill,
              JoinCompletion, PumpChunk, PumpEof, DogMarks, DogKills, WaitChild, StoreDone,
              WriteTerminal, procVars
<1>4. ASSUME NEW k \in Execs, NEW s \in Streams, Output(k, s)
      PROVE  UNCHANGED <<job, holds, daemon>>
  BY <1>4 DEF Output, procVars
<1>5. ASSUME NEW j \in Children, ProcessDies(j) \/ Reaper(j)
      PROVE  UNCHANGED <<job, holds, daemon>>
  BY <1>5 DEF ProcessDies, Reaper, procVars
<1>6. CASE GuestKilled
  BY <1>6 DEF GuestKilled, procVars
<1> QED BY <1>1, <1>2, <1>3, <1>4, <1>5, <1>6 DEF ConnNext

\* A background process that belongs to a command was started, as the command was.
Born == \A o \in Orphans : job[o] # None => life[o] # "unborn" /\ life[job[o]] # "unborn"

\* Every step keeps it.
LEMMA BornStep ==
    ASSUME ConnTyped, Inv, Inv', Born, [ConnNext]_connVars
    PROVE  Born'
<1> USE DEF Children
<1>1. \A j \in Children : life[j] # "unborn" => life'[j] # "unborn"
  BY Lives, RouterSteps
<1>2. CASE UNCHANGED job
  BY <1>1, <1>2 DEF Born, ConnTyped, ProcsOK
<1>3. ASSUME NEW k \in Execs, NEW o \in Orphans, Fork(k, o) PROVE Born'
  <2>1. job' = [job EXCEPT ![o] = k] /\ life'[o] = "running" /\ life[k] # "unborn"
    BY <1>3 DEF Fork, Start, Inv, TypeOK
  <2> QED BY <1>1, <2>1 DEF Born, ConnTyped, ProcsOK
<1> QED BY <1>2, <1>3, ForksOnly

\* Every step goes on in this sense, for every exec.
LEMMA AllOnward ==
    ASSUME ConnTyped, Inv, Inv', Born, [ConnNext]_connVars, NEW k \in Execs
    PROVE  Onward(k)
<1> USE RouterSteps, ChildrenAssumption DEF Children
<1>1. life[k] # "unborn" => life'[k] # "unborn"
  BY Lives
<1>2. thread[k] = "done" => thread'[k] = "done"
  BY ThreadsStayDone
<1>3. ASSUME NEW s \in Streams, life[k] # "unborn", Holders(k, s) = {}
      PROVE  Holders(k, s)' = {}
  <2>1. \A j \in Children : life'[j] = "running" => life[j] = "running" \/ Start(j)
    BY Lives
  <2>2. ~Start(k) /\ life[k] # "running"
    BY <1>3 DEF Start, Holders
  <2>3. life'[k] # "running"
    BY <2>1, <2>2
  <2>4. ASSUME UNCHANGED <<job, holds>>, NEW o \in Orphans, life'[o] = "running", job[o] = k, s \in holds[o]
        PROVE  FALSE
    <3>1. life[o] # "running"
      BY <1>3, <2>4 DEF Holders
    <3>2. Start(o)
      BY <2>1, <2>4, <3>1
    <3> QED BY <2>4, <3>2 DEF Born, Start
  <2>5. ASSUME NEW c \in Execs, NEW o \in Orphans, Fork(c, o)
        PROVE  Holders(k, s)' = {}
    <3>1. c # k
      BY <2>2, <2>5 DEF Fork
    <3>2. \A j \in Orphans \ {o} : life'[j] = life[j] /\ job'[j] = job[j] /\ holds'[j] = holds[j]
      BY <2>5 DEF Fork, Start, ConnTyped, ProcsOK, Inv, TypeOK
    <3>3. job'[o] = c
      BY <2>5 DEF Fork, ConnTyped, ProcsOK
    <3> QED BY <1>3, <2>3, <3>1, <3>2, <3>3 DEF Holders
  <2> QED BY <2>3, <2>4, <2>5, ForksOnly DEF Holders
<1> QED BY <1>1, <1>2, <1>3 DEF Onward

\* What handle, socket and threads keep about one exec.
Row(k) == <<handle[k], deadline[k], relay[k], chan[k], told[k], request[k], wire[k], shut[k],
            conn[k], pump[k], dog[k], fin[k], done[k], timed_out[k]>>

\* One exec's host and guest threads do not touch the row of another.
LEMMA OtherRows ==
    ASSUME ConnTyped, NEW c \in Execs, HostStep(c) \/ GuestStep(c) \/ DogWakes(c),
           NEW k \in Execs \ {c}
    PROVE  UNCHANGED <<Row(k), pipe[k], produced[k]>>
<1> USE DEF ConnTyped, HostOK, ChanOK, SocketOK, ThreadsOK, OutputOK, Row
<1> USE DEF hostVars, socketVars, threadVars, flags, outVars
<1>1. CASE ExecConnect(c) \/ ExecSend(c) \/ ExecDrop(c)
  BY <1>1 DEF ExecConnect, ExecSend, ExecDrop
<1>2. CASE Relay(c)
  BY <1>2 DEF Relay, RelaySend
<1>3. CASE Receive(c)
  BY <1>3 DEF Receive
<1>4. CASE Accept(c) \/ Probe(c) \/ SpawnChild(c) \/ ReadEof(c) \/ CancelKill(c)
           \/ JoinCompletion(c)
  BY <1>4 DEF Accept, Probe, SpawnChild, ReadEof, CancelKill, JoinCompletion
<1>5. CASE SpawnFails(c) \/ WriteTerminal(c)
  BY <1>5 DEF SpawnFails, WriteTerminal, Writes, WriteFails
<1>6. CASE WriteStarted(c)
  BY <1>6 DEF WriteStarted, Writes, WriteFails
<1>7. ASSUME NEW s \in Streams, PumpChunk(c, s) \/ PumpEof(c, s)
      PROVE  UNCHANGED <<Row(k), pipe[k], produced[k]>>
  BY <1>7 DEF PumpChunk, PumpEof, Writes, WriteFails
<1>8. CASE DogMarks(c) \/ DogKills(c) \/ DogWakes(c) \/ WaitChild(c) \/ StoreDone(c)
  BY <1>8 DEF DogMarks, DogKills, DogWakes, WaitChild, StoreDone
<1> QED BY <1>1, <1>2, <1>3, <1>4, <1>5, <1>6, <1>7, <1>8 DEF HostStep, GuestStep

\* The processes and the reaper touch no row, and only writing touches a pipe.
LEMMA WorldRows ==
    ASSUME WorldStep, NEW k \in Execs
    PROVE  /\ UNCHANGED Row(k)
           /\ UNCHANGED <<pipe, produced>> \/ \E c \in Execs, s \in Streams : Output(c, s)
<1> USE DEF hostVars, socketVars, threadVars, flags, outVars, Row
<1>1. ASSUME NEW c \in Execs, NEW o \in Orphans, Fork(c, o)
      PROVE  UNCHANGED <<Row(k), pipe, produced>>
  BY <1>1 DEF Fork
<1>2. ASSUME NEW c \in Execs, NEW s \in Streams, Output(c, s)
      PROVE  UNCHANGED Row(k)
  BY <1>2 DEF Output
<1>3. ASSUME NEW j \in Children, ProcessDies(j) \/ Reaper(j)
      PROVE  UNCHANGED <<Row(k), pipe, produced>>
  BY <1>3 DEF ProcessDies, Reaper
<1>4. CASE GuestKilled
  BY <1>4 DEF GuestKilled
<1> QED BY <1>1, <1>2, <1>3, <1>4 DEF WorldStep

-----------------------------------------------------------------------------
(* Where the host, the threads and the processes of an exec are *)

\* The host's end: nothing was sent before the call, and nobody is at the other
\* end of a connection that was not made.
HostSide(k) ==
    /\ relay[k] = "none" => handle[k] \in {"idle", "refused"} /\ conn[k] = "none"
    /\ handle[k] = "idle" => relay[k] = "none"
    /\ handle[k] = "calling" => relay[k] = "up"
    /\ handle[k] \in {"idle", "calling"} => ~request[k] /\ chan[k] = << >> /\ told[k] = Nothing

\* Before Started is written there is nothing on its way to the host, and no
\* thread but the main one.
Early(k) ==
    conn[k] \in {"none", "request", "started"} =>
        /\ fin[k] = "none" /\ wire[k] = << >> /\ ~told[k].started
        /\ relay[k] # "closed" => chan[k] = << >>
        /\ \A n \in 1..Len(chan[k]) : chan[k][n] # "started"
        /\ \A s \in Streams : pump[k][s] = "none"

\* Without a completion thread there are no other threads either; with it, the
\* command was started, and the flags say where the threads are.
Late(k) ==
    /\ conn[k] = "started" \/ fin[k] # "none" => life[k] # "unborn" /\ request[k]
    /\ conn[k] \in {"reading", "killing", "joining"} => fin[k] # "none"
    /\ fin[k] = "none" => /\ dog[k] = "off" /\ ~timed_out[k]
                          /\ \A s \in Streams : pump[k][s] # "run"
    /\ fin[k] = "ended" => \A s \in Streams : pump[k][s] = "ended"
    /\ done[k] <=> fin[k] \in {"pumps", "ended"}
    /\ done[k] => thread[k] = "done"
    /\ dog[k] # "off" \/ timed_out[k] => deadline[k]
    /\ dog[k] = "marked" => timed_out[k]

\* As long as the host listens, a pump ends only at the end of its pipe.
Drained(k) ==
    relay[k] = "up" => \A s \in Streams : pump[k][s] = "ended" =>
        /\ pipe[k][s] = 0 /\ Holders(k, s) = {}
        /\ fin[k] # "none"

Control(k) == HostSide(k) /\ Early(k) /\ Late(k) /\ Drained(k)

\* A step that does not touch the row keeps this.
LEMMA RowControl ==
    ASSUME NEW k \in Execs, Control(k), Onward(k), UNCHANGED Row(k),
           \A s \in Streams : pump[k][s] = "ended" => UNCHANGED pipe[k][s]
    PROVE  Control(k)'
<1> USE DEF Control, Row, Onward
<1>1. HostSide(k)'
  BY DEF HostSide
<1>2. Early(k)'
  BY DEF Early
<1>3. Late(k)'
  BY DEF Late
<1>4. Drained(k)'
  BY DEF Late, Drained
<1> QED BY <1>1, <1>2, <1>3, <1>4

\* The host's steps leave the threads where they are.
LEMMA ThreadControl ==
    ASSUME NEW k \in Execs, Early(k), Late(k), Drained(k), Onward(k),
           UNCHANGED <<conn[k], pump[k], dog[k], fin[k], done[k], timed_out[k], pipe[k]>>,
           \/ fin[k] = "none" /\ conn[k] # "started"
           \/ UNCHANGED <<deadline[k], request[k]>>,
           relay'[k] = "up" /\ conn[k] # "none" => relay[k] = "up"
    PROVE  Late(k)' /\ Drained(k)'
<1>1. Late(k)'
  BY DEF Late, Onward
<1>2. ASSUME NEW s \in Streams, relay'[k] = "up", pump[k][s] = "ended"
      PROVE  pipe[k][s] = 0 /\ Holders(k, s)' = {} /\ fin[k] # "none"
  <2>1. pipe[k][s] = 0 /\ Holders(k, s) = {} /\ fin[k] # "none"
    BY <1>2 DEF Drained, Early
  <2> QED BY <2>1 DEF Late, Onward
<1>3. Drained(k)'
  BY <1>2 DEF Drained
<1> QED BY <1>1, <1>3

\* The host's steps keep it.
LEMMA HostControl ==
    ASSUME ConnTyped, NEW k \in Execs, Control(k), Onward(k), HostStep(k)
    PROVE  Control(k)'
<1> USE DEF socketVars, threadVars, flags, outVars
<1> USE DEF Control, ConnTyped, HostOK, ChanOK, SocketOK, ThreadsOK
<1>1. CASE ExecConnect(k)
  <2>1. HostSide(k)' /\ Early(k)'
    BY <1>1 DEF ExecConnect, HostSide, Early
  <2> QED BY <1>1, <2>1, ThreadControl DEF ExecConnect, HostSide, Early
<1>2. CASE ExecSend(k)
  <2>1. HostSide(k)' /\ Early(k)'
    BY <1>2 DEF ExecSend, HostSide, Early
  <2> QED BY <1>2, <2>1, ThreadControl DEF ExecSend, HostSide, Late
<1>3. CASE ExecDrop(k)
  <2>1. HostSide(k)' /\ Early(k)'
    BY <1>3 DEF ExecDrop, HostSide, Early
  <2> QED BY <1>3, <2>1, ThreadControl DEF ExecDrop
<1>4. CASE Relay(k)
  <2>1. HostSide(k)'
    BY <1>4 DEF Relay, RelaySend, HostSide
  <2>2. Early(k)'
    BY <1>4 DEF Relay, RelaySend, Early, Terminals
  <2>3. relay'[k] = "up" => relay[k] = "up"
    BY <1>4 DEF Relay
  <2> QED BY <1>4, <2>1, <2>2, <2>3, ThreadControl DEF Relay
<1>5. CASE Receive(k)
  <2>1. HostSide(k)'
    BY <1>5, Received DEF HostSide
  <2>2. Early(k)'
    <3>1. ASSUME conn[k] \in {"none", "request", "started"}
          PROVE  /\ Head(chan[k]) # "started" /\ relay'[k] = "closed"
                 /\ \A n \in 1..Len(Tail(chan[k])) : Tail(chan[k])[n] # "started"
      BY <1>5, <3>1, Received DEF Early
    <3>2. told'[k] = Heard(told[k], Head(chan[k])) /\ told[k] \in Tellings /\ Head(chan[k]) \in Events
      BY <1>5, Received
    <3>3. told'[k].started = (told[k].started \/ Head(chan[k]) = "started")
      BY <3>2, HeardIs
    <3>4. UNCHANGED <<conn, fin, wire, pump>> /\ chan'[k] = Tail(chan[k])
      BY <1>5, Received
    <3> QED BY <3>1, <3>3, <3>4 DEF Early
  <2> QED BY <1>5, <2>1, <2>2, Received, ThreadControl
<1> QED BY <1>1, <1>2, <1>3, <1>4, <1>5 DEF HostStep

\* Guest steps leave the host's side alone but for who is at the other end.
LEMMA GuestHostSide ==
    ASSUME NEW k \in Execs, HostSide(k), UNCHANGED <<handle[k], relay[k], request[k], chan[k], told[k]>>,
           relay[k] # "none" \/ UNCHANGED conn[k]
    PROVE  HostSide(k)'
BY DEF HostSide

\* A pump ends at the end of its pipe, or because the host is gone.
LEMMA GuestDrained ==
    ASSUME NEW k \in Execs, Late(k), Drained(k), Onward(k), UNCHANGED relay[k],
           fin[k] # "none" => fin'[k] # "none",
           \A s \in Streams : relay[k] = "up" /\ pump'[k][s] = "ended" =>
             \/ pump[k][s] = "ended" /\ UNCHANGED pipe[k][s]
             \/ pipe'[k][s] = 0 /\ Holders(k, s) = {} /\ fin[k] # "none"
    PROVE  Drained(k)'
<1> SUFFICES ASSUME NEW s \in Streams, relay[k] = "up", pump'[k][s] = "ended"
             PROVE  pipe'[k][s] = 0 /\ Holders(k, s)' = {} /\ fin'[k] # "none"
  BY DEF Drained
<1>1. pipe'[k][s] = 0 /\ Holders(k, s) = {} /\ fin[k] # "none"
  BY DEF Drained
<1> QED BY <1>1 DEF Late, Onward

\* The steps of the guest's threads keep it.
LEMMA GuestControl ==
    ASSUME ConnTyped, Inv, NEW k \in Execs, Control(k), Onward(k), GuestStep(k) \/ DogWakes(k)
    PROVE  Control(k)'
<1> USE DEF hostVars, socketVars, threadVars, flags, outVars
<1> USE DEF Control, ConnTyped, SocketOK, ThreadsOK
<1>1. CASE Accept(k) \/ ReadEof(k) \/ JoinCompletion(k) \/ CancelKill(k) \/ Probe(k)
  <2> USE <1>1 DEF Accept, ReadEof, JoinCompletion, CancelKill, Probe
  <2>1. HostSide(k)'
    BY GuestHostSide DEF HostSide
  <2>2. Early(k)'
    BY DEF Early
  <2>3. Late(k)'
    BY DEF Late, Early, Onward
  <2>4. Drained(k)'
    BY GuestDrained
  <2> QED BY <2>1, <2>2, <2>3, <2>4
<1>2. CASE SpawnFails(k)
  <2>0. /\ conn[k] = "request" /\ conn'[k] = "ended"
        /\ UNCHANGED <<hostVars, request, pump, dog, fin, done, timed_out, outVars>>
    BY <1>2 DEF SpawnFails
  <2>1. HostSide(k)'
    BY <2>0, GuestHostSide DEF HostSide
  <2>2. Early(k)'
    BY <2>0 DEF Early
  <2>3. Late(k)'
    BY <2>0 DEF Late, Early, Onward
  <2>4. Drained(k)'
    BY <2>0, GuestDrained
  <2> QED BY <2>1, <2>2, <2>3, <2>4
<1>3. CASE SpawnChild(k)
  <2>0. /\ conn[k] = "request" /\ conn'[k] = "started" /\ request[k] /\ life'[k] = "running"
        /\ UNCHANGED <<hostVars, socketVars, pump, dog, fin, done, timed_out, outVars>>
    BY <1>3 DEF SpawnChild, Start, Inv, TypeOK, Children
  <2>1. HostSide(k)'
    BY <2>0, GuestHostSide DEF HostSide
  <2>2. Early(k)'
    BY <2>0 DEF Early
  <2>3. Late(k)'
    BY <2>0 DEF Late, Early, Onward
  <2>4. Drained(k)'
    BY <2>0, GuestDrained
  <2> QED BY <2>1, <2>2, <2>3, <2>4
<1>4. CASE WriteStarted(k)
  <2>0. conn[k] = "started" /\ UNCHANGED <<hostVars, request, done, timed_out, outVars>>
    BY <1>4 DEF WriteStarted
  <2>1. HostSide(k)'
    BY <2>0, GuestHostSide DEF HostSide
  <2>2. CASE Writes(k, "started")
    <3>1. /\ conn'[k] = "reading" /\ pump'[k] = [s \in Streams |-> "run"] /\ fin'[k] = "wait"
          /\ dog'[k] = IF deadline[k] THEN "armed" ELSE "off"
      BY <1>4, <2>2 DEF WriteStarted, Writes, WriteFails
    <3>2. Early(k)'
      BY <3>1 DEF Early
    <3>3. Late(k)'
      BY <2>0, <3>1 DEF Late, Early, Onward
    <3>4. Drained(k)'
      BY <2>0, <3>1 DEF Drained
    <3> QED BY <2>1, <3>2, <3>3, <3>4
  <2>3. CASE WriteFails(k)
    <3>1. /\ conn'[k] = "ended" /\ pump'[k] = [s \in Streams |-> "ended"] /\ UNCHANGED <<fin, dog>>
          /\ relay[k] = "closed"
      BY <1>4, <2>3 DEF WriteStarted, Writes, WriteFails, Broken
    <3>2. Early(k)'
      BY <3>1 DEF Early
    <3>3. Late(k)'
      BY <2>0, <3>1 DEF Late, Early, Onward
    <3>4. Drained(k)'
      BY <2>0, <3>1 DEF Drained
    <3> QED BY <2>1, <3>2, <3>3, <3>4
  <2> QED BY <1>4, <2>2, <2>3 DEF WriteStarted
<1>5. ASSUME NEW s \in Streams, PumpChunk(k, s) \/ PumpEof(k, s)
      PROVE  Control(k)'
  <2>0. /\ pump[k][s] = "run" /\ pump'[k][s] \in {"run", "ended"}
        /\ UNCHANGED <<hostVars, request, conn, dog, fin, done, timed_out>>
        /\ \A r \in Streams \ {s} : pump'[k][r] = pump[k][r] /\ pipe'[k][r] = pipe[k][r]
        /\ \/ pump'[k][s] = "run" \/ relay[k] = "closed"
           \/ pipe'[k][s] = 0 /\ Holders(k, s) = {}
    BY <1>5 DEF PumpChunk, PumpEof, Writes, WriteFails, Broken, OutputOK
  <2>5. fin[k] \notin {"none", "ended"} /\ conn[k] \notin {"none", "request", "started"}
    BY <2>0 DEF Late, Early
  <2>1. HostSide(k)'
    BY <2>0, GuestHostSide
  <2>2. Early(k)'
    BY <2>0, <2>5 DEF Early
  <2>3. Late(k)'
    BY <2>0, <2>5 DEF Late, Onward
  <2>4. Drained(k)'
    BY <2>0, <2>5, GuestDrained
  <2> QED BY <2>1, <2>2, <2>3, <2>4
<1>6. CASE DogMarks(k) \/ DogWakes(k) \/ DogKills(k)
  <2>0. /\ dog[k] # "off" /\ UNCHANGED <<hostVars, socketVars, conn, pump, fin, done, outVars>>
        /\ \/ dog'[k] \in {"off", "fired"} /\ UNCHANGED timed_out
           \/ dog'[k] = "marked" /\ timed_out'[k] = TRUE
    BY <1>6 DEF DogMarks, DogWakes, DogKills
  <2>1. HostSide(k)'
    BY <2>0, GuestHostSide
  <2>2. Early(k)'
    BY <2>0 DEF Early
  <2>3. Late(k)'
    BY <2>0 DEF Late, Onward
  <2>4. Drained(k)'
    BY <2>0, GuestDrained
  <2> QED BY <2>1, <2>2, <2>3, <2>4
<1>7. CASE WaitChild(k)
  BY <1>7, RowControl DEF WaitChild, Row
<1>8. CASE StoreDone(k)
  <2>0. /\ fin[k] = "wait" /\ fin'[k] = "pumps" /\ done'[k] = TRUE /\ thread[k] = "done"
        /\ UNCHANGED <<hostVars, socketVars, conn, pump, dog, timed_out, outVars>>
    BY <1>8 DEF StoreDone
  <2>1. HostSide(k)'
    BY <2>0, GuestHostSide
  <2>2. Early(k)'
    BY <2>0 DEF Early
  <2>3. Late(k)'
    BY <2>0 DEF Late, Onward
  <2>4. Drained(k)'
    BY <2>0, GuestDrained
  <2> QED BY <2>1, <2>2, <2>3, <2>4
<1>9. CASE WriteTerminal(k)
  <2>0. /\ fin[k] = "pumps" /\ fin'[k] = "ended" /\ \A s \in Streams : pump[k][s] = "ended"
        /\ UNCHANGED <<hostVars, request, conn, pump, dog, done, timed_out, outVars>>
    BY <1>9 DEF WriteTerminal
  <2>1. HostSide(k)'
    BY <2>0, GuestHostSide
  <2>2. Early(k)'
    BY <2>0 DEF Early
  <2>3. Late(k)'
    BY <2>0 DEF Late, Onward
  <2>4. Drained(k)'
    BY <2>0, GuestDrained
  <2> QED BY <2>1, <2>2, <2>3, <2>4
<1> QED BY <1>1, <1>2, <1>3, <1>4, <1>5, <1>6, <1>7, <1>8, <1>9 DEF GuestStep

\* What every step needs of the rest.
Base == ConnTyped /\ Inv /\ Born /\ \A k \in Execs : Control(k)

\* Writing to one pipe leaves the others alone, and the pump of that one runs.
LEMMA OutputPipes ==
    ASSUME OutputOK, NEW c \in Execs, NEW r \in Streams, Output(c, r), NEW k \in Execs, NEW s \in Streams
    PROVE  /\ c = k /\ r = s => pipe'[k][s] = pipe[k][s] + 1 /\ pump[k][s] # "ended"
           /\ ~(c = k /\ r = s) => pipe'[k][s] = pipe[k][s]
BY DEF OutputOK, Output

\* Every step keeps it, for every exec.
LEMMA ControlStep ==
    ASSUME ConnTyped, Inv, Inv', Born, [ConnNext]_connVars, NEW k \in Execs, Control(k)
    PROVE  Control(k)'
<1>1. Onward(k)
  BY AllOnward
<1>2. CASE UNCHANGED connVars
  <2>1. UNCHANGED Row(k) /\ UNCHANGED pipe
    BY <1>2 DEF connVars, hostVars, socketVars, threadVars, flags, outVars, Row
  <2> QED BY <1>1, <2>1, RowControl
<1>3. ASSUME NEW c \in Execs, HostStep(c) \/ GuestStep(c) \/ DogWakes(c)
      PROVE  Control(k)'
  <2>1. CASE c = k
    BY <1>1, <1>3, <2>1, HostControl, GuestControl
  <2>2. CASE c # k
    <3>1. UNCHANGED Row(k) /\ UNCHANGED pipe[k]
      BY <1>3, <2>2, OtherRows
    <3>2. \A s \in Streams : UNCHANGED pipe[k][s]
      BY <3>1
    <3> QED BY <1>1, <3>1, <3>2, RowControl
  <2> QED BY <2>1, <2>2
<1>4. CASE WorldStep
  <2>1. UNCHANGED Row(k)
    BY <1>4, WorldRows
  <2>2. ASSUME NEW s \in Streams, pump[k][s] = "ended" PROVE UNCHANGED pipe[k][s]
    <3>1. ASSUME NEW c \in Execs, NEW r \in Streams, Output(c, r) PROVE UNCHANGED pipe[k][s]
      BY <2>2, <3>1, OutputPipes DEF ConnTyped
    <3> QED BY <1>4, <3>1, WorldRows
  <2> QED BY <1>1, <2>1, <2>2, RowControl
<1> QED BY <1>2, <1>3, <1>4 DEF ConnNext, WorldStep

\* The control of every exec is an invariant.
LEMMA BaseHolds == ConnSpec => []Base
<1>1. ConnInit => Born /\ \A k \in Execs : Control(k)
  BY DEF ConnInit, Init, Born, Control, HostSide, Early, Late, Drained, Nothing, Children
<1>2. ConnTyped /\ Inv /\ Inv' /\ Base /\ [ConnNext]_connVars
        => (Born /\ \A k \in Execs : Control(k))'
  BY BornStep, ControlStep DEF Base
<1>3. Base <=> ConnTyped /\ Inv /\ Born /\ \A k \in Execs : Control(k)
  BY DEF Base
<1> QED BY <1>1, <1>2, <1>3, TypedHolds, RouterHolds, PTL DEF ConnSpec

-----------------------------------------------------------------------------
(* The order of frames and events *)

Last == {"exit", "timeout", "error"}

Has(q, e) == \E n \in 1..Len(q) : q[n] = e

\* Nothing comes back before the request, Started is the first frame, and the
\* last one says why it is the last.
WireOrder(k) ==
    /\ ~request[k] => wire[k] = << >>
    /\ \A n \in 2..Len(wire[k]) : wire[k][n] # "started"
    /\ \A n \in 1..Len(wire[k]) : wire[k][n] \in Last =>
         /\ n = Len(wire[k]) /\ conn[k] \notin {"none", "request", "started"}
         /\ fin[k] = IF wire[k][n] = "error" THEN "none" ELSE "ended"
         /\ wire[k][n] = "timeout" => deadline[k]

\* The channel holds Started first, once, and nothing after a terminal event,
\* which ends the relay.
ChanOrder(k) ==
    handle[k] = "open" =>
      /\ \A n \in 2..Len(chan[k]) : chan[k][n] # "started"
      /\ \A n \in 1..Len(chan[k]) : chan[k][n] \in Terminals => n = Len(chan[k]) /\ relay[k] = "closed"
      /\ \A n \in 1..Len(chan[k]) : chan[k][n] = "timeout" => deadline[k]
      /\ told[k].end = "none"
      /\ told[k].started => ~Has(chan[k], "started")
      /\ ~told[k].started => /\ told[k].output = 0
                             /\ chan[k] # << >> => chan[k][1] \in {"started", "failed"}

\* What the socket still holds continues what the channel has.
SocketOrder(k) ==
    handle[k] = "open" /\ relay[k] = "up" =>
      /\ told[k].started \/ chan[k] # << >> => ~Has(wire[k], "started")
      /\ ~told[k].started /\ chan[k] = << >> =>
            /\ wire[k] # << >> => wire[k][1] \in {"started", "error"}
            /\ fin[k] # "none" => wire[k] # << >>

\* The host knows of the start, or will.
Announced(k) == told[k].started \/ Has(chan[k], "started") \/ Has(wire[k], "started")

Order(k) ==
    WireOrder(k) /\ ChanOrder(k) /\ SocketOrder(k) /\ (Announced(k) => fin[k] # "none")

\* A step that does not touch the row keeps the order.
LEMMA RowOrder ==
    ASSUME NEW k \in Execs, Order(k), UNCHANGED Row(k)
    PROVE  Order(k)'
<1> USE DEF Order, Row
<1>1. WireOrder(k)'
  BY DEF WireOrder
<1>2. ChanOrder(k)'
  BY DEF ChanOrder, Has
<1>3. SocketOrder(k)'
  BY DEF SocketOrder, Has
<1>4. Announced(k)' => fin'[k] # "none"
  BY DEF Announced, Has
<1> QED BY <1>1, <1>2, <1>3, <1>4

\* So does a step of the guest that writes no frame.
LEMMA SilentOrder ==
    ASSUME NEW k \in Execs, Order(k),
           UNCHANGED <<handle[k], deadline[k], relay[k], chan[k], told[k], request[k], wire[k]>>,
           wire[k] = << >> \/ conn'[k] \notin {"none", "request", "started"},
           UNCHANGED fin[k] \/ (fin[k] \in {"wait", "pumps"} /\ fin'[k] # "none")
    PROVE  Order(k)'
<1> USE DEF Order
<1>1. WireOrder(k)'
  <2>1. CASE wire[k] = << >>
    BY <2>1, EmptySeq DEF WireOrder
  <2>2. CASE conn'[k] \notin {"none", "request", "started"}
    BY <2>2 DEF WireOrder
  <2> QED BY <2>1, <2>2
<1>2. ChanOrder(k)'
  BY DEF ChanOrder, Has
<1>3. SocketOrder(k)'
  BY DEF SocketOrder, Has
<1>4. Announced(k)' => fin'[k] # "none"
  BY DEF Announced, Has
<1> QED BY <1>1, <1>2, <1>3, <1>4

\* And one that writes a frame where it belongs.
LEMMA WrittenOrder ==
    ASSUME SocketOK, NEW k \in Execs, Order(k), NEW f \in Frames, Writes(k, f),
           UNCHANGED <<handle[k], deadline[k], relay[k], chan[k], told[k], request[k]>>,
           request[k], conn'[k] \notin {"none", "request", "started"},
           \/ f \in {"started", "error"} /\ wire[k] = << >> /\ ~told[k].started /\ chan[k] = << >>
           \/ f \in {"output", "exit", "timeout"} /\ fin[k] \in {"wait", "pumps"},
           f = "error" <=> fin'[k] = "none",
           f \in {"exit", "timeout"} => fin'[k] = "ended",
           f = "timeout" => deadline[k]
    PROVE  Order(k)'
<1> USE DEF Order
<1>1. /\ wire[k] \in Seq(Frames) /\ Len(wire[k]) \in Nat
      /\ wire'[k] = Append(wire[k], f) /\ wire'[k] \in Seq(Frames) /\ wire'[k] # << >>
      /\ Len(wire'[k]) = Len(wire[k]) + 1 /\ wire'[k][Len(wire[k]) + 1] = f
      /\ \A n \in 1..Len(wire[k]) : wire'[k][n] = wire[k][n]
  <2>1. wire[k] \in Seq(Frames) /\ wire'[k] = Append(wire[k], f)
    BY DEF SocketOK, Writes
  <2> QED BY <2>1, AppendProperties, LenProperties
<1>0. wire[k] = << >> => Len(wire[k]) = 0
  BY EmptySeq
<1>5. \A n \in 1..Len(wire[k]) : wire[k][n] \notin Last
  BY <1>0, <1>1 DEF WireOrder, Last
<1>2. WireOrder(k)'
  <2>1. \A n \in 2..Len(wire'[k]) : wire'[k][n] # "started"
    BY <1>0, <1>1 DEF WireOrder
  <2>2. \A n \in 1..Len(wire'[k]) : wire'[k][n] \in Last => n = Len(wire'[k]) /\ wire'[k][n] = f
    BY <1>1, <1>5
  <2>3. f \in Last => fin'[k] = IF f = "error" THEN "none" ELSE "ended"
    BY DEF Last
  <2> QED BY <2>1, <2>2, <2>3 DEF WireOrder
<1>3. ChanOrder(k)'
  BY DEF ChanOrder, Has
<1>4. SocketOrder(k)'
  <2> SUFFICES ASSUME handle[k] = "open", relay[k] = "up" PROVE SocketOrder(k)'
    BY DEF SocketOrder
  <2>1. CASE f \in {"started", "error"} /\ wire[k] = << >> /\ ~told[k].started /\ chan[k] = << >>
    BY <1>0, <1>1, <2>1 DEF SocketOrder
  <2>2. CASE f \in {"output", "exit", "timeout"} /\ fin[k] \in {"wait", "pumps"}
    <3>1. told[k].started \/ chan[k] # << >> => ~Has(wire'[k], "started")
      BY <1>1, <2>2 DEF SocketOrder, Has
    <3>2. ~told[k].started /\ chan[k] = << >> => wire'[k][1] \in {"started", "error"}
      <4>1. wire[k] # << >> => Len(wire[k]) >= 1
        BY <1>1, EmptySeq
      <4> QED BY <1>1, <2>2, <4>1 DEF SocketOrder
    <3> QED BY <1>1, <3>1, <3>2 DEF SocketOrder
  <2> QED BY <2>1, <2>2
<1>6. Announced(k)' => fin'[k] # "none"
  <2> SUFFICES ASSUME fin'[k] = "none" PROVE ~Announced(k)'
    OBVIOUS
  <2>1. f = "error" /\ wire[k] = << >> /\ ~told[k].started /\ chan[k] = << >>
    OBVIOUS
  <2> QED BY <1>0, <1>1, <2>1, EmptySeq DEF Announced, Has
<1> QED BY <1>2, <1>3, <1>4, <1>6

\* The relay's read of a frame, or of the end of the stream, in these terms.
LEMMA Forwarded ==
    ASSUME ConnTyped, NEW k \in Execs, Relay(k)
    PROVE  /\ relay[k] = "up"
           /\ \/ handle[k] = "dropped" /\ relay'[k] = "closed" /\ UNCHANGED chan[k]
              \/ /\ handle[k] = "open"
                 /\ \E e \in Events :
                      /\ chan'[k] = Append(chan[k], e) /\ Append(chan[k], e) # << >>
                      /\ Len(Append(chan[k], e)) = Len(chan[k]) + 1
                      /\ Append(chan[k], e)[Len(chan[k]) + 1] = e
                      /\ \A n \in 1..Len(chan[k]) : Append(chan[k], e)[n] = chan[k][n]
                      /\ relay'[k] = IF e \in Terminals THEN "closed" ELSE "up"
                      /\ \/ wire[k] # << >> /\ e = EventOf(wire[k][1])
                         \/ wire[k] = << >> /\ e = "failed"
           /\ Len(chan[k]) \in Nat
           /\ wire[k] # << >> =>
                /\ wire'[k] = Tail(wire[k]) /\ Len(wire'[k]) = Len(wire[k]) - 1
                /\ Len(wire[k]) \in Nat \ {0} /\ wire[k][1] \in Frames
                /\ \A n \in 1..Len(wire'[k]) : wire'[k][n] = wire[k][n + 1]
           /\ wire[k] = << >> => wire'[k] = << >>
           /\ UNCHANGED <<vars, handle, deadline, told, request, shut, threadVars, procVars, outVars, up>>
<1>1. "failed" \in Events
  BY DEF Events, Terminals
<1>2. wire[k] # << >> => /\ Head(wire[k]) = wire[k][1] /\ wire[k][1] \in Frames
                         /\ EventOf(wire[k][1]) \in Events
                         /\ Len(Tail(wire[k])) = Len(wire[k]) - 1 /\ Len(wire[k]) \in Nat \ {0}
                         /\ \A n \in 1..Len(Tail(wire[k])) : Tail(wire[k])[n] = wire[k][n + 1]
  BY Relayed DEF ConnTyped
<1>3. PICK e \in Events : /\ RelaySend(k, e)
                          /\ \/ wire[k] # << >> /\ e = EventOf(wire[k][1])
                             \/ wire[k] = << >> /\ e = "failed"
  BY <1>1, <1>2 DEF Relay
<1>4. chan[k] \in Seq(Events) /\ Len(chan[k]) \in Nat
  BY LenProperties DEF ConnTyped, HostOK, ChanOK
<1>5. /\ Append(chan[k], e) # << >> /\ Len(Append(chan[k], e)) = Len(chan[k]) + 1
      /\ Append(chan[k], e)[Len(chan[k]) + 1] = e
      /\ \A n \in 1..Len(chan[k]) : Append(chan[k], e)[n] = chan[k][n]
  BY <1>4, AppendProperties
<1>6. wire[k] # << >> => wire'[k] = Tail(wire[k])
  BY DEF Relay, ConnTyped, SocketOK
<1>7. wire[k] = << >> => wire'[k] = << >>
  BY DEF Relay
<1>8. relay[k] = "up" /\ UNCHANGED <<vars, handle, deadline, told, request, shut, threadVars, procVars, outVars, up>>
  BY DEF Relay
<1>9. CASE handle[k] = "dropped"
  <2>1. relay'[k] = "closed" /\ UNCHANGED chan[k]
    BY <1>3, <1>9 DEF RelaySend, ConnTyped, HostOK
  <2> QED BY <1>2, <1>4, <1>6, <1>7, <1>8, <1>9, <2>1
<1>10. CASE handle[k] = "open"
  <2>1. chan'[k] = Append(chan[k], e) /\ relay'[k] = IF e \in Terminals THEN "closed" ELSE "up"
    BY <1>3, <1>8, <1>10 DEF RelaySend, ConnTyped, HostOK, ChanOK
  <2> QED BY <1>2, <1>3, <1>4, <1>5, <1>6, <1>7, <1>8, <1>10, <2>1
<1> QED BY <1>9, <1>10 DEF Relay

\* The relay keeps the order.
LEMMA RelayOrder ==
    ASSUME ConnTyped, NEW k \in Execs, Control(k), Order(k), Relay(k)
    PROVE  Order(k)'
<1> USE DEF Order
<1>1. /\ relay[k] = "up" /\ Len(chan[k]) \in Nat
      /\ UNCHANGED <<handle[k], deadline[k], told[k], request[k], conn[k], fin[k]>>
      /\ wire[k] = << >> => wire'[k] = << >>
  BY Forwarded DEF threadVars
<1>2. wire[k] # << >> => /\ Len(wire'[k]) = Len(wire[k]) - 1 /\ Len(wire[k]) \in Nat \ {0}
                         /\ \A n \in 1..Len(wire'[k]) : wire'[k][n] = wire[k][n + 1]
  BY Forwarded
<1>3. WireOrder(k)'
  <2>1. CASE wire[k] = << >>
    BY <1>1, <2>1, EmptySeq DEF WireOrder
  <2>2. CASE wire[k] # << >>
    <3>1. \A n \in 1..Len(wire'[k]) : n + 1 \in 2..Len(wire[k]) /\ wire'[k][n] = wire[k][n + 1]
      BY <1>2, <2>2
    <3>2. request[k]
      BY <2>2 DEF WireOrder
    <3>3. \A n \in 1..Len(wire'[k]) : wire'[k][n] \in Last =>
            /\ n = Len(wire'[k]) /\ conn[k] \notin {"none", "request", "started"}
            /\ fin[k] = IF wire'[k][n] = "error" THEN "none" ELSE "ended"
            /\ wire'[k][n] = "timeout" => deadline[k]
      BY <1>2, <2>2, <3>1 DEF WireOrder
    <3>4. \A n \in 2..Len(wire'[k]) : wire'[k][n] # "started"
      BY <3>1 DEF WireOrder
    <3> QED BY <1>1, <3>2, <3>3, <3>4 DEF WireOrder
  <2> QED BY <2>1, <2>2
<1>4. CASE handle[k] = "dropped"
  <2>1. UNCHANGED chan[k]
    BY <1>4, Forwarded
  <2>2. Has(wire'[k], "started") => Has(wire[k], "started")
    <3>1. CASE wire[k] = << >>
      BY <1>1, <3>1
    <3>2. CASE wire[k] # << >>
      <4>1. \A n \in 1..Len(wire'[k]) : n + 1 \in 1..Len(wire[k]) /\ wire'[k][n] = wire[k][n + 1]
        BY <1>2, <3>2
      <4> QED BY <4>1 DEF Has
    <3> QED BY <3>1, <3>2
  <2>3. Announced(k)' => Announced(k)
    BY <1>1, <2>1, <2>2 DEF Announced, Has
  <2> QED BY <1>1, <1>3, <1>4, <2>3 DEF ChanOrder, SocketOrder
<1>5. CASE handle[k] = "open"
  <2>1. PICK e \in Events :
          /\ chan'[k] = Append(chan[k], e) /\ Append(chan[k], e) # << >>
          /\ Len(Append(chan[k], e)) = Len(chan[k]) + 1
          /\ Append(chan[k], e)[Len(chan[k]) + 1] = e
          /\ \A n \in 1..Len(chan[k]) : Append(chan[k], e)[n] = chan[k][n]
          /\ relay'[k] = IF e \in Terminals THEN "closed" ELSE "up"
          /\ \/ wire[k] # << >> /\ e = EventOf(wire[k][1])
             \/ wire[k] = << >> /\ e = "failed"
    BY <1>5, Forwarded
  <2>2. /\ e = "started" => wire[k] # << >> /\ wire[k][1] = "started"
        /\ e = "timeout" => wire[k] # << >> /\ wire[k][1] = "timeout"
        /\ wire[k] # << >> /\ wire[k][1] \in {"started", "error"} => e \in {"started", "failed"}
        /\ wire[k] = << >> => e = "failed"
    BY <2>1 DEF EventOf
  <2>3. wire[k] # << >> => 1 \in 1..Len(wire[k])
    BY <1>2
  <2>4. chan[k] = << >> => Len(chan[k]) = 0
    BY EmptySeq
  <2>5. \A n \in 1..Len(chan'[k]) : \/ n = Len(chan'[k]) /\ chan'[k][n] = e
                                    \/ n \in 1..Len(chan[k]) /\ chan'[k][n] = chan[k][n]
    BY <1>1, <2>1
  <2>6. e = "started" => chan[k] = << >> /\ ~told[k].started
    BY <1>1, <1>5, <2>2, <2>3 DEF SocketOrder, Has
  <2>7. \A n \in 1..Len(chan[k]) : chan[k][n] \notin Terminals
    BY <1>1, <1>5 DEF ChanOrder
  <2>8. ChanOrder(k)'
    <3>1. \A n \in 2..Len(chan'[k]) : chan'[k][n] # "started"
      BY <1>1, <1>5, <2>1, <2>4, <2>5, <2>6 DEF ChanOrder
    <3>2. \A n \in 1..Len(chan'[k]) : chan'[k][n] \in Terminals => n = Len(chan'[k]) /\ relay'[k] = "closed"
      BY <2>1, <2>5, <2>7
    <3>3. \A n \in 1..Len(chan'[k]) : chan'[k][n] = "timeout" => deadline[k]
      BY <1>1, <1>5, <2>2, <2>3, <2>5 DEF ChanOrder, WireOrder, Last
    <3>4. told[k].started => ~Has(chan'[k], "started")
      BY <1>5, <2>5, <2>6 DEF ChanOrder, Has
    <3>5. ~told[k].started => told[k].output = 0 /\ chan'[k][1] \in {"started", "failed"}
      <4>1. CASE chan[k] = << >>
        BY <1>1, <1>5, <2>1, <2>2, <2>4, <4>1 DEF ChanOrder, SocketOrder
      <4>2. CASE chan[k] # << >>
        <5>1. 1 \in 1..Len(chan[k])
          BY <4>2, EmptySeq DEF ConnTyped, HostOK, ChanOK
        <5> QED BY <1>5, <2>1, <4>2, <5>1 DEF ChanOrder
      <4> QED BY <4>1, <4>2
    <3> QED BY <1>1, <1>5, <3>1, <3>2, <3>3, <3>4, <3>5 DEF ChanOrder
  <2>9. ~Has(wire'[k], "started")
    <3>1. CASE wire[k] = << >>
      BY <1>1, <3>1, EmptySeq DEF Has
    <3>2. CASE wire[k] # << >>
      BY <1>2, <3>2 DEF WireOrder, Has
    <3> QED BY <3>1, <3>2
  <2>10. Announced(k)' => Announced(k)
    <3>1. Has(chan'[k], "started") => Has(chan[k], "started") \/ Has(wire[k], "started")
      BY <2>2, <2>3, <2>5 DEF Has
    <3> QED BY <1>1, <2>9, <3>1 DEF Announced
  <2> QED BY <1>1, <1>3, <2>1, <2>8, <2>9, <2>10 DEF SocketOrder
<1> QED BY <1>4, <1>5, Forwarded

\* So does the caller's read.
LEMMA ReceiveOrder ==
    ASSUME ConnTyped, NEW k \in Execs, Order(k), Receive(k)
    PROVE  Order(k)'
<1> USE DEF Order
<1>1. /\ handle[k] = "open" /\ chan[k] # << >> /\ chan[k][1] \in Events
      /\ handle'[k] = IF chan[k][1] \in Terminals THEN "over" ELSE "open"
      /\ chan'[k] = Tail(chan[k]) /\ Len(chan[k]) \in Nat \ {0}
      /\ Len(chan'[k]) = Len(chan[k]) - 1
      /\ \A n \in 1..Len(chan'[k]) : chan'[k][n] = chan[k][n + 1]
      /\ told'[k] = Heard(told[k], chan[k][1]) /\ told[k] \in Tellings
      /\ UNCHANGED <<deadline[k], relay[k], request[k], wire[k], conn[k], fin[k]>>
  <2>1. HostOK /\ chan \in [Execs -> Seq(Events)] /\ told \in [Execs -> Tellings]
        /\ handle \in [Execs -> {"idle", "calling", "open", "over", "dropped", "refused"}]
    BY DEF ConnTyped, HostOK, ChanOK
  <2>2. /\ handle[k] = "open" /\ chan[k] # << >> /\ chan[k][1] \in Events
        /\ chan' = [chan EXCEPT ![k] = Tail(@)] /\ Len(Tail(chan[k])) = Len(chan[k]) - 1
        /\ Len(chan[k]) \in Nat \ {0}
        /\ \A i \in 1..Len(Tail(chan[k])) : Tail(chan[k])[i] = chan[k][i + 1]
        /\ told' = [told EXCEPT ![k] = Heard(@, chan[k][1])]
        /\ handle' = [handle EXCEPT ![k] = IF chan[k][1] \in Terminals THEN "over" ELSE @]
    BY <2>1, Received
  <2>3. UNCHANGED <<deadline, relay, request, wire, conn, fin>>
    BY <2>1, Received DEF socketVars, threadVars
  <2>4. chan'[k] = Tail(chan[k]) /\ told'[k] = Heard(told[k], chan[k][1]) /\ told[k] \in Tellings
        /\ handle'[k] = IF chan[k][1] \in Terminals THEN "over" ELSE "open"
    BY <2>1, <2>2
  <2> QED BY <2>2, <2>3, <2>4
<1>2. /\ told'[k].started = (told[k].started \/ chan[k][1] = "started")
      /\ told'[k].end = IF chan[k][1] \in Terminals THEN chan[k][1] ELSE told[k].end
  BY <1>1, HeardIs
<1>3. \A n \in 1..Len(chan'[k]) : n + 1 \in 2..Len(chan[k]) /\ chan'[k][n] = chan[k][n + 1]
  BY <1>1
<1>4. WireOrder(k)'
  BY <1>1 DEF WireOrder
<1>5. Announced(k)' => Announced(k)
  <2>1. Has(chan'[k], "started") => Has(chan[k], "started")
    BY <1>1, <1>3 DEF Has
  <2>2. chan[k][1] = "started" => Has(chan[k], "started")
    BY <1>1 DEF Has
  <2> QED BY <1>1, <1>2, <2>1, <2>2 DEF Announced
<1>6. ~Has(chan'[k], "started")
  BY <1>1, <1>3 DEF ChanOrder, Has
<1>7. chan[k][1] \notin Terminals => told'[k].started
  BY <1>1, <1>2 DEF ChanOrder, Terminals
<1>8. ChanOrder(k)'
  <2> SUFFICES ASSUME chan[k][1] \notin Terminals PROVE ChanOrder(k)'
    BY <1>1 DEF ChanOrder
  <2>1. \A n \in 1..Len(chan'[k]) : chan'[k][n] \in Terminals => n = Len(chan'[k]) /\ relay[k] = "closed"
    BY <1>1, <1>3 DEF ChanOrder
  <2>2. \A n \in 1..Len(chan'[k]) : chan'[k][n] = "timeout" => deadline[k]
    BY <1>1, <1>3 DEF ChanOrder
  <2>3. told'[k].end = "none"
    BY <1>1, <1>2 DEF ChanOrder
  <2> QED BY <1>1, <1>6, <1>7, <2>1, <2>2, <2>3 DEF ChanOrder, Has
<1>9. SocketOrder(k)'
  BY <1>1, <1>7 DEF SocketOrder, Has
<1> QED BY <1>1, <1>4, <1>5, <1>8, <1>9

\* The host's steps keep the order.
LEMMA HostOrder ==
    ASSUME ConnTyped, NEW k \in Execs, Control(k), Order(k), HostStep(k)
    PROVE  Order(k)'
<1>0. Len(<< >>) = 0
  BY EmptySeq
<1>1. CASE ExecConnect(k)
  <2>1. /\ handle'[k] # "open" /\ wire[k] = << >> /\ fin[k] = "none"
        /\ UNCHANGED <<chan[k], told[k], request[k], wire[k], conn[k], fin[k]>>
    BY <1>1 DEF ExecConnect, Control, HostSide, Early, ConnTyped, HostOK, socketVars, threadVars
  <2> QED BY <1>0, <2>1 DEF Order, WireOrder, ChanOrder, SocketOrder, Announced, Has
<1>2. CASE ExecSend(k)
  <2>1. /\ wire[k] = << >> /\ fin[k] = "none" /\ chan[k] = << >> /\ told[k] = Nothing
        /\ UNCHANGED <<chan[k], told[k], wire[k], fin[k]>>
    BY <1>2 DEF ExecSend, Control, HostSide, Late, Order, WireOrder, threadVars, ConnTyped, ThreadsOK
  <2>2. WireOrder(k)'
    BY <1>0, <2>1 DEF WireOrder
  <2>3. ChanOrder(k)' /\ SocketOrder(k)'
    BY <1>0, <2>1 DEF ChanOrder, SocketOrder, Has, Nothing
  <2>4. ~Announced(k)'
    BY <1>0, <2>1 DEF Announced, Has, Nothing
  <2> QED BY <2>2, <2>3, <2>4 DEF Order
<1>3. CASE ExecDrop(k)
  <2>1. /\ handle'[k] # "open" /\ chan'[k] = << >>
        /\ UNCHANGED <<deadline[k], told[k], request[k], wire[k], conn[k], fin[k]>>
    BY <1>3 DEF ExecDrop, ConnTyped, HostOK, ChanOK, socketVars, threadVars
  <2> QED BY <1>0, <2>1 DEF Order, WireOrder, ChanOrder, SocketOrder, Announced, Has
<1> QED BY <1>1, <1>2, <1>3, RelayOrder, ReceiveOrder DEF HostStep

\* The steps of the guest's threads keep the order.
LEMMA GuestOrder ==
    ASSUME ConnTyped, NEW k \in Execs, Control(k), Order(k), GuestStep(k) \/ DogWakes(k)
    PROVE  Order(k)'
<1> DEFINE Host == UNCHANGED <<handle[k], deadline[k], relay[k], chan[k], told[k], request[k]>>
<1> USE DEF hostVars, socketVars, threadVars, flags
<1>0. "error" \in Frames /\ "started" \in Frames /\ "output" \in Frames
      /\ "timeout" \in Frames /\ "exit" \in Frames
  BY DEF Frames
<1>00. SocketOK /\ ThreadsOK
  BY DEF ConnTyped
<1>1. CASE Accept(k) \/ Probe(k) \/ SpawnChild(k)
  <2>1. Host /\ wire[k] = << >> /\ UNCHANGED <<wire[k], fin[k]>>
    BY <1>1 DEF Accept, Probe, SpawnChild, Control, Early
  <2> QED BY <2>1, SilentOrder
<1>2. CASE ReadEof(k) \/ CancelKill(k) \/ JoinCompletion(k)
  <2>1. Host /\ conn'[k] \notin {"none", "request", "started"} /\ UNCHANGED <<wire[k], fin[k]>>
    BY <1>00, <1>2 DEF ReadEof, CancelKill, JoinCompletion, ThreadsOK
  <2> QED BY <2>1, SilentOrder
<1>3. CASE SpawnFails(k)
  <2>1. /\ Host /\ wire[k] = << >> /\ UNCHANGED fin[k] /\ fin[k] = "none" /\ request[k] /\ ~told[k].started
        /\ conn'[k] = "ended" /\ (relay[k] # "closed" => chan[k] = << >>)
        /\ Writes(k, "error") \/ WriteFails(k)
    BY <1>00, <1>3 DEF SpawnFails, Control, Early, ThreadsOK
  <2>2. CASE Writes(k, "error")
    <3>1. chan[k] = << >>
      BY <2>1, <2>2 DEF Writes, Broken
    <3> QED BY <1>0, <1>00, <2>1, <2>2, <3>1, WrittenOrder
  <2>3. CASE WriteFails(k)
    BY <2>1, <2>3, SilentOrder DEF WriteFails
  <2> QED BY <2>1, <2>2, <2>3
<1>4. CASE WriteStarted(k)
  <2>1. /\ Host /\ wire[k] = << >> /\ fin[k] = "none" /\ request[k] /\ ~told[k].started
        /\ (relay[k] # "closed" => chan[k] = << >>)
    BY <1>4 DEF WriteStarted, Control, Early, Late
  <2>2. CASE Writes(k, "started")
    <3>1. chan[k] = << >>
      BY <2>1, <2>2 DEF Writes, Broken
    <3>2. conn'[k] = "reading" /\ fin'[k] = "wait"
      BY <1>00, <1>4, <2>2 DEF WriteStarted, Writes, WriteFails, ThreadsOK
    <3> QED BY <1>0, <1>00, <2>1, <2>2, <3>1, <3>2, WrittenOrder
  <2>3. CASE WriteFails(k)
    <3>1. UNCHANGED <<wire[k], fin[k]>>
      BY <1>4, <2>3 DEF WriteStarted, Writes, WriteFails
    <3> QED BY <2>1, <3>1, SilentOrder
  <2> QED BY <1>4, <2>2, <2>3 DEF WriteStarted
<1>5. ASSUME NEW s \in Streams, PumpChunk(k, s) PROVE Order(k)'
  <2>1. /\ Host /\ UNCHANGED <<fin[k], conn[k]>> /\ pump[k][s] = "run"
        /\ Writes(k, "output") \/ WriteFails(k)
    BY <1>5 DEF PumpChunk
  <2>2. fin[k] \in {"wait", "pumps"} /\ conn[k] \notin {"none", "request", "started"} /\ request[k]
    BY <1>00, <2>1 DEF Control, Early, Late, ThreadsOK
  <2>3. CASE Writes(k, "output")
    BY <1>0, <1>00, <2>1, <2>2, <2>3, WrittenOrder
  <2>4. CASE WriteFails(k)
    BY <2>1, <2>2, <2>4, SilentOrder DEF WriteFails
  <2> QED BY <2>1, <2>3, <2>4
<1>6. ASSUME NEW s \in Streams, PumpEof(k, s) PROVE Order(k)'
  <2>1. Host /\ UNCHANGED <<wire[k], fin[k], conn[k]>> /\ pump[k][s] = "run"
    BY <1>6 DEF PumpEof
  <2>2. conn[k] \notin {"none", "request", "started"}
    BY <2>1 DEF Control, Early
  <2> QED BY <2>1, <2>2, SilentOrder
<1>7. CASE DogMarks(k) \/ DogKills(k) \/ DogWakes(k) \/ WaitChild(k)
  <2>1. Host /\ UNCHANGED <<wire[k], fin[k], conn[k]>>
    BY <1>7 DEF DogMarks, DogKills, DogWakes, WaitChild
  <2>2. wire[k] = << >> \/ conn[k] \notin {"none", "request", "started"}
    BY DEF Control, Early
  <2> QED BY <2>1, <2>2, SilentOrder
<1>8. CASE StoreDone(k)
  <2>1. Host /\ UNCHANGED <<wire[k], conn[k]>> /\ fin[k] = "wait" /\ fin'[k] = "pumps"
    BY <1>00, <1>8 DEF StoreDone, ThreadsOK
  <2>2. conn[k] \notin {"none", "request", "started"}
    BY <2>1 DEF Control, Early
  <2> QED BY <2>1, <2>2, SilentOrder
<1>9. CASE WriteTerminal(k)
  <2>1. /\ Host /\ UNCHANGED conn[k] /\ fin[k] = "pumps" /\ fin'[k] = "ended"
        /\ Writes(k, IF timed_out[k] THEN "timeout" ELSE "exit") \/ WriteFails(k)
    BY <1>00, <1>9 DEF WriteTerminal, ThreadsOK
  <2>2. /\ conn[k] \notin {"none", "request", "started"} /\ request[k]
        /\ timed_out[k] => deadline[k]
    BY <2>1 DEF Control, Early, Late
  <2>3. CASE timed_out[k] /\ Writes(k, "timeout")
    BY <1>0, <1>00, <2>1, <2>2, <2>3, WrittenOrder
  <2>4. CASE Writes(k, "exit")
    BY <1>0, <1>00, <2>1, <2>2, <2>4, WrittenOrder
  <2>5. CASE WriteFails(k)
    BY <2>1, <2>2, <2>5, SilentOrder DEF WriteFails
  <2> QED BY <2>1, <2>3, <2>4, <2>5
<1> QED BY <1>1, <1>2, <1>3, <1>4, <1>5, <1>6, <1>7, <1>8, <1>9 DEF GuestStep

\* Every step keeps the order, for every exec.
LEMMA OrderStep ==
    ASSUME ConnTyped, [ConnNext]_connVars, NEW k \in Execs, Control(k), Order(k)
    PROVE  Order(k)'
<1>1. CASE UNCHANGED connVars
  <2>1. UNCHANGED Row(k)
    BY <1>1 DEF connVars, hostVars, socketVars, threadVars, flags, Row
  <2> QED BY <2>1, RowOrder
<1>2. ASSUME NEW c \in Execs, HostStep(c) \/ GuestStep(c) \/ DogWakes(c)
      PROVE  Order(k)'
  <2>1. CASE c = k
    BY <1>2, <2>1, HostOrder, GuestOrder
  <2>2. CASE c # k
    <3>1. UNCHANGED Row(k)
      BY <1>2, <2>2, OtherRows
    <3> QED BY <3>1, RowOrder
  <2> QED BY <2>1, <2>2
<1>3. CASE WorldStep
  <2>1. UNCHANGED Row(k)
    BY <1>3, WorldRows
  <2> QED BY <2>1, RowOrder
<1> QED BY <1>1, <1>2, <1>3 DEF ConnNext, WorldStep

-----------------------------------------------------------------------------
(* Counting chunks of output *)

\* The chunks among the frames or events of a queue.
Chunks(q) == {n \in 1..Len(q) : q[n] = "output"}

Outs(q) == Cardinality(Chunks(q))

\* The number of chunks in a queue is finite, and an empty one holds none.
LEMMA OutsNat ==
    ASSUME NEW S, NEW q \in Seq(S)
    PROVE  IsFiniteSet(Chunks(q)) /\ Outs(q) \in Nat /\ Outs(<< >>) = 0
<1>1. Len(q) \in Nat
  BY LenProperties
<1>2. IsFiniteSet(1..Len(q))
  BY <1>1, FS_Interval
<1>3. Chunks(q) \in SUBSET (1..Len(q))
  BY DEF Chunks
<1>4. IsFiniteSet(Chunks(q))
  BY <1>2, <1>3, FS_Subset
<1>5. Chunks(<< >>) = {}
  BY EmptySeq DEF Chunks
<1> QED BY <1>4, <1>5, FS_CardinalityType, FS_EmptySet DEF Outs

\* What is appended to a queue is counted.
LEMMA OutsAppend ==
    ASSUME NEW S, NEW q \in Seq(S), NEW e \in S
    PROVE  Outs(Append(q, e)) = IF e = "output" THEN Outs(q) + 1 ELSE Outs(q)
<1> DEFINE r == Append(q, e)
<1>1. /\ Len(q) \in Nat /\ Len(r) = Len(q) + 1 /\ r[Len(q) + 1] = e
      /\ \A i \in 1..Len(q) : r[i] = q[i]
  BY AppendProperties, LenProperties
<1>2. IsFiniteSet(Chunks(q)) /\ Len(q) + 1 \notin Chunks(q)
  BY <1>1, OutsNat DEF Chunks
<1> HIDE DEF r
<1>3. CASE e = "output"
  <2>1. Chunks(r) = Chunks(q) \cup {Len(q) + 1}
    BY <1>1, <1>3 DEF Chunks
  <2>2. Cardinality(Chunks(r)) = Cardinality(Chunks(q)) + 1
    BY <1>2, <2>1, FS_AddElement
  <2> QED BY <1>3, <2>2 DEF Outs, r
<1>4. CASE e # "output"
  <2>1. Chunks(r) = Chunks(q)
    BY <1>1, <1>4 DEF Chunks
  <2> QED BY <1>4, <2>1 DEF Outs, r
<1> QED BY <1>3, <1>4

\* So is what is taken from its head.
LEMMA OutsTail ==
    ASSUME NEW S, NEW q \in Seq(S), q # << >>
    PROVE  Outs(q) = IF q[1] = "output" THEN Outs(Tail(q)) + 1 ELSE Outs(Tail(q))
<1> DEFINE r == Tail(q)
           T == Chunks(q) \ {1}
           f == [n \in Chunks(r) |-> n + 1]
<1>1. /\ r \in Seq(S) /\ Len(q) \in Nat \ {0} /\ Len(r) = Len(q) - 1
      /\ \A i \in 1..Len(r) : r[i] = q[i + 1]
  BY HeadTailProperties, EmptySeq
<1>2. IsFiniteSet(Chunks(q)) /\ IsFiniteSet(Chunks(r)) /\ Outs(q) \in Nat /\ Outs(r) \in Nat
  BY <1>1, OutsNat
<1> HIDE DEF r
<1>3. f \in [Chunks(r) -> T]
  BY <1>1 DEF Chunks
<1>4. \A a, b \in Chunks(r) : f[a] = f[b] => a = b
  BY <1>1 DEF Chunks
<1>5. \A t \in T : \E n \in Chunks(r) : f[n] = t
  <2> SUFFICES ASSUME NEW t \in T PROVE \E n \in Chunks(r) : f[n] = t
    OBVIOUS
  <2>1. t \in 2..Len(q) /\ q[t] = "output"
    BY <1>1 DEF Chunks
  <2>2. t - 1 \in Chunks(r)
    BY <1>1, <2>1 DEF Chunks
  <2>3. f[t - 1] = t
    BY <2>1, <2>2
  <2> QED BY <2>2, <2>3
<1>6. f \in Bijection(Chunks(r), T)
  BY <1>3, <1>4, <1>5 DEF Bijection, Injection, Surjection, IsInjective
<1>7. Cardinality(T) = Outs(r)
  BY <1>2, <1>6, FS_Bijection DEF Outs, ExistsBijection
<1>8. Cardinality(T) = IF 1 \in Chunks(q) THEN Cardinality(Chunks(q)) - 1 ELSE Cardinality(Chunks(q))
  BY <1>2, FS_RemoveElement
<1>9. 1 \in Chunks(q) <=> q[1] = "output"
  BY <1>1 DEF Chunks
<1> HIDE DEF T, f
<1> QED BY <1>2, <1>7, <1>8, <1>9 DEF Outs, r

\* What is in the pipes p, one element per chunk.
InPipes(p) == {x \in Streams \X (1..MaxOut) : x[2] <= p[x[1]]}

Piped(p) == Cardinality(InPipes(p))

\* The number of chunks in the pipes is finite.
LEMMA PipedNat ==
    ASSUME NEW p
    PROVE  IsFiniteSet(InPipes(p)) /\ Piped(p) \in Nat
<1>1. IsFiniteSet(1..MaxOut)
  BY CapAssumption, FS_Interval
<1>2. IsFiniteSet(Streams \X (1..MaxOut))
  BY <1>1, FS_Product, StreamsAssumption
<1>3. InPipes(p) \in SUBSET (Streams \X (1..MaxOut))
  BY DEF InPipes
<1>4. IsFiniteSet(InPipes(p))
  BY <1>2, <1>3, FS_Subset
<1> QED BY <1>4, FS_CardinalityType DEF Piped

\* One more chunk in a pipe is one more chunk.
LEMMA PipedMore ==
    ASSUME NEW p \in [Streams -> Nat], NEW s \in Streams, p[s] < MaxOut
    PROVE  Piped([p EXCEPT ![s] = @ + 1]) = Piped(p) + 1
<1> DEFINE q == [p EXCEPT ![s] = @ + 1]
           x == <<s, p[s] + 1>>
<1>1. q[s] = p[s] + 1 /\ \A r \in Streams \ {s} : q[r] = p[r]
  OBVIOUS
<1>2. x \in Streams \X (1..MaxOut) /\ x \notin InPipes(p)
  BY CapAssumption DEF InPipes
<1>3. \A r \in Streams, n \in 1..MaxOut : n <= q[r] <=> n <= p[r] \/ (r = s /\ n = p[s] + 1)
  BY <1>1
<1> HIDE DEF q
<1>4. InPipes(q) = InPipes(p) \cup {x}
  <2>1. ASSUME NEW y \in InPipes(q) PROVE y \in InPipes(p) \cup {x}
    <3>1. PICK r \in Streams, n \in 1..MaxOut : y = <<r, n>>
      BY <2>1 DEF InPipes
    <3> QED BY <1>3, <2>1, <3>1 DEF InPipes
  <2>2. ASSUME NEW y \in InPipes(p) \cup {x} PROVE y \in InPipes(q)
    <3>1. PICK r \in Streams, n \in 1..MaxOut : y = <<r, n>>
      BY <1>2, <2>2 DEF InPipes
    <3> QED BY <1>3, <2>2, <3>1 DEF InPipes
  <2> QED BY <2>1, <2>2
<1>5. Cardinality(InPipes(p) \cup {x}) = Cardinality(InPipes(p)) + 1
  BY <1>2, FS_AddElement, PipedNat
<1> QED BY <1>4, <1>5 DEF Piped, q

\* One less is one less.
LEMMA PipedLess ==
    ASSUME NEW p \in [Streams -> Nat], NEW s \in Streams, p[s] > 0, p[s] <= MaxOut
    PROVE  Piped(p) = Piped([p EXCEPT ![s] = @ - 1]) + 1
<1> DEFINE q == [p EXCEPT ![s] = @ - 1]
<1>1. q \in [Streams -> Nat] /\ q[s] < MaxOut /\ p = [q EXCEPT ![s] = @ + 1]
  <2>1. p[s] - 1 \in Nat /\ p[s] - 1 < MaxOut /\ (p[s] - 1) + 1 = p[s]
    BY CapAssumption
  <2>2. q \in [Streams -> Nat] /\ q[s] = p[s] - 1 /\ \A r \in Streams \ {s} : q[r] = p[r]
    BY <2>1
  <2>3. DOMAIN [q EXCEPT ![s] = @ + 1] = Streams /\ \A r \in Streams : [q EXCEPT ![s] = @ + 1][r] = p[r]
    BY <2>1, <2>2
  <2>4. p = [q EXCEPT ![s] = @ + 1]
    BY <2>3
  <2> QED BY <2>1, <2>2, <2>4
<1> HIDE DEF q
<1>2. Piped(p) = Piped(q) + 1
  BY <1>1, PipedMore
<1> QED BY <1>2 DEF q

\* Empty pipes hold nothing, and no pipe holds more than all of them.
LEMMA PipedBounds ==
    ASSUME NEW p \in [Streams -> Nat], \A s \in Streams : p[s] <= MaxOut
    PROVE  /\ (\A s \in Streams : p[s] = 0) => Piped(p) = 0
           /\ \A s \in Streams : p[s] <= Piped(p)
<1>1. ASSUME \A s \in Streams : p[s] = 0 PROVE Piped(p) = 0
  <2>1. InPipes(p) = {}
    BY <1>1 DEF InPipes
  <2> QED BY <2>1, FS_EmptySet DEF Piped
<1>2. ASSUME NEW s \in Streams PROVE p[s] <= Piped(p)
  <2> DEFINE f == [n \in 1..p[s] |-> <<s, n>>]
  <2>1. f \in [1..p[s] -> InPipes(p)]
    BY CapAssumption DEF InPipes
  <2>2. \A a, b \in 1..p[s] : f[a] = f[b] => a = b
    OBVIOUS
  <2>3. f \in Injection(1..p[s], InPipes(p))
    BY <2>1, <2>2 DEF Injection, IsInjective
  <2>4. Cardinality(1..p[s]) <= Cardinality(InPipes(p))
    BY <2>3, FS_Injection, PipedNat
  <2>5. Cardinality(1..p[s]) = p[s]
    BY FS_Interval
  <2> QED BY <2>4, <2>5 DEF Piped
<1> QED BY <1>1, <1>2

-----------------------------------------------------------------------------
(* The flow of output *)

Delivered(k) == told[k].output + Outs(chan[k])

\* Nobody writes to the command's output any more, and all of it was read.
Over(k) ==
    /\ life[k] # "unborn"
    /\ \A s \in Streams : pump[k][s] = "ended" /\ pipe[k][s] = 0 /\ Holders(k, s) = {}

Sent(k) == Delivered(k) + Outs(wire[k]) + Piped(pipe[k])

\* What was written is in a pipe, on the socket, in the channel or delivered;
\* nothing is lost before the host has closed its end.  Behind a terminal event
\* there is nothing left.
Flow(k) ==
    /\ \A s \in Streams : pipe[k][s] <= MaxOut
    /\ Sent(k) <= produced[k]
    /\ handle[k] \in {"idle", "calling", "open"} /\ relay[k] # "closed" => Sent(k) = produced[k]
    /\ handle[k] = "open" /\ (Has(chan[k], "exit") \/ Has(chan[k], "timeout"))
         => Over(k) /\ Delivered(k) = produced[k]

\* The counts are numbers.
LEMMA FlowNat ==
    ASSUME ConnTyped, NEW k \in Execs
    PROVE  /\ told[k].output \in Nat /\ Outs(chan[k]) \in Nat /\ Outs(wire[k]) \in Nat
           /\ Piped(pipe[k]) \in Nat /\ produced[k] \in 0..MaxOut /\ pipe[k] \in [Streams -> Nat]
<1>1. chan[k] \in Seq(Events) /\ wire[k] \in Seq(Frames) /\ told[k] \in Tellings
  BY DEF ConnTyped, HostOK, ChanOK, SocketOK
<1>2. told[k].output \in Nat
  BY <1>1 DEF Tellings
<1>3. produced[k] \in 0..MaxOut /\ pipe[k] \in [Streams -> Nat]
  BY DEF ConnTyped, OutputOK
<1> QED BY <1>1, <1>2, <1>3, OutsNat, PipedNat

\* Output that is over stays over.
LEMMA OverStays ==
    ASSUME NEW k \in Execs, Over(k), Onward(k),
           \A s \in Streams : pump[k][s] = "ended" => UNCHANGED <<pump[k][s], pipe[k][s]>>
    PROVE  Over(k)'
BY DEF Over, Onward

\* A step that moves no chunk keeps the flow.
LEMMA StillFlow ==
    ASSUME NEW k \in Execs, Flow(k), Onward(k),
           UNCHANGED <<chan[k], told[k], pipe[k], produced[k]>>, Outs(wire'[k]) = Outs(wire[k]),
           handle'[k] = "open" => handle[k] \in {"calling", "open"},
           handle'[k] \in {"idle", "calling", "open"} => handle[k] \in {"idle", "calling", "open"},
           relay'[k] # "closed" => relay[k] # "closed",
           handle[k] = "calling" => chan[k] = << >>,
           \A s \in Streams : pump[k][s] = "ended" => pump'[k][s] = "ended"
    PROVE  Flow(k)'
<1>1. Delivered(k)' = Delivered(k)
  BY DEF Delivered
<1>2. Sent(k)' = Sent(k)
  BY <1>1 DEF Sent
<1>3. Len(<< >>) = 0
  BY EmptySeq
<1>4. ASSUME handle'[k] = "open", Has(chan[k], "exit") \/ Has(chan[k], "timeout")
      PROVE  Over(k)' /\ Delivered(k) = produced[k]
  <2>1. handle[k] = "open"
    BY <1>3, <1>4 DEF Has
  <2>2. Over(k) /\ Delivered(k) = produced[k]
    BY <1>4, <2>1 DEF Flow
  <2> QED BY <2>2, OverStays
<1>5. UNCHANGED <<Has(chan[k], "exit"), Has(chan[k], "timeout")>>
  BY DEF Has
<1>6. Flow(k) => /\ \A s \in Streams : pipe[k][s] <= MaxOut
                 /\ Sent(k) <= produced[k]
                 /\ handle[k] \in {"idle", "calling", "open"} /\ relay[k] # "closed" => Sent(k) = produced[k]
  BY DEF Flow
<1> QED BY <1>1, <1>2, <1>4, <1>5, <1>6 DEF Flow

\* The relay moves a chunk from the socket to the channel, or drops it when
\* nobody listens.
LEMMA RelayFlow ==
    ASSUME ConnTyped, NEW k \in Execs, Control(k), Order(k), Onward(k), Flow(k), Relay(k)
    PROVE  Flow(k)'
<1> DEFINE w == IF wire[k] # << >> /\ wire[k][1] = "output" THEN 1 ELSE 0
<1>1. /\ relay[k] = "up" /\ chan[k] \in Seq(Events) /\ wire[k] \in Seq(Frames)
      /\ UNCHANGED <<handle[k], told[k], pipe[k], produced[k], pump[k], fin[k]>>
  BY Forwarded DEF ConnTyped, HostOK, ChanOK, SocketOK, threadVars, outVars
<1>2. Outs(wire[k]) = Outs(wire'[k]) + w /\ Outs(wire'[k]) \in Nat
  <2>1. CASE wire[k] = << >>
    BY <1>1, <2>1, Forwarded, OutsNat
  <2>2. CASE wire[k] # << >>
    <3>1. wire'[k] = Tail(wire[k]) /\ Tail(wire[k]) \in Seq(Frames)
      BY <1>1, <2>2, Forwarded, HeadTailProperties
    <3>2. Outs(wire'[k]) \in Nat
      BY <3>1, OutsNat
    <3>3. Outs(wire[k]) = IF wire[k][1] = "output" THEN Outs(Tail(wire[k])) + 1 ELSE Outs(Tail(wire[k]))
      BY <1>1, <2>2, OutsTail
    <3> QED BY <2>2, <3>1, <3>2, <3>3
  <2> QED BY <2>1, <2>2
<1>3. /\ told[k].output \in Nat /\ Outs(chan[k]) \in Nat /\ Outs(wire[k]) \in Nat
      /\ Piped(pipe[k]) \in Nat /\ produced[k] \in Nat
  BY FlowNat, CapAssumption
<1>4. /\ \A s \in Streams : pipe[k][s] <= MaxOut
      /\ told[k].output + Outs(chan[k]) + Outs(wire[k]) + Piped(pipe[k]) <= produced[k]
      /\ handle[k] = "open" => told[k].output + Outs(chan[k]) + Outs(wire[k]) + Piped(pipe[k]) = produced[k]
  BY <1>1 DEF Flow, Sent, Delivered
<1>5. CASE handle[k] = "dropped"
  <2>1. UNCHANGED chan[k]
    BY <1>5, Forwarded
  <2>2. Sent(k)' <= produced[k]
    BY <1>1, <1>2, <1>3, <1>4, <2>1 DEF Sent, Delivered
  <2> QED BY <1>1, <1>4, <1>5, <2>2 DEF Flow
<1>6. CASE handle[k] = "open"
  <2>1. PICK e \in Events :
          /\ chan'[k] = Append(chan[k], e) /\ Len(chan'[k]) = Len(chan[k]) + 1
          /\ chan'[k][Len(chan[k]) + 1] = e /\ \A n \in 1..Len(chan[k]) : chan'[k][n] = chan[k][n]
          /\ \/ wire[k] # << >> /\ e = EventOf(wire[k][1])
             \/ wire[k] = << >> /\ e = "failed"
    BY <1>6, Forwarded
  <2>2. Len(chan[k]) \in Nat /\ (wire[k] # << >> => Len(wire[k]) \in Nat \ {0})
    BY <1>1, LenProperties, EmptySeq
  <2>3. e = "output" <=> w = 1
    BY <2>1 DEF EventOf
  <2>4. Outs(chan'[k]) = Outs(chan[k]) + w
    <3>1. Outs(chan'[k]) = IF e = "output" THEN Outs(chan[k]) + 1 ELSE Outs(chan[k])
      BY <1>1, <2>1, OutsAppend
    <3> QED BY <1>3, <2>3, <3>1
  <2>5. Delivered(k)' = told[k].output + Outs(chan[k]) + w
    BY <1>1, <1>3, <2>4 DEF Delivered
  <2>6. Sent(k)' = produced[k]
    <3> HIDE DEF w
    <3>1. w \in Nat
      BY DEF w
    <3> QED BY <1>1, <1>2, <1>3, <1>4, <1>6, <2>5, <3>1 DEF Sent
  <2>7. ASSUME Has(chan'[k], "exit") \/ Has(chan'[k], "timeout")
        PROVE  Over(k)' /\ Delivered(k)' = produced[k]
    <3>1. \A n \in 1..Len(chan[k]) : chan[k][n] \notin Terminals
      BY <1>1, <1>6 DEF Order, ChanOrder
    <3>2. e \in {"exit", "timeout"}
      BY <2>1, <2>2, <2>7, <3>1 DEF Has, Terminals
    <3>3. wire[k] # << >> /\ wire[k][1] \in {"exit", "timeout"} /\ 1 \in 1..Len(wire[k])
      BY <2>1, <2>2, <3>2 DEF EventOf
    <3>4. fin[k] = "ended" /\ Len(wire[k]) = 1
      BY <3>3 DEF Order, WireOrder, Last
    <3>5. Over(k)
      BY <1>1, <3>4 DEF Control, Late, Drained, Over
    <3>6. Over(k)'
      BY <1>1, <3>5, OverStays
    <3>7. Outs(wire'[k]) = 0
      <4>1. Len(wire'[k]) = 0
        BY <3>3, <3>4, Forwarded
      <4>2. Chunks(wire'[k]) = {}
        BY <4>1 DEF Chunks
      <4> QED BY <4>2, FS_EmptySet DEF Outs
    <3>8. Piped(pipe'[k]) = 0
      <4>1. pipe[k] \in [Streams -> Nat] /\ \A s \in Streams : pipe[k][s] = 0
        BY <3>5, FlowNat DEF Over
      <4> QED BY <1>1, <1>4, <4>1, PipedBounds
    <3>9. Delivered(k)' \in Nat
      BY <1>3, <2>5
    <3> QED BY <2>6, <3>6, <3>7, <3>8, <3>9 DEF Sent
  <2>8. Sent(k)' <= produced[k]
    BY <1>3, <2>6
  <2> QED BY <1>1, <1>4, <2>6, <2>7, <2>8 DEF Flow
<1> QED BY <1>5, <1>6, Forwarded

\* The caller takes a chunk from the channel.
LEMMA ReceiveFlow ==
    ASSUME ConnTyped, NEW k \in Execs, Onward(k), Flow(k), Receive(k)
    PROVE  Flow(k)'
<1>1. /\ handle[k] = "open" /\ chan[k] # << >> /\ chan[k] \in Seq(Events) /\ chan[k][1] \in Events
      /\ chan' = [chan EXCEPT ![k] = Tail(@)] /\ told' = [told EXCEPT ![k] = Heard(@, chan[k][1])]
      /\ Len(chan[k]) \in Nat \ {0} /\ Len(Tail(chan[k])) = Len(chan[k]) - 1
      /\ Tail(chan[k]) \in Seq(Events)
      /\ \A i \in 1..Len(Tail(chan[k])) : Tail(chan[k])[i] = chan[k][i + 1]
  BY Received DEF ConnTyped, HostOK, ChanOK
<1>2. chan'[k] = Tail(chan[k]) /\ told'[k] = Heard(told[k], chan[k][1]) /\ told[k] \in Tellings
  BY <1>1 DEF ConnTyped, HostOK, ChanOK
<1>3. UNCHANGED <<relay[k], wire[k], pipe[k], produced[k], pump[k]>>
  BY Received DEF ConnTyped, socketVars, threadVars, outVars
<1>4. Delivered(k)' = Delivered(k)
  <2>1. told'[k].output = IF chan[k][1] = "output" THEN told[k].output + 1 ELSE told[k].output
    BY <1>1, <1>2, HeardIs
  <2>2. Outs(chan[k]) = IF chan[k][1] = "output" THEN Outs(chan'[k]) + 1 ELSE Outs(chan'[k])
    BY <1>1, <1>2, OutsTail
  <2>3. told[k].output \in Nat /\ Outs(chan'[k]) \in Nat
    BY <1>1, <1>2, FlowNat, OutsNat
  <2> QED BY <2>1, <2>2, <2>3 DEF Delivered
<1>5. Sent(k)' = Sent(k)
  BY <1>3, <1>4 DEF Sent
<1>6. ASSUME Has(chan'[k], "exit") \/ Has(chan'[k], "timeout")
      PROVE  Over(k)' /\ Delivered(k) = produced[k]
  <2>1. Has(chan[k], "exit") \/ Has(chan[k], "timeout")
    <3>1. /\ Len(chan[k]) \in Nat /\ Len(chan'[k]) = Len(chan[k]) - 1
          /\ \A n \in 1..Len(chan'[k]) : chan'[k][n] = chan[k][n + 1]
      BY <1>1, <1>2
    <3>2. \A n \in 1..Len(chan'[k]) : n + 1 \in 1..Len(chan[k])
      BY <3>1
    <3> QED BY <1>6, <3>1, <3>2 DEF Has
  <2>2. Over(k) /\ Delivered(k) = produced[k]
    BY <1>1, <2>1 DEF Flow
  <2> QED BY <1>3, <2>2, OverStays
<1>7. /\ \A s \in Streams : pipe[k][s] <= MaxOut
      /\ Sent(k) <= produced[k] /\ (relay[k] # "closed" => Sent(k) = produced[k])
  BY <1>1 DEF Flow
<1> QED BY <1>3, <1>4, <1>5, <1>6, <1>7 DEF Flow

\* The host's steps keep the flow.
LEMMA HostFlow ==
    ASSUME ConnTyped, NEW k \in Execs, Control(k), Order(k), Onward(k), Flow(k), HostStep(k)
    PROVE  Flow(k)'
<1> USE DEF socketVars, threadVars, outVars
<1>0. handle[k] = "calling" => chan[k] = << >>
  BY DEF Control, HostSide
<1>1. CASE ExecConnect(k)
  <2>1. /\ UNCHANGED <<chan[k], told[k], pipe[k], produced[k], wire[k], pump[k]>>
        /\ handle[k] = "idle" /\ handle'[k] # "open" /\ relay[k] # "closed"
    BY <1>1 DEF ExecConnect, ConnTyped, HostOK, Control, HostSide
  <2> QED BY <1>0, <2>1, StillFlow
<1>2. CASE ExecSend(k)
  <2>1. /\ UNCHANGED <<chan[k], told[k], pipe[k], produced[k], wire[k], pump[k]>>
        /\ handle[k] = "calling" /\ relay[k] # "closed"
    BY <1>2 DEF ExecSend, Control, HostSide
  <2> QED BY <1>0, <2>1, StillFlow
<1>3. CASE ExecDrop(k)
  <2>1. /\ UNCHANGED <<told[k], pipe[k], produced[k], wire[k]>>
        /\ chan'[k] = << >> /\ handle'[k] = "dropped"
    BY <1>3 DEF ExecDrop, ConnTyped, HostOK, ChanOK
  <2>2. Outs(chan'[k]) = 0
    <3>1. << >> \in Seq(Events)
      BY EmptySeq
    <3> QED BY <2>1, <3>1, OutsNat
  <2>3. /\ told[k].output \in Nat /\ Outs(chan[k]) \in Nat /\ Outs(wire[k]) \in Nat
        /\ Piped(pipe[k]) \in Nat /\ produced[k] \in Nat
    BY FlowNat, CapAssumption
  <2>4. Sent(k)' <= produced[k]
    BY <2>1, <2>2, <2>3 DEF Flow, Sent, Delivered
  <2> QED BY <2>1, <2>4 DEF Flow
<1> QED BY <1>1, <1>2, <1>3, RelayFlow, ReceiveFlow DEF HostStep

\* Only chunks count as chunks on the socket.
LEMMA WriteOther ==
    ASSUME SocketOK, NEW k \in Execs, NEW f \in Frames \ {"output"}, Writes(k, f) \/ WriteFails(k)
    PROVE  Outs(wire'[k]) = Outs(wire[k])
<1>1. CASE Writes(k, f)
  <2>1. wire'[k] = Append(wire[k], f) /\ wire[k] \in Seq(Frames)
    BY <1>1 DEF Writes, SocketOK
  <2> QED BY <2>1, OutsAppend
<1>2. CASE WriteFails(k)
  BY <1>2 DEF WriteFails
<1> QED BY <1>1, <1>2

\* A pump moves a chunk from its pipe to the socket, or loses it with the host.
LEMMA PumpFlow ==
    ASSUME ConnTyped, NEW k \in Execs, Flow(k), NEW s \in Streams, PumpChunk(k, s)
    PROVE  Flow(k)'
<1>1. /\ UNCHANGED <<handle[k], relay[k], chan[k], told[k], produced[k]>>
      /\ pump[k][s] = "run" /\ pipe[k][s] > 0
      /\ Writes(k, "output") \/ WriteFails(k)
  BY DEF PumpChunk, hostVars
<1>2. pipe'[k] = [pipe[k] EXCEPT ![s] = @ - 1]
  BY DEF PumpChunk, ConnTyped, OutputOK
<1>3. /\ told[k].output \in Nat /\ Outs(chan[k]) \in Nat /\ Outs(wire[k]) \in Nat
      /\ produced[k] \in Nat /\ pipe[k] \in [Streams -> Nat]
  BY FlowNat, CapAssumption
<1>4. /\ \A r \in Streams : pipe[k][r] <= MaxOut
      /\ told[k].output + Outs(chan[k]) + Outs(wire[k]) + Piped(pipe[k]) <= produced[k]
      /\ handle[k] \in {"idle", "calling", "open"} /\ relay[k] # "closed" =>
           told[k].output + Outs(chan[k]) + Outs(wire[k]) + Piped(pipe[k]) = produced[k]
  BY DEF Flow, Sent, Delivered
<1>5. Piped(pipe[k]) = Piped(pipe'[k]) + 1 /\ Piped(pipe'[k]) \in Nat
  BY <1>1, <1>2, <1>3, <1>4, PipedLess, PipedNat
<1>6. \A r \in Streams : pipe'[k][r] <= MaxOut
  BY <1>2, <1>3, <1>4, CapAssumption
<1>7. ~(handle[k] = "open" /\ (Has(chan[k], "exit") \/ Has(chan[k], "timeout")))
  BY <1>1 DEF Flow, Over
<1>8. ~(handle[k] = "open" /\ (Has(chan[k], "exit") \/ Has(chan[k], "timeout")))'
  BY <1>1, <1>7 DEF Has
<1>9. CASE Writes(k, "output")
  <2>1. wire'[k] = Append(wire[k], "output") /\ wire[k] \in Seq(Frames) /\ "output" \in Frames
    BY <1>9 DEF Writes, ConnTyped, SocketOK, Frames
  <2>2. Outs(wire'[k]) = Outs(wire[k]) + 1
    BY <2>1, OutsAppend
  <2>3. Sent(k)' = told[k].output + Outs(chan[k]) + Outs(wire[k]) + Piped(pipe[k])
    BY <1>1, <1>3, <1>5, <2>2 DEF Sent, Delivered
  <2> QED BY <1>1, <1>4, <1>6, <1>8, <2>3 DEF Flow
<1>10. CASE WriteFails(k)
  <2>1. UNCHANGED wire[k] /\ relay'[k] = "closed"
    BY <1>1, <1>10 DEF WriteFails, Broken
  <2>2. Sent(k)' <= produced'[k]
    BY <1>1, <1>3, <1>4, <1>5, <2>1 DEF Sent, Delivered
  <2> QED BY <1>6, <1>8, <2>1, <2>2 DEF Flow
<1> QED BY <1>1, <1>9, <1>10

\* The steps of the guest's threads keep the flow.
LEMMA GuestFlow ==
    ASSUME ConnTyped, NEW k \in Execs, Control(k), Onward(k), Flow(k), GuestStep(k) \/ DogWakes(k)
    PROVE  Flow(k)'
<1> DEFINE Rest == UNCHANGED <<handle[k], relay[k], chan[k], told[k], pipe[k], produced[k]>>
<1> USE DEF hostVars, socketVars, threadVars, flags, outVars
<1>0. "error" \in Frames /\ "started" \in Frames /\ "timeout" \in Frames /\ "exit" \in Frames
  BY DEF Frames
<1>00. /\ SocketOK /\ ThreadsOK
       /\ handle[k] = "calling" => chan[k] = << >>
  BY DEF ConnTyped, Control, HostSide
<1>1. CASE Accept(k) \/ Probe(k) \/ SpawnChild(k) \/ ReadEof(k) \/ CancelKill(k) \/ JoinCompletion(k)
           \/ DogMarks(k) \/ DogKills(k) \/ DogWakes(k) \/ WaitChild(k) \/ StoreDone(k)
  <2>1. Rest /\ UNCHANGED <<wire[k], pump[k]>>
    BY <1>1 DEF Accept, Probe, SpawnChild, ReadEof, CancelKill, JoinCompletion, DogMarks, DogKills,
                DogWakes, WaitChild, StoreDone
  <2> QED BY <1>00, <2>1, StillFlow
<1>2. CASE SpawnFails(k)
  <2>1. Rest /\ UNCHANGED pump[k] /\ (Writes(k, "error") \/ WriteFails(k))
    BY <1>2 DEF SpawnFails
  <2>2. Outs(wire'[k]) = Outs(wire[k])
    BY <1>0, <1>00, <2>1, WriteOther
  <2> QED BY <1>00, <2>1, <2>2, StillFlow
<1>3. CASE WriteStarted(k)
  <2>1. Rest /\ (Writes(k, "started") \/ WriteFails(k))
    BY <1>3 DEF WriteStarted
  <2>2. Outs(wire'[k]) = Outs(wire[k])
    BY <1>0, <1>00, <2>1, WriteOther
  <2>3. \A s \in Streams : pump[k][s] # "ended"
    BY <1>3 DEF WriteStarted, Control, Early
  <2> QED BY <1>00, <2>1, <2>2, <2>3, StillFlow
<1>4. ASSUME NEW s \in Streams, PumpEof(k, s) PROVE Flow(k)'
  <2>1. Rest /\ UNCHANGED wire[k] /\ \A r \in Streams : pump[k][r] = "ended" => pump'[k][r] = "ended"
    BY <1>00, <1>4 DEF PumpEof, ThreadsOK
  <2> QED BY <1>00, <2>1, StillFlow
<1>5. CASE WriteTerminal(k)
  <2>1. Rest /\ UNCHANGED pump[k] /\ (Writes(k, "timeout") \/ Writes(k, "exit") \/ WriteFails(k))
    BY <1>5 DEF WriteTerminal
  <2>2. Outs(wire'[k]) = Outs(wire[k])
    BY <1>0, <1>00, <2>1, WriteOther
  <2> QED BY <1>00, <2>1, <2>2, StillFlow
<1> QED BY <1>1, <1>2, <1>3, <1>4, <1>5, PumpFlow DEF GuestStep

\* A chunk that is written is in a pipe.
LEMMA OutputFlow ==
    ASSUME ConnTyped, NEW k \in Execs, Flow(k), NEW s \in Streams, Output(k, s)
    PROVE  Flow(k)'
<1>1. /\ UNCHANGED <<handle[k], relay[k], chan[k], told[k], wire[k]>>
      /\ pump[k][s] # "ended" /\ produced[k] < MaxOut
  BY DEF Output, hostVars, socketVars
<1>2. pipe'[k] = [pipe[k] EXCEPT ![s] = @ + 1] /\ produced'[k] = produced[k] + 1
  BY DEF Output, ConnTyped, OutputOK
<1>3. /\ told[k].output \in Nat /\ Outs(chan[k]) \in Nat /\ Outs(wire[k]) \in Nat
      /\ produced[k] \in Nat /\ pipe[k] \in [Streams -> Nat] /\ Piped(pipe[k]) \in Nat
  BY FlowNat, CapAssumption
<1>4. /\ \A r \in Streams : pipe[k][r] <= MaxOut
      /\ told[k].output + Outs(chan[k]) + Outs(wire[k]) + Piped(pipe[k]) <= produced[k]
      /\ handle[k] \in {"idle", "calling", "open"} /\ relay[k] # "closed" =>
           told[k].output + Outs(chan[k]) + Outs(wire[k]) + Piped(pipe[k]) = produced[k]
  BY DEF Flow, Sent, Delivered
<1>5. pipe[k][s] <= Piped(pipe[k]) /\ pipe[k][s] \in Nat
  BY <1>3, <1>4, PipedBounds
<1>6. pipe[k][s] < MaxOut
  BY <1>1, <1>3, <1>4, <1>5, CapAssumption
<1>7. Piped(pipe'[k]) = Piped(pipe[k]) + 1
  BY <1>2, <1>3, <1>6, PipedMore
<1>8. \A r \in Streams : pipe'[k][r] <= MaxOut
  BY <1>2, <1>3, <1>4, <1>6, CapAssumption
<1>9. ~(handle[k] = "open" /\ (Has(chan[k], "exit") \/ Has(chan[k], "timeout")))
  BY <1>1 DEF Flow, Over
<1>10. ~(handle[k] = "open" /\ (Has(chan[k], "exit") \/ Has(chan[k], "timeout")))'
  BY <1>1, <1>9 DEF Has
<1>11. Sent(k)' = told[k].output + Outs(chan[k]) + Outs(wire[k]) + Piped(pipe[k]) + 1
  BY <1>1, <1>3, <1>7 DEF Sent, Delivered
<1>12. Sent(k)' <= produced'[k]
  BY <1>2, <1>3, <1>4, <1>11
<1>13. (handle[k] \in {"idle", "calling", "open"} /\ relay[k] # "closed" => Sent(k) = produced[k])'
  BY <1>1, <1>2, <1>4, <1>11
<1> QED BY <1>8, <1>10, <1>12, <1>13 DEF Flow

\* Every step keeps the flow, for every exec.
LEMMA FlowStep ==
    ASSUME Base, Inv', [ConnNext]_connVars, NEW k \in Execs, Order(k), Flow(k)
    PROVE  Flow(k)'
<1>0. ConnTyped /\ Control(k) /\ Onward(k) /\ (handle[k] = "calling" => chan[k] = << >>)
  BY AllOnward DEF Base, Control, HostSide
<1>1. ASSUME UNCHANGED Row(k), UNCHANGED <<pipe[k], produced[k]>> PROVE Flow(k)'
  <2>1. UNCHANGED <<handle[k], relay[k], chan[k], told[k], wire[k], pump[k]>>
    BY <1>1 DEF Row
  <2> QED BY <1>0, <1>1, <2>1, StillFlow
<1>2. CASE UNCHANGED connVars
  <2>1. UNCHANGED Row(k) /\ UNCHANGED <<pipe[k], produced[k]>>
    BY <1>2 DEF connVars, hostVars, socketVars, threadVars, flags, outVars, Row
  <2> QED BY <1>1, <2>1
<1>3. ASSUME NEW c \in Execs, HostStep(c) \/ GuestStep(c) \/ DogWakes(c)
      PROVE  Flow(k)'
  <2>1. CASE c = k
    BY <1>0, <1>3, <2>1, HostFlow, GuestFlow
  <2>2. CASE c # k
    BY <1>0, <1>1, <1>3, <2>2, OtherRows
  <2> QED BY <2>1, <2>2
<1>4. CASE WorldStep
  <2>1. UNCHANGED Row(k)
    BY <1>4, WorldRows
  <2>2. CASE UNCHANGED <<pipe, produced>>
    BY <1>1, <2>1, <2>2
  <2>3. ASSUME NEW c \in Execs, NEW s \in Streams, Output(c, s) PROVE Flow(k)'
    <3>1. CASE c = k
      BY <1>0, <2>3, <3>1, OutputFlow
    <3>2. CASE c # k
      <4>1. UNCHANGED <<pipe[k], produced[k]>>
        BY <1>0, <2>3, <3>2 DEF Output, ConnTyped, OutputOK
      <4> QED BY <1>1, <2>1, <4>1
    <3> QED BY <3>1, <3>2
  <2> QED BY <1>4, <2>2, <2>3, WorldRows
<1> QED BY <1>2, <1>3, <1>4 DEF ConnNext, WorldStep

\* The order and the flow are invariants.
LEMMA FlowHolds == ConnSpec => [](\A k \in Execs : Order(k) /\ Flow(k))
<1>1. ConnInit => \A k \in Execs : Order(k) /\ Flow(k)
  <2> SUFFICES ASSUME ConnInit, NEW k \in Execs PROVE Order(k) /\ Flow(k)
    OBVIOUS
  <2>1. Len(<< >>) = 0 /\ << >> \in Seq(Events)
    BY EmptySeq
  <2>2. /\ handle[k] = "idle" /\ chan[k] = << >> /\ wire[k] = << >> /\ told[k].started = FALSE
        /\ told[k].output = 0 /\ produced[k] = 0 /\ pipe[k] = [s \in Streams |-> 0]
    BY DEF ConnInit, Nothing
  <2>3. Order(k)
    BY <2>1, <2>2 DEF Order, WireOrder, ChanOrder, SocketOrder, Announced, Has
  <2>4. Outs(<< >>) = 0
    BY <2>1, OutsNat
  <2>5. Piped(pipe[k]) = 0
    BY <2>2, PipedBounds, CapAssumption
  <2>6. Sent(k) = 0
    BY <2>2, <2>4, <2>5 DEF Sent, Delivered
  <2> QED BY <2>2, <2>3, <2>6, CapAssumption DEF Flow
<1>2. Base /\ Base' /\ (\A k \in Execs : Order(k) /\ Flow(k)) /\ [ConnNext]_connVars
        => (\A k \in Execs : Order(k) /\ Flow(k))'
  BY OrderStep, FlowStep DEF Base
<1> QED BY <1>1, <1>2, BaseHolds, PTL DEF ConnSpec

\* Nothing is out of its type, and no counter and no queue is over its bound:
\* the host is told of no chunk that was not written, and neither socket nor
\* channel takes more than it has room for.
THEOREM ConnTyping == ConnSpec => []ConnTypeOK
<1>1. ASSUME Base, \A k \in Execs : Order(k) /\ Flow(k) PROVE ConnTypeOK
  <2>0. ConnTyped /\ TypeOK
    BY <1>1 DEF Base, Inv
  <2>1. ASSUME NEW k \in Execs PROVE told[k] \in [started : BOOLEAN, output : 0..MaxOut,
                                                  end : Terminals \cup {"none"}]
    <3>1. /\ told[k].output \in Nat /\ Outs(chan[k]) \in Nat /\ Outs(wire[k]) \in Nat
          /\ Piped(pipe[k]) \in Nat /\ produced[k] \in 0..MaxOut
      BY <2>0, FlowNat
    <3>2. told[k].output + Outs(chan[k]) + Outs(wire[k]) + Piped(pipe[k]) <= produced[k]
      BY <1>1 DEF Flow, Sent, Delivered
    <3>3. told[k].output \in 0..MaxOut
      BY <3>1, <3>2, CapAssumption
    <3>4. told[k] \in Tellings
      BY <2>0 DEF ConnTyped, HostOK
    <3> QED BY <3>3, <3>4 DEF Tellings
  <2>2. told \in [Execs -> [started : BOOLEAN, output : 0..MaxOut, end : Terminals \cup {"none"}]]
    <3>1. told \in [Execs -> Tellings]
      BY <2>0 DEF ConnTyped, HostOK
    <3> QED BY <2>1, <3>1
  <2>3. pipe \in [Execs -> [Streams -> 0..MaxOut]]
    <3>1. \A k \in Execs, s \in Streams : pipe[k][s] <= MaxOut
      BY <1>1 DEF Flow
    <3>2. pipe \in [Execs -> [Streams -> Nat]]
      BY <2>0 DEF ConnTyped, OutputOK
    <3>3. ASSUME NEW k \in Execs PROVE pipe[k] \in [Streams -> 0..MaxOut]
      BY <3>1, <3>2, CapAssumption
    <3> QED BY <3>2, <3>3
  <2>4. \A k \in Execs : /\ Len(wire[k]) <= WireCap /\ wire[k] \in Seq(Frames)
                         /\ Len(chan[k]) <= ChanCap /\ chan[k] \in Seq(Events)
    BY <2>0 DEF ConnTyped, HostOK, ChanOK, SocketOK
  <2> QED BY <2>0, <2>2, <2>3, <2>4
          DEF ConnTypeOK, ConnTyped, HostOK, SocketOK, ThreadsOK, ProcsOK, OutputOK
<1> QED BY <1>1, BaseHolds, FlowHolds, PTL

-----------------------------------------------------------------------------
(* The refinement of ExecPromise *)

Calls == [k \in Execs |-> IF handle[k] = "calling" THEN "open" ELSE handle[k]]

Stages == [k \in Execs |-> Stage(k)]

\* Stages depend on processes, what they hold and the guest's life.
LEMMA SameStages ==
    ASSUME UNCHANGED <<life, job, holds, up>>
    PROVE  UNCHANGED Stages
<1>1. \A k \in Execs, s \in Streams : Holders(k, s)' = Holders(k, s)
  BY DEF Holders
<1>2. \A k \in Execs : Stage(k)' = Stage(k)
  BY <1>1 DEF Stage
<1> QED BY <1>2 DEF Stages

\* A command's own process is a writer; it starts the stage.
LEMMA RunStages ==
    ASSUME Inv, NEW k \in Execs, Start(k), UNCHANGED <<job, holds, up>>, up
    PROVE  Stages[k] = "unborn" /\ Stages' = [Stages EXCEPT ![k] = "running"]
<1> USE ChildrenAssumption DEF Children
<1>1. /\ life[k] = "unborn" /\ life'[k] = "running"
      /\ \A j \in Children \ {k} : life'[j] = life[j]
  BY DEF Start, Inv, TypeOK
<1>2. Stage(k) = "unborn"
  BY <1>1 DEF Stage
<1>3. Stage(k)' = "running"
  <2>1. \A s \in Streams : k \in Holders(k, s)'
    BY <1>1 DEF Holders
  <2> QED BY <1>1, <2>1, StreamsAssumption DEF Stage
<1>4. ASSUME NEW c \in Execs, c # k PROVE Stage(c)' = Stage(c)
  <2>1. \A s \in Streams : Holders(c, s)' = Holders(c, s)
    BY <1>1, <1>4 DEF Holders
  <2> QED BY <1>1, <1>4, <2>1 DEF Stage
<1> QED BY <1>2, <1>3, <1>4 DEF Stages

\* A background process joins the writers of a command that runs.
LEMMA ForkStages ==
    ASSUME ConnTyped, Inv, Born, NEW k \in Execs, NEW o \in Orphans, Fork(k, o)
    PROVE  UNCHANGED Stages
<1> USE ChildrenAssumption DEF Children
<1>1. /\ up /\ UNCHANGED up /\ life[k] = "running" /\ life[o] = "unborn" /\ life'[o] = "running"
      /\ \A j \in Children \ {o} : life'[j] = life[j]
      /\ job'[o] = k /\ \A j \in Orphans \ {o} : job'[j] = job[j] /\ holds'[j] = holds[j]
  BY DEF Fork, Start, Inv, TypeOK, ConnTyped, ProcsOK
<1>2. Stage(k) = "running" /\ Stage(k)' = "running"
  <2>1. \A s \in Streams : k \in Holders(k, s) /\ k \in Holders(k, s)'
    BY <1>1 DEF Holders
  <2> QED BY <1>1, <2>1, StreamsAssumption DEF Stage
<1>3. ASSUME NEW c \in Execs, c # k PROVE Stage(c)' = Stage(c)
  <2>1. \A s \in Streams : Holders(c, s)' = Holders(c, s)
    BY <1>1, <1>3 DEF Holders
  <2> QED BY <1>1, <1>3, <2>1 DEF Stage
<1>4. \A c \in Execs : Stage(c)' = Stage(c)
  BY <1>2, <1>3
<1> QED BY <1>4 DEF Stages

\* When nothing starts, the stages of some commands fall quiet.
LEMMA QuietStages ==
    ASSUME up' => up, UNCHANGED <<job, holds>>,
           \A j \in Children : /\ life'[j] = "running" => life[j] = "running"
                               /\ life'[j] = "unborn" <=> life[j] = "unborn"
    PROVE  \E S \in SUBSET Execs :
             Stages' = [k \in Execs |-> IF k \in S /\ Stages[k] = "running" THEN "quiet" ELSE Stages[k]]
<1> DEFINE S == {k \in Execs : Stage(k)' = "quiet"}
<1>1. \A k \in Execs, s \in Streams : Holders(k, s)' \subseteq Holders(k, s)
  BY DEF Holders
<1>2. ASSUME NEW k \in Execs
      PROVE  Stage(k)' = IF k \in S /\ Stage(k) = "running" THEN "quiet" ELSE Stage(k)
  BY <1>1 DEF Stage, Children
<1> HIDE DEF S
<1>3. Stages' = [k \in Execs |-> IF k \in S /\ Stages[k] = "running" THEN "quiet" ELSE Stages[k]]
  BY <1>2 DEF Stages
<1> QED BY <1>3 DEF S

\* A received event is one that the promise allows.
LEMMA ReceiveTells ==
    ASSUME Base, NEW k \in Execs, Order(k), Flow(k), Receive(k)
    PROVE  Promise!TellStarted(k) \/ Promise!TellOutput(k)
             \/ \E end \in {"exit", "timeout", "failed"} : Promise!TellEnd(k, end)
<1> DEFINE e == chan[k][1]
<1>0. ConnTyped /\ HostOK /\ Control(k)
  BY DEF Base, ConnTyped
<1>1. /\ handle[k] = "open" /\ chan[k] # << >> /\ e \in Events /\ 1 \in 1..Len(chan[k])
      /\ Len(chan[k]) \in Nat \ {0}
      /\ told' = [told EXCEPT ![k] = Heard(@, e)]
      /\ handle' = [handle EXCEPT ![k] = IF e \in Terminals THEN "over" ELSE @]
      /\ UNCHANGED <<deadline, produced>> /\ UNCHANGED <<life, job, holds, up>>
  BY <1>0, Received DEF vars, outVars, procVars
<1>2. UNCHANGED Stages
  BY <1>1, SameStages
<1>3. /\ Calls[k] = "open"
      /\ Calls' = [Calls EXCEPT ![k] = IF e \in Terminals THEN "over" ELSE @]
  BY <1>0, <1>1 DEF Calls, HostOK
<1>4. told[k] \in Tellings /\ told[k].end = "none"
  BY <1>0, <1>1 DEF HostOK, Order, ChanOrder
<1>5. /\ told[k].output \in Nat /\ Outs(chan[k]) \in Nat /\ Outs(wire[k]) \in Nat
      /\ Piped(pipe[k]) \in Nat /\ produced[k] \in Nat
      /\ told[k].output + Outs(chan[k]) + Outs(wire[k]) + Piped(pipe[k]) <= produced[k]
  BY <1>0, FlowNat, CapAssumption DEF Flow, Sent, Delivered
<1>6. e # "started" => IsFiniteSet(Chunks(chan[k]))
  BY <1>0, OutsNat DEF HostOK, ChanOK
<1>7. CASE e = "started"
  <2>1. ~told[k].started /\ told[k].output = 0
    BY <1>1, <1>7 DEF Order, ChanOrder, Has
  <2>2. told[k] = Nothing
    BY <1>4, <2>1 DEF Tellings, Nothing
  <2>3. Stages[k] # "unborn"
    <3>1. fin[k] # "none"
      BY <1>1, <1>7 DEF Order, Announced, Has
    <3> QED BY <1>0, <3>1 DEF Control, Late, Stages, Stage
  <2>4. told' = [told EXCEPT ![k].started = TRUE]
    BY <1>1, <1>7 DEF Heard
  <2>5. UNCHANGED Calls
    BY <1>3, <1>7 DEF Terminals, Calls
  <2>6. Promise!TellStarted(k)
    BY <1>1, <1>2, <1>3, <2>2, <2>3, <2>4, <2>5
       DEF Promise!TellStarted, Promise!Nothing, Nothing, Calls, Stages
  <2> QED BY <2>6
<1>8. CASE e = "output"
  <2>1. told[k].started
    BY <1>1, <1>8 DEF Order, ChanOrder
  <2>2. told[k].output < produced[k]
    <3>1. Outs(chan[k]) # 0
      <4>1. 1 \in Chunks(chan[k])
        BY <1>1, <1>8 DEF Chunks
      <4> QED BY <1>6, <1>8, <4>1, FS_EmptySet DEF Outs
    <3> QED BY <1>5, <3>1
  <2>3. told' = [told EXCEPT ![k].output = @ + 1]
    BY <1>1, <1>8 DEF Heard
  <2>4. UNCHANGED Calls
    BY <1>3, <1>8 DEF Terminals, Calls
  <2>5. Promise!TellOutput(k)
    BY <1>1, <1>2, <1>3, <2>1, <2>2, <2>3, <2>4 DEF Promise!TellOutput, Calls, Stages
  <2> QED BY <2>5
<1>9. CASE e \in Terminals
  <2>1. ASSUME e # "failed"
        PROVE  told[k].started /\ Stages[k] = "quiet" /\ told[k].output = produced[k]
    <3>1. told[k].started
      BY <1>1, <1>9, <2>1 DEF Order, ChanOrder, Terminals
    <3>2. Over(k) /\ Delivered(k) = produced[k]
      BY <1>1, <1>9, <2>1 DEF Flow, Has, Terminals
    <3>3. Stages[k] = "quiet"
      BY <3>2 DEF Over, Stages, Stage
    <3>4. Outs(chan[k]) = 0
      <4>1. Len(chan[k]) = 1
        BY <1>1, <1>9 DEF Order, ChanOrder
      <4>2. Chunks(chan[k]) = {}
        BY <1>9, <4>1 DEF Chunks, Terminals
      <4> QED BY <4>2, FS_EmptySet DEF Outs
    <3> QED BY <1>5, <3>1, <3>2, <3>3, <3>4 DEF Delivered
  <2>2. e = "timeout" => deadline[k]
    BY <1>1 DEF Order, ChanOrder
  <2>3. told' = [told EXCEPT ![k].end = e]
    BY <1>1, <1>9 DEF Heard, Terminals
  <2>4. Calls' = [Calls EXCEPT ![k] = "over"]
    BY <1>3, <1>9
  <2>5. PICK end \in {"exit", "timeout", "failed"} : end = e
    BY <1>9 DEF Terminals
  <2> HIDE DEF e
  <2>6. Promise!TellEnd(k, end)
    BY <1>1, <1>2, <1>3, <2>1, <2>2, <2>3, <2>4, <2>5 DEF Promise!TellEnd, Calls, Stages
  <2> QED BY <2>6
<1> QED BY <1>1, <1>7, <1>8, <1>9 DEF Events

\* The steps of the host are steps of the promise, or it does not see them.
LEMMA HostKeeps ==
    ASSUME Base, NEW k \in Execs, Order(k), Flow(k), HostStep(k)
    PROVE  [Promise!Next]_(Promise!vars)
<1>0. HostOK /\ Control(k)
  BY DEF Base, ConnTyped
<1> USE DEF vars, outVars, procVars
<1>1. CASE ExecConnect(k)
  <2>1. /\ handle[k] = "idle" /\ UNCHANGED <<life, job, holds, up, produced, told>>
        /\ \/ handle' = [handle EXCEPT ![k] = "refused"] /\ UNCHANGED deadline
           \/ /\ handle' = [handle EXCEPT ![k] = "calling"]
              /\ \E t \in BOOLEAN : deadline' = [deadline EXCEPT ![k] = t]
    BY <1>1 DEF ExecConnect
  <2>2. UNCHANGED Stages
    BY <2>1, SameStages
  <2>3. /\ Calls[k] = "idle"
        /\ handle' = [handle EXCEPT ![k] = "refused"] => Calls' = [Calls EXCEPT ![k] = "refused"]
        /\ handle' = [handle EXCEPT ![k] = "calling"] => Calls' = [Calls EXCEPT ![k] = "open"]
    BY <1>0, <2>1 DEF Calls, HostOK
  <2>4. Promise!Call(k)
    BY <2>1, <2>2, <2>3 DEF Promise!Call, Calls, Stages
  <2> QED BY <2>4 DEF Promise!Next
<1>2. CASE ExecSend(k)
  <2>1. /\ handle[k] = "calling" /\ UNCHANGED <<life, job, holds, up, produced, told, deadline>>
        /\ handle' = [handle EXCEPT ![k] = IF up THEN "open" ELSE "refused"] /\ told[k] = Nothing
    BY <1>0, <1>2 DEF ExecSend, Control, HostSide
  <2>2. UNCHANGED Stages
    BY <2>1, SameStages
  <2>3. /\ Calls[k] = "open"
        /\ up => UNCHANGED Calls
        /\ ~up => Calls' = [Calls EXCEPT ![k] = "refused"]
    BY <1>0, <2>1 DEF Calls, HostOK
  <2>4. CASE up
    BY <2>1, <2>2, <2>3, <2>4 DEF Promise!vars, Calls, Stages
  <2>5. CASE ~up
    <3>1. Promise!CallFails(k)
      BY <2>1, <2>2, <2>3, <2>5 DEF Promise!CallFails, Promise!Nothing, Nothing, Calls, Stages
    <3> QED BY <3>1 DEF Promise!Next
  <2> QED BY <2>4, <2>5
<1>3. CASE ExecDrop(k)
  <2>1. /\ handle[k] \in {"calling", "open"} /\ UNCHANGED <<life, job, holds, up, produced, told, deadline>>
        /\ handle' = [handle EXCEPT ![k] = "dropped"]
    BY <1>3 DEF ExecDrop
  <2>2. UNCHANGED Stages
    BY <2>1, SameStages
  <2>3. Calls[k] = "open" /\ Calls' = [Calls EXCEPT ![k] = "dropped"]
    BY <1>0, <2>1 DEF Calls, HostOK
  <2>4. Promise!Drop(k)
    BY <2>1, <2>2, <2>3 DEF Promise!Drop, Calls, Stages
  <2> QED BY <2>4 DEF Promise!Next
<1>4. CASE Relay(k)
  <2>1. UNCHANGED <<life, job, holds, up, produced, told, deadline, handle>>
    BY <1>4 DEF Relay
  <2>2. UNCHANGED Stages
    BY <2>1, SameStages
  <2> QED BY <2>1, <2>2 DEF Promise!vars, Calls, Stages
<1>5. CASE Receive(k)
  <2>1. Promise!TellStarted(k) \/ Promise!TellOutput(k)
          \/ \E end \in {"exit", "timeout", "failed"} : Promise!TellEnd(k, end)
    BY <1>5, ReceiveTells
  <2> QED BY <2>1 DEF Promise!Next
<1> QED BY <1>1, <1>2, <1>3, <1>4, <1>5 DEF HostStep

\* In the guest it sees the start of the command only.
LEMMA GuestKeeps ==
    ASSUME Base, NEW k \in Execs, GuestStep(k) \/ DogWakes(k)
    PROVE  [Promise!Next]_(Promise!vars)
<1> USE DEF hostVars, outVars, procVars
<1>1. UNCHANGED <<handle, deadline, told, produced, job, holds, up>>
  BY DEF GuestStep, DogWakes, Accept, Probe, SpawnFails, SpawnChild, WriteStarted, ReadEof, CancelKill,
         JoinCompletion, PumpChunk, PumpEof, DogMarks, DogKills, WaitChild, StoreDone, WriteTerminal
<1>2. UNCHANGED Calls
  BY <1>1 DEF Calls
<1>3. UNCHANGED life \/ (Start(k) /\ up)
  BY DEF GuestStep, DogWakes, Accept, Probe, SpawnFails, SpawnChild, WriteStarted, ReadEof, CancelKill,
         JoinCompletion, PumpChunk, PumpEof, DogMarks, DogKills, WaitChild, Claim, Register, StoreDone,
         WriteTerminal, vars
<1>4. CASE UNCHANGED life
  <2>1. UNCHANGED Stages
    BY <1>1, <1>4, SameStages
  <2> QED BY <1>1, <1>2, <2>1 DEF Promise!vars, Calls, Stages
<1>5. CASE Start(k) /\ up
  <2>1. Stages[k] = "unborn" /\ Stages' = [Stages EXCEPT ![k] = "running"]
    BY <1>1, <1>5, RunStages DEF Base
  <2>2. Promise!Run(k)
    BY <1>1, <1>2, <2>1 DEF Promise!Run, Calls, Stages
  <2> QED BY <2>2 DEF Promise!Next
<1> QED BY <1>3, <1>4, <1>5

\* The processes write, and fall quiet.
LEMMA WorldKeeps ==
    ASSUME Base, Inv', WorldStep
    PROVE  [Promise!Next]_(Promise!vars)
<1> USE DEF hostVars, outVars, procVars
<1>0. UNCHANGED <<handle, deadline, told>>
  BY DEF WorldStep, Fork, Output, ProcessDies, Reaper, GuestKilled
<1>1. UNCHANGED Calls
  BY <1>0 DEF Calls
<1>2. ASSUME NEW k \in Execs, NEW o \in Orphans, Fork(k, o) PROVE UNCHANGED Promise!vars
  <2>1. UNCHANGED produced
    BY <1>2 DEF Fork
  <2>2. UNCHANGED Stages
    BY <1>2, ForkStages DEF Base
  <2> QED BY <1>0, <1>1, <2>1, <2>2 DEF Promise!vars, Calls, Stages
<1>3. ASSUME NEW k \in Execs, NEW s \in Streams, Output(k, s) PROVE Promise!Write(k)
  <2>1. UNCHANGED <<life, job, holds, up>> /\ up /\ produced' = [produced EXCEPT ![k] = @ + 1]
        /\ Holders(k, s) # {}
    BY <1>3 DEF Output, vars
  <2>2. UNCHANGED Stages
    BY <2>1, SameStages
  <2>3. Stages[k] = "running"
    <3>1. PICK j \in Children : life[j] = "running" /\ (j = k \/ (j \in Orphans /\ job[j] = k))
      BY <2>1 DEF Holders
    <3>2. k # None
      BY ChildrenAssumption DEF Children
    <3>3. life[k] # "unborn"
      BY <3>1, <3>2 DEF Base, Born
    <3> QED BY <2>1, <3>3 DEF Stages, Stage
  <2> QED BY <1>0, <1>1, <2>1, <2>2, <2>3 DEF Promise!Write, Calls, Stages
<1>4. ASSUME UNCHANGED <<job, holds, produced>>, up' => up,
             \A j \in Children : /\ life'[j] = "running" => life[j] = "running"
                                 /\ life'[j] = "unborn" <=> life[j] = "unborn"
      PROVE  Promise!FallQuiet
  <2>1. PICK S \in SUBSET Execs :
          Stages' = [k \in Execs |-> IF k \in S /\ Stages[k] = "running" THEN "quiet" ELSE Stages[k]]
    BY <1>4, QuietStages
  <2> QED BY <1>0, <1>1, <1>4, <2>1 DEF Promise!FallQuiet, Calls, Stages
<1>5. ASSUME NEW j \in Children, ProcessDies(j) \/ Reaper(j) PROVE Promise!FallQuiet
  <2>1. UNCHANGED <<job, holds, produced, up>>
    BY <1>5 DEF ProcessDies, Reaper
  <2>2. Die(j) \/ Reap(j) \/ ReapUnknown(j) \/ Deliver(j) \/ Park(j)
    BY <1>5 DEF ProcessDies, Reaper
  <2>3. life \in [Children -> {"unborn", "running", "zombie", "reaped", "routed", "evicted", "lost"}]
    BY DEF Base, Inv, TypeOK
  <2>4. UNCHANGED pid /\ \A c \in Children : life'[c] = "running" => life[c] = "running"
    BY <2>2, <2>3 DEF Die, Reap, ReapUnknown, Deliver, Park
  <2>5. \A c \in Children : life'[c] = "unborn" <=> life[c] = "unborn"
    BY <2>4 DEF Base, Inv, Linked
  <2> QED BY <1>4, <2>1, <2>4, <2>5
<1>6. CASE GuestKilled
  <2>1. UNCHANGED <<job, holds, produced, life>> /\ up
    BY <1>6 DEF GuestKilled, vars
  <2> QED BY <1>4, <2>1 DEF Promise!Next
<1> QED BY <1>2, <1>3, <1>5, <1>6 DEF WorldStep, Promise!Next

\* Backend::exec, the relay task, the socket, the guest's threads and its
\* processes together keep what ExecPromise says of every ExecHandle: Started
\* first, then output that was written, and one terminal event; Exited and the
\* timeout only after the last chunk, and a timeout only for who asked.  No
\* assumption is made on pids, sizes of socket and channel, or schedules.
THEOREM ExecKeepsPromise == ConnSpec => KeepsPromise
<1>1. ConnInit => Promise!Init
  <2> SUFFICES ASSUME ConnInit PROVE Promise!Init
    OBVIOUS
  <2>1. Calls = [k \in Execs |-> "idle"]
    BY DEF ConnInit, Calls
  <2>2. \A k \in Execs : Stage(k) = "unborn"
    BY DEF ConnInit, Init, Stage, Children
  <2>3. Stages = [k \in Execs |-> "unborn"]
    BY <2>2 DEF Stages
  <2> QED BY <2>1, <2>3 DEF ConnInit, Promise!Init, Promise!Nothing, Nothing, Calls, Stages
<1>2. Base /\ Base' /\ (\A k \in Execs : Order(k) /\ Flow(k)) /\ [ConnNext]_connVars
        => [Promise!Next]_(Promise!vars)
  <2> SUFFICES ASSUME Base, Base', \A k \in Execs : Order(k) /\ Flow(k), [ConnNext]_connVars
               PROVE  [Promise!Next]_(Promise!vars)
    OBVIOUS
  <2>1. CASE UNCHANGED connVars
    <3>1. UNCHANGED <<handle, deadline, told, produced, life, job, holds, up>>
      BY <2>1 DEF connVars, vars, hostVars, procVars, outVars
    <3>2. UNCHANGED Stages
      BY <3>1, SameStages
    <3> QED BY <3>1, <3>2 DEF Promise!vars, Stages
  <2>2. Inv'
    BY DEF Base
  <2> QED BY <2>1, <2>2, HostKeeps, GuestKeeps, WorldKeeps DEF ConnNext, WorldStep
<1> QED BY <1>1, <1>2, BaseHolds, FlowHolds, PTL DEF ConnSpec, KeepsPromise, Promise!Spec

-----------------------------------------------------------------------------
(* The watchdog, the cancellation and the verdict; from here on pids are not  *)
(* recycled, because a kill of a recycled process group hits another command. *)

\* An Exited is on its way to the host, or has come.
Exiting(k) == told[k].end = "exit" \/ Has(chan[k], "exit") \/ Has(wire[k], "exit")

\* A watchdog that kills has said so before; Exited is not said of a command it
\* killed; and a running command has its watchers.
Verdict(k) ==
    /\ killed[k] = "watchdog" => timed_out[k]
    /\ Exiting(k) => killed[k] # "watchdog" /\ fin[k] = "ended"
    /\ fin[k] # "none" /\ up /\ life[k] = "running" /\ killed[k] = "no"
          => /\ conn[k] \in {"reading", "killing"}
             /\ deadline[k] => dog[k] # "off"

\* When the completion thread has the status the command is gone.
LEMMA DoneIsGone ==
    ASSUME Recycle = FALSE, Base, NEW k \in Execs, done[k]
    PROVE  life[k] # "running"
<1>1. thread[k] = "done"
  BY DEF Base, Control, Late
<1> QED BY <1>1 DEF Base, Inv, Unmixed

\* Whoever kills a command is a thread of its own connection, and the watchdog
\* has marked the timeout by then.
LEMMA KilledBy ==
    ASSUME Recycle = FALSE, Base, [ConnNext]_connVars, NEW k \in Execs
    PROVE  \/ UNCHANGED killed[k]
           \/ /\ killed[k] = "no" /\ life[k] = "running"
              /\ killed'[k] = "cancel" \/ (killed'[k] = "watchdog" /\ timed_out[k])
<1> USE DEF procVars
<1>1. ASSUME NEW c \in Execs, CancelKill(c)
      PROVE  UNCHANGED killed[k] \/ (killed[k] = "no" /\ life[k] = "running" /\ killed'[k] = "cancel")
  BY <1>1 DEF CancelKill, KillGroup, Children
<1>2. ASSUME NEW c \in Execs, DogKills(c)
      PROVE  UNCHANGED killed[k]
               \/ (killed[k] = "no" /\ life[k] = "running" /\ killed'[k] = "watchdog" /\ timed_out[k])
  <2>1. killed' = [j \in Children |->
                     IF killed[j] = "no" /\ life[j] = "running" /\ InGroup(j, c) THEN "watchdog" ELSE killed[j]]
        /\ dog[c] = "marked"
    BY <1>2 DEF DogKills, KillGroup
  <2>2. timed_out[c] /\ life[c] # "unborn"
    BY <2>1 DEF Base, Control, Late
  <2>3. InGroup(k, c) => k = c
    <3>1. pid[c] # None
      BY <2>2 DEF Base, Inv, Linked, Children
    <3> QED BY <3>1 DEF InGroup, Base, Inv, Unmixed, Children
  <2> QED BY <2>1, <2>2, <2>3 DEF Children
<1>3. CASE UNCHANGED killed
  BY <1>3
<1>4. CASE UNCHANGED connVars
  BY <1>4 DEF connVars
<1>5. ASSUME NEW c \in Execs, HostStep(c) \/ DogWakes(c) PROVE UNCHANGED killed
  BY <1>5 DEF HostStep, ExecConnect, ExecSend, ExecDrop, Relay, Receive, DogWakes
<1>6. ASSUME NEW c \in Execs, GuestStep(c) PROVE UNCHANGED killed \/ CancelKill(c) \/ DogKills(c)
  BY <1>6 DEF GuestStep, Accept, Probe, SpawnFails, SpawnChild, WriteStarted, ReadEof,
              JoinCompletion, PumpChunk, PumpEof, DogMarks, WaitChild, StoreDone, WriteTerminal
<1>7. CASE WorldStep
  BY <1>7 DEF WorldStep, Fork, Output, ProcessDies, Reaper, GuestKilled
<1> QED BY <1>1, <1>2, <1>3, <1>4, <1>5, <1>6, <1>7 DEF ConnNext, WorldStep

\* The guest does not come back.
LEMMA UpFalls ==
    ASSUME [ConnNext]_connVars
    PROVE  UNCHANGED up \/ up' = FALSE
<1>1. CASE UNCHANGED connVars
  BY <1>1 DEF connVars
<1>2. ASSUME NEW c \in Execs, HostStep(c) \/ GuestStep(c) \/ DogWakes(c) PROVE UNCHANGED up
  BY <1>2 DEF HostStep, ExecConnect, ExecSend, ExecDrop, Relay, Receive, DogWakes, GuestStep, Accept, Probe,
              SpawnFails, SpawnChild, WriteStarted, ReadEof, CancelKill, JoinCompletion, PumpChunk, PumpEof,
              DogMarks, DogKills, WaitChild, StoreDone, WriteTerminal
<1>3. CASE WorldStep
  BY <1>3 DEF WorldStep, Fork, Output, ProcessDies, Reaper, GuestKilled
<1> QED BY <1>1, <1>2, <1>3 DEF ConnNext, WorldStep

\* A step keeps the verdict unless it drops a flag, says Exited of a killed
\* command or lets a watcher go.
LEMMA VerdictKept ==
    ASSUME Recycle = FALSE, Base, Inv', [ConnNext]_connVars, NEW k \in Execs, Verdict(k),
           timed_out[k] => timed_out'[k],
           fin[k] = "ended" => fin'[k] = "ended",
           Exiting(k)' => Exiting(k) \/ (fin'[k] = "ended" /\ ~timed_out[k] /\ UNCHANGED killed[k]),
           fin[k] = "none" => fin'[k] = "none" \/ (conn'[k] = "reading" /\ (deadline'[k] => dog'[k] # "off")),
           fin[k] # "none" => UNCHANGED deadline[k],
           fin[k] # "none" /\ life[k] = "running" /\ killed'[k] = "no" =>
             /\ conn[k] \in {"reading", "killing"} => conn'[k] \in {"reading", "killing"}
             /\ dog[k] # "off" => dog'[k] # "off"
    PROVE  Verdict(k)'
<1>0. /\ \/ UNCHANGED killed[k]
         \/ /\ killed[k] = "no" /\ life[k] = "running"
            /\ killed'[k] = "cancel" \/ (killed'[k] = "watchdog" /\ timed_out[k])
  BY KilledBy
<1>1. killed'[k] = "watchdog" => timed_out'[k]
  BY <1>0 DEF Verdict
<1>2. ASSUME Exiting(k)' PROVE killed'[k] # "watchdog" /\ fin'[k] = "ended"
  <2>1. CASE Exiting(k)
    <3>1. killed[k] # "watchdog" /\ fin[k] = "ended"
      BY <2>1 DEF Verdict
    <3>2. done[k]
      BY <3>1 DEF Base, Control, Late
    <3> QED BY <1>0, <3>1, <3>2, DoneIsGone
  <2>2. CASE fin'[k] = "ended" /\ ~timed_out[k] /\ UNCHANGED killed[k]
    BY <2>2 DEF Verdict
  <2> QED BY <1>2, <2>1, <2>2
<1>3. ASSUME fin'[k] # "none", up', life'[k] = "running", killed'[k] = "no"
      PROVE  conn'[k] \in {"reading", "killing"} /\ (deadline'[k] => dog'[k] # "off")
  <2>1. CASE fin[k] = "none"
    BY <1>3, <2>1
  <2>2. CASE fin[k] # "none"
    <3>1. life[k] # "unborn"
      BY <2>2 DEF Base, Control, Late
    <3>2. life[k] = "running"
      BY <1>3, <3>1, Lives, RouterSteps DEF Start, Base, Children
    <3>3. up /\ killed[k] = "no"
      BY <1>0, <1>3, UpFalls
    <3> QED BY <1>3, <2>2, <3>2, <3>3 DEF Verdict
  <2> QED BY <2>1, <2>2
<1> QED BY <1>1, <1>2, <1>3 DEF Verdict

\* The host's steps keep the verdict.
LEMMA HostVerdict ==
    ASSUME Recycle = FALSE, Base, Inv', [ConnNext]_connVars, NEW k \in Execs, Verdict(k), HostStep(k)
    PROVE  Verdict(k)'
<1>0. ConnTyped /\ HostOK /\ Control(k)
  BY DEF Base, ConnTyped
<1>1. UNCHANGED <<conn[k], dog[k], fin[k], timed_out[k]>>
  BY DEF HostStep, ExecConnect, ExecSend, ExecDrop, Relay, Receive, threadVars, flags
<1>2. fin[k] # "none" => UNCHANGED deadline[k]
  <2>1. CASE ExecConnect(k)
    BY <1>0, <2>1 DEF ExecConnect, Control, HostSide, Early
  <2>2. CASE ExecSend(k) \/ ExecDrop(k) \/ Relay(k) \/ Receive(k)
    BY <2>2 DEF ExecSend, ExecDrop, Relay, Receive
  <2> QED BY <2>1, <2>2 DEF HostStep
<1>3. Exiting(k)' => Exiting(k)
  <2>1. CASE ExecConnect(k) \/ ExecSend(k)
    BY <2>1 DEF ExecConnect, ExecSend, Exiting, Has, socketVars
  <2>2. CASE ExecDrop(k)
    <3>1. UNCHANGED <<told[k], wire[k]>> /\ chan'[k] = << >>
      BY <1>0, <2>2 DEF ExecDrop, HostOK, ChanOK, socketVars
    <3> QED BY <3>1, EmptySeq DEF Exiting, Has
  <2>3. CASE Relay(k)
    <3>1. UNCHANGED told[k] /\ (wire[k] = << >> => wire'[k] = << >>) /\ Len(chan[k]) \in Nat
      BY <1>0, <2>3, Forwarded
    <3>2. wire[k] # << >> =>
            /\ Len(wire'[k]) = Len(wire[k]) - 1 /\ Len(wire[k]) \in Nat \ {0}
            /\ \A n \in 1..Len(wire'[k]) : wire'[k][n] = wire[k][n + 1]
      BY <1>0, <2>3, Forwarded
    <3>3. Has(wire'[k], "exit") => Has(wire[k], "exit")
      BY <3>1, <3>2 DEF Has
    <3>4. UNCHANGED chan[k] \/ \E e \in Events :
            /\ Len(chan'[k]) = Len(chan[k]) + 1 /\ chan'[k][Len(chan[k]) + 1] = e
            /\ \A n \in 1..Len(chan[k]) : chan'[k][n] = chan[k][n]
            /\ \/ wire[k] # << >> /\ e = EventOf(wire[k][1])
               \/ wire[k] = << >> /\ e = "failed"
      BY <1>0, <2>3, Forwarded
    <3>5. Has(chan'[k], "exit") => Has(chan[k], "exit") \/ Has(wire[k], "exit")
      <4>1. CASE UNCHANGED chan[k]
        BY <4>1 DEF Has
      <4>2. ASSUME NEW e \in Events,
                   Len(chan'[k]) = Len(chan[k]) + 1, chan'[k][Len(chan[k]) + 1] = e,
                   \A n \in 1..Len(chan[k]) : chan'[k][n] = chan[k][n],
                   \/ wire[k] # << >> /\ e = EventOf(wire[k][1])
                   \/ wire[k] = << >> /\ e = "failed"
            PROVE  Has(chan'[k], "exit") => Has(chan[k], "exit") \/ Has(wire[k], "exit")
        <5>1. e = "exit" => Has(wire[k], "exit")
          BY <3>2, <4>2 DEF Has, EventOf
        <5> QED BY <3>1, <4>2, <5>1 DEF Has
      <4> QED BY <3>4, <4>1, <4>2
    <3> QED BY <3>1, <3>3, <3>5 DEF Exiting
  <2>4. CASE Receive(k)
    <3>1. /\ chan' = [chan EXCEPT ![k] = Tail(@)] /\ told' = [told EXCEPT ![k] = Heard(@, chan[k][1])]
          /\ chan[k][1] \in Events /\ Len(chan[k]) \in Nat \ {0} /\ Len(Tail(chan[k])) = Len(chan[k]) - 1
          /\ \A i \in 1..Len(Tail(chan[k])) : Tail(chan[k])[i] = chan[k][i + 1]
      BY <1>0, <2>4, Received
    <3>2. /\ chan'[k] = Tail(chan[k]) /\ told'[k] = Heard(told[k], chan[k][1]) /\ told[k] \in Tellings
          /\ UNCHANGED wire[k]
      BY <1>0, <2>4, <3>1, Received DEF HostOK, ChanOK, socketVars
    <3>3. told'[k].end = IF chan[k][1] \in Terminals THEN chan[k][1] ELSE told[k].end
      BY <3>1, <3>2, HeardIs
    <3>4. told'[k].end = "exit" => told[k].end = "exit" \/ Has(chan[k], "exit")
      BY <3>1, <3>3 DEF Has
    <3>5. Has(chan'[k], "exit") => Has(chan[k], "exit")
      <4>1. /\ Len(chan'[k]) = Len(chan[k]) - 1 /\ Len(chan[k]) \in Nat
            /\ \A i \in 1..Len(chan'[k]) : chan'[k][i] = chan[k][i + 1]
        BY <3>1, <3>2
      <4>2. \A i \in 1..Len(chan'[k]) : i + 1 \in 1..Len(chan[k])
        BY <4>1
      <4> QED BY <4>1, <4>2 DEF Has
    <3> QED BY <3>2, <3>4, <3>5 DEF Exiting
  <2> QED BY <2>1, <2>2, <2>3, <2>4 DEF HostStep
<1> QED BY <1>1, <1>2, <1>3, VerdictKept

\* A frame other than Exited does not say Exited.
LEMMA NotExit ==
    ASSUME SocketOK, NEW k \in Execs, UNCHANGED <<chan[k], told[k]>>,
           \/ UNCHANGED wire[k]
           \/ \E f \in Frames \ {"exit"} : Writes(k, f)
    PROVE  Exiting(k)' => Exiting(k)
<1>1. CASE UNCHANGED wire[k]
  BY <1>1 DEF Exiting, Has
<1>2. ASSUME NEW f \in Frames \ {"exit"}, Writes(k, f) PROVE Exiting(k)' => Exiting(k)
  <2>1. wire'[k] = Append(wire[k], f) /\ wire[k] \in Seq(Frames) /\ f \in Frames
    BY <1>2 DEF Writes, SocketOK
  <2>2. /\ Len(wire'[k]) = Len(wire[k]) + 1 /\ wire'[k][Len(wire[k]) + 1] = f /\ Len(wire[k]) \in Nat
        /\ \A i \in 1..Len(wire[k]) : wire'[k][i] = wire[k][i]
    BY <2>1, AppendProperties, LenProperties
  <2>3. Has(wire'[k], "exit") => Has(wire[k], "exit")
    BY <2>2 DEF Has
  <2> QED BY <2>3 DEF Exiting, Has
<1> QED BY <1>1, <1>2

\* The steps of the guest's threads keep it.
LEMMA GuestVerdict ==
    ASSUME Recycle = FALSE, Base, Inv', [ConnNext]_connVars, NEW k \in Execs, Verdict(k),
           GuestStep(k) \/ DogWakes(k)
    PROVE  Verdict(k)'
<1> USE DEF hostVars, socketVars, threadVars, flags
<1>0. ConnTyped /\ SocketOK /\ ThreadsOK /\ ProcsOK /\ Control(k)
  BY DEF Base, ConnTyped
<1>00. "error" \in Frames \ {"exit"} /\ "started" \in Frames \ {"exit"} /\ "output" \in Frames \ {"exit"}
       /\ "timeout" \in Frames \ {"exit"}
  BY DEF Frames
<1>01. UNCHANGED <<deadline[k], chan[k], told[k]>>
  BY DEF GuestStep, DogWakes, Accept, Probe, SpawnFails, SpawnChild, WriteStarted, ReadEof, CancelKill,
         JoinCompletion, PumpChunk, PumpEof, DogMarks, DogKills, WaitChild, StoreDone, WriteTerminal
<1>02. life[k] = "running" => ~done[k]
  BY DoneIsGone
<1>1. CASE Accept(k) \/ Probe(k) \/ SpawnChild(k) \/ JoinCompletion(k) \/ WaitChild(k)
  <2>1. /\ UNCHANGED <<wire[k], dog[k], fin[k], timed_out[k]>>
        /\ conn[k] \in {"reading", "killing"} => UNCHANGED conn[k]
    BY <1>1 DEF Accept, Probe, SpawnChild, JoinCompletion, WaitChild
  <2>2. Exiting(k)' => Exiting(k)
    BY <1>0, <1>01, <2>1, NotExit
  <2> QED BY <1>01, <2>1, <2>2, VerdictKept
<1>2. CASE SpawnFails(k)
  <2>1. /\ UNCHANGED <<dog[k], fin[k], timed_out[k]>> /\ conn[k] = "request"
        /\ UNCHANGED wire[k] \/ Writes(k, "error")
    BY <1>2 DEF SpawnFails, WriteFails
  <2>2. Exiting(k)' => Exiting(k)
    BY <1>0, <1>00, <1>01, <2>1, NotExit
  <2> QED BY <1>01, <2>1, <2>2, VerdictKept
<1>3. CASE WriteStarted(k)
  <2>1. /\ UNCHANGED timed_out[k] /\ fin[k] = "none"
        /\ UNCHANGED wire[k] \/ Writes(k, "started")
    BY <1>0, <1>3 DEF WriteStarted, WriteFails, Control, Early
  <2>2. Exiting(k)' => Exiting(k)
    BY <1>0, <1>00, <1>01, <2>1, NotExit
  <2>3. fin'[k] = "none" \/ (conn'[k] = "reading" /\ (deadline'[k] => dog'[k] # "off"))
    BY <1>0, <1>01, <1>3, <2>1 DEF WriteStarted, ThreadsOK
  <2> QED BY <2>1, <2>2, <2>3, VerdictKept
<1>4. CASE ReadEof(k)
  <2>1. /\ UNCHANGED <<wire[k], dog[k], fin[k], timed_out[k]>>
        /\ life[k] = "running" => conn'[k] = "killing"
    BY <1>0, <1>02, <1>4 DEF ReadEof, ThreadsOK
  <2>2. Exiting(k)' => Exiting(k)
    BY <1>0, <1>01, <2>1, NotExit
  <2> QED BY <1>01, <2>1, <2>2, VerdictKept
<1>5. CASE CancelKill(k)
  <2>1. UNCHANGED <<wire[k], dog[k], fin[k], timed_out[k]>>
    BY <1>5 DEF CancelKill
  <2>2. life[k] = "running" => killed'[k] # "no"
    BY <1>5 DEF CancelKill, KillGroup, InGroup, Children
  <2>3. Exiting(k)' => Exiting(k)
    BY <1>0, <1>01, <2>1, NotExit
  <2> QED BY <1>01, <2>1, <2>2, <2>3, VerdictKept
<1>6. ASSUME NEW s \in Streams, PumpChunk(k, s) \/ PumpEof(k, s) PROVE Verdict(k)'
  <2>1. /\ UNCHANGED <<conn[k], dog[k], fin[k], timed_out[k]>>
        /\ UNCHANGED wire[k] \/ Writes(k, "output")
    BY <1>6 DEF PumpChunk, PumpEof, WriteFails
  <2>2. Exiting(k)' => Exiting(k)
    BY <1>0, <1>00, <1>01, <2>1, NotExit
  <2> QED BY <1>01, <2>1, <2>2, VerdictKept
<1>7. CASE DogWakes(k) \/ DogMarks(k)
  <2>1. /\ UNCHANGED <<wire[k], conn[k], fin[k]>> /\ (timed_out[k] => timed_out'[k])
        /\ life[k] = "running" => dog'[k] # "off"
    BY <1>0, <1>02, <1>7 DEF DogWakes, DogMarks, ThreadsOK
  <2>2. Exiting(k)' => Exiting(k)
    BY <1>0, <1>01, <2>1, NotExit
  <2> QED BY <1>01, <2>1, <2>2, VerdictKept
<1>8. CASE DogKills(k)
  <2>1. UNCHANGED <<wire[k], conn[k], fin[k], timed_out[k]>>
    BY <1>8 DEF DogKills
  <2>2. life[k] = "running" => killed'[k] # "no"
    BY <1>8 DEF DogKills, KillGroup, InGroup, Children
  <2>3. Exiting(k)' => Exiting(k)
    BY <1>0, <1>01, <2>1, NotExit
  <2> QED BY <1>01, <2>1, <2>2, <2>3, VerdictKept
<1>9. CASE StoreDone(k)
  <2>1. UNCHANGED <<wire[k], conn[k], dog[k], timed_out[k]>> /\ fin[k] = "wait"
    BY <1>9 DEF StoreDone
  <2>2. Exiting(k)' => Exiting(k)
    BY <1>0, <1>01, <2>1, NotExit
  <2> QED BY <1>01, <2>1, <2>2, VerdictKept
<1>10. CASE WriteTerminal(k)
  <2>1. UNCHANGED <<conn[k], dog[k], timed_out[k], killed>> /\ fin[k] = "pumps" /\ fin'[k] = "ended"
    BY <1>0, <1>10 DEF WriteTerminal, ThreadsOK, procVars
  <2>2. CASE ~timed_out[k]
    BY <1>01, <2>1, <2>2, VerdictKept
  <2>3. CASE timed_out[k]
    <3>1. UNCHANGED wire[k] \/ Writes(k, "timeout")
      BY <1>10, <2>3 DEF WriteTerminal, WriteFails
    <3>2. Exiting(k)' => Exiting(k)
      BY <1>0, <1>00, <1>01, <3>1, NotExit
    <3> QED BY <1>01, <2>1, <3>2, VerdictKept
  <2> QED BY <2>2, <2>3
<1> QED BY <1>1, <1>2, <1>3, <1>4, <1>5, <1>6, <1>7, <1>8, <1>9, <1>10 DEF GuestStep

\* Every step keeps it, for every exec.
LEMMA VerdictStep ==
    ASSUME Recycle = FALSE, Base, Inv', [ConnNext]_connVars, NEW k \in Execs, Verdict(k)
    PROVE  Verdict(k)'
<1>0. ConnTyped
  BY DEF Base
<1>1. ASSUME UNCHANGED Row(k) PROVE Verdict(k)'
  <2>1. UNCHANGED <<deadline[k], chan[k], told[k], wire[k], conn[k], dog[k], fin[k], timed_out[k]>>
    BY <1>1 DEF Row
  <2>2. Exiting(k)' => Exiting(k)
    BY <2>1 DEF Exiting, Has
  <2> QED BY <2>1, <2>2, VerdictKept
<1>2. CASE UNCHANGED connVars
  <2>1. UNCHANGED Row(k)
    BY <1>2 DEF connVars, hostVars, socketVars, threadVars, flags, Row
  <2> QED BY <1>1, <2>1
<1>3. ASSUME NEW c \in Execs, HostStep(c) \/ GuestStep(c) \/ DogWakes(c)
      PROVE  Verdict(k)'
  <2>1. CASE c = k
    BY <1>3, <2>1, HostVerdict, GuestVerdict
  <2>2. CASE c # k
    BY <1>0, <1>1, <1>3, <2>2, OtherRows
  <2> QED BY <2>1, <2>2
<1>4. CASE WorldStep
  BY <1>1, <1>4, WorldRows
<1> QED BY <1>2, <1>3, <1>4 DEF ConnNext, WorldStep

\* The verdict is an invariant.
LEMMA VerdictHolds ==
    ASSUME Recycle = FALSE
    PROVE  ConnSpec => [](\A k \in Execs : Verdict(k))
<1>1. ConnInit => \A k \in Execs : Verdict(k)
  <2>1. Len(<< >>) = 0
    BY EmptySeq
  <2> QED BY <2>1 DEF ConnInit, Verdict, Exiting, Has, Nothing, Children
<1>2. Base /\ Base' /\ (\A k \in Execs : Verdict(k)) /\ [ConnNext]_connVars
        => (\A k \in Execs : Verdict(k))'
  BY VerdictStep DEF Base
<1> QED BY <1>1, <1>2, BaseHolds, PTL DEF ConnSpec

\* handle_conn: a command that the watchdog killed is never reported as one that
\* exited, whatever the order of watchdog and completion thread.
THEOREM TimeoutIsTold ==
    ASSUME Recycle = FALSE
    PROVE  ConnSpec => []TimeoutTold
<1>1. (\A k \in Execs : Verdict(k)) => TimeoutTold
  BY DEF Verdict, Exiting, TimeoutTold
<1> QED BY <1>1, VerdictHolds, PTL

\* A command whose start the host knows of never runs unwatched: its connection
\* thread looks for a cancellation and its deadline is pending, until it was
\* sent SIGKILL.
THEOREM NoneUnsupervised ==
    ASSUME Recycle = FALSE
    PROVE  ConnSpec => []Supervised
<1>1. (\A k \in Execs : Verdict(k)) /\ (\A k \in Execs : Order(k) /\ Flow(k)) => Supervised
  BY DEF Verdict, Order, Announced, Supervised
<1> QED BY <1>1, VerdictHolds, FlowHolds, PTL
=============================================================================

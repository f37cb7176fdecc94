------------------------------ MODULE ExecConn ------------------------------
(***************************************************************************)
(* One exec, end to end: the host's Backend::exec with the task that       *)
(* relays frames into an ExecHandle, the socket, and in the guest the      *)
(* threads of handle_conn: the main thread (request, spawn, Started, then  *)
(* the cancellation loop), one pump per output pipe, the watchdog, and the *)
(* completion thread, which gets the child's status from Router.           *)
(*                                                                         *)
(* Router's orphans are here the background processes that commands fork:  *)
(* they may keep the output pipes open and may leave the process group.    *)
(* Every step of Router is a step of this module, possibly with more.      *)
(***************************************************************************)
EXTENDS Router

CONSTANTS
    Streams,   \* the output pipes: stdout and stderr
    WireCap,   \* bound: frames the socket buffer takes before a write blocks
    ChanCap,   \* capacity of the relay's channel, 64 in the code
    MaxOut     \* bound: chunks a command and its background processes write

ASSUME CapAssumption == WireCap \in Nat \ {0} /\ ChanCap \in Nat \ {0} /\ MaxOut \in Nat
ASSUME StreamsAssumption == IsFiniteSet(Streams) /\ Streams # {}

VARIABLES
    \* the host
    handle,     \* handle[k]: the call and then its ExecHandle
    deadline,   \* deadline[k]: the request carries timeout_ms
    relay,      \* relay[k]: the host's end of the connection
    chan,       \* chan[k]: events sent and not yet received
    told,       \* told[k]: events received, summed up
    \* the socket
    request,    \* request[k]: the ExecRequest frame was sent
    wire,       \* wire[k]: frames on their way to the host
    shut,       \* shut[k]: the guest has shut or closed its end
    \* handle_conn
    conn,       \* conn[k]: the main thread
    pump,       \* pump[k][s]: the pump of pipe s
    dog,        \* dog[k]: the watchdog
    fin,        \* fin[k]: the completion thread, after wait_child
    done,
    timed_out,
    \* the kernel
    pipe,       \* pipe[k][s]: chunks written and not yet read
    produced,   \* produced[k]: chunks ever written
    job,        \* job[o]: the exec that forked background process o
    daemon,     \* daemon[o]: it left the command's session
    holds,      \* holds[o]: the output pipes it keeps open
    killed,     \* killed[j]: who sent SIGKILL to process j first
    up          \* the guest runs

hostVars   == <<handle, deadline, relay, chan, told>>
socketVars == <<request, wire, shut>>
flags      == <<done, timed_out>>
threadVars == <<conn, pump, dog, fin, flags>>
procVars   == <<job, daemon, holds, killed>>
outVars    == <<pipe, produced>>
connVars   == <<vars, hostVars, socketVars, threadVars, procVars, outVars, up>>

Frames    == {"started", "output", "exit", "timeout", "error"}
Terminals == {"exit", "timeout", "failed"}
Events    == {"started", "output"} \cup Terminals

Nothing == [started |-> FALSE, output |-> 0, end |-> "none"]

ConnTypeOK ==
    /\ TypeOK
    /\ handle \in [Execs -> {"idle", "calling", "open", "over", "dropped", "refused"}]
    /\ deadline \in [Execs -> BOOLEAN] /\ request \in [Execs -> BOOLEAN]
    /\ relay \in [Execs -> {"none", "up", "closed"}] /\ shut \in [Execs -> BOOLEAN]
    /\ \A k \in Execs : /\ Len(wire[k]) <= WireCap /\ wire[k] \in Seq(Frames)
                        /\ Len(chan[k]) <= ChanCap /\ chan[k] \in Seq(Events)
    /\ told \in [Execs -> [started : BOOLEAN, output : 0..MaxOut,
                           end : Terminals \cup {"none"}]]
    /\ conn \in [Execs -> {"none", "request", "started", "reading", "killing",
                           "joining", "ended"}]
    /\ pump \in [Execs -> [Streams -> {"none", "run", "ended"}]]
    /\ dog \in [Execs -> {"off", "armed", "fired", "marked"}]
    /\ fin \in [Execs -> {"none", "wait", "pumps", "ended"}]
    /\ done \in [Execs -> BOOLEAN] /\ timed_out \in [Execs -> BOOLEAN]
    /\ pipe \in [Execs -> [Streams -> 0..MaxOut]] /\ produced \in [Execs -> 0..MaxOut]
    /\ job \in [Orphans -> Execs \cup {None}] /\ daemon \in [Orphans -> BOOLEAN]
    /\ holds \in [Orphans -> SUBSET Streams]
    /\ killed \in [Children -> {"no", "watchdog", "cancel"}]
    /\ up \in BOOLEAN

ConnInit ==
    /\ Init
    /\ handle = [k \in Execs |-> "idle"]
    /\ deadline = [k \in Execs |-> FALSE]
    /\ relay = [k \in Execs |-> "none"]
    /\ chan = [k \in Execs |-> << >>]
    /\ told = [k \in Execs |-> Nothing]
    /\ request = [k \in Execs |-> FALSE]
    /\ wire = [k \in Execs |-> << >>]
    /\ shut = [k \in Execs |-> FALSE]
    /\ conn = [k \in Execs |-> "none"]
    /\ pump = [k \in Execs |-> [s \in Streams |-> "none"]]
    /\ dog = [k \in Execs |-> "off"]
    /\ fin = [k \in Execs |-> "none"]
    /\ done = [k \in Execs |-> FALSE]
    /\ timed_out = [k \in Execs |-> FALSE]
    /\ pipe = [k \in Execs |-> [s \in Streams |-> 0]]
    /\ produced = [k \in Execs |-> 0]
    /\ job = [o \in Orphans |-> None]
    /\ daemon = [o \in Orphans |-> FALSE]
    /\ holds = [o \in Orphans |-> {}]
    /\ killed = [j \in Children |-> "no"]
    /\ up = TRUE

-----------------------------------------------------------------------------
(* The host *)

\* Backend::exec up to connect(2): the row, its state, argv and the socket are
\* checked; any of them may refuse the call, and a dead guest always does.
ExecConnect(k) ==
    /\ handle[k] = "idle"
    /\ \/ handle' = [handle EXCEPT ![k] = "refused"] /\ UNCHANGED <<deadline, relay>>
       \/ /\ up
          /\ handle' = [handle EXCEPT ![k] = "calling"]
          /\ relay' = [relay EXCEPT ![k] = "up"]
          /\ \E t \in BOOLEAN : deadline' = [deadline EXCEPT ![k] = t]
    /\ UNCHANGED <<vars, chan, told, socketVars, threadVars, procVars, outVars, up>>

\* The request is sent and the relay task starts; without a guest the write
\* fails and the stream is dropped.
ExecSend(k) ==
    /\ handle[k] = "calling"
    /\ handle' = [handle EXCEPT ![k] = IF up THEN "open" ELSE "refused"]
    /\ relay' = [relay EXCEPT ![k] = IF up THEN @ ELSE "closed"]
    /\ request' = [request EXCEPT ![k] = up]
    /\ UNCHANGED <<vars, deadline, chan, told, wire, shut, threadVars, procVars,
                   outVars, up>>

\* The caller drops the future of exec, which closes the stream, or the handle,
\* which only closes the receiving end of the channel.
ExecDrop(k) ==
    /\ handle[k] \in {"calling", "open"}
    /\ handle' = [handle EXCEPT ![k] = "dropped"]
    /\ relay' = [relay EXCEPT ![k] = IF handle[k] = "calling" THEN "closed" ELSE @]
    /\ chan' = [chan EXCEPT ![k] = << >>]
    /\ UNCHANGED <<vars, deadline, told, socketVars, threadVars, procVars, outVars, up>>

EventOf(f) == IF f = "error" THEN "failed" ELSE f

\* The relay task sends event e: into the channel once there is room, or into
\* a channel nobody reads any more, which ends the task and closes the stream.
RelaySend(k, e) ==
    \/ /\ handle[k] = "open" /\ Len(chan[k]) < ChanCap
       /\ chan' = [chan EXCEPT ![k] = Append(@, e)]
       /\ relay' = [relay EXCEPT ![k] = IF e \in Terminals THEN "closed" ELSE @]
    \/ /\ handle[k] = "dropped"
       /\ relay' = [relay EXCEPT ![k] = "closed"]
       /\ UNCHANGED chan

\* It reads the next frame, or after the last one the end of the stream.
Relay(k) ==
    /\ relay[k] = "up" /\ handle[k] \in {"open", "dropped"}
    /\ \/ /\ wire[k] # << >>
          /\ RelaySend(k, EventOf(Head(wire[k])))
          /\ wire' = [wire EXCEPT ![k] = Tail(@)]
       \/ /\ wire[k] = << >> /\ (shut[k] \/ ~up)
          /\ RelaySend(k, "failed")
          /\ UNCHANGED wire
    /\ UNCHANGED <<vars, handle, deadline, told, request, shut, threadVars,
                   procVars, outVars, up>>

\* ExecHandle::next_event: the caller reads until a terminal event.
Receive(k) ==
    LET e == Head(chan[k]) IN
    /\ handle[k] = "open" /\ chan[k] # << >>
    /\ chan' = [chan EXCEPT ![k] = Tail(@)]
    /\ told' = [told EXCEPT ![k] =
                  CASE e = "started" -> [@ EXCEPT !.started = TRUE]
                    [] e = "output"  -> [@ EXCEPT !.output = @ + 1]
                    [] OTHER         -> [@ EXCEPT !.end = e]]
    /\ handle' = [handle EXCEPT ![k] = IF e \in Terminals THEN "over" ELSE @]
    /\ UNCHANGED <<vars, deadline, relay, socketVars, threadVars, procVars, outVars, up>>

HostStep(k) == ExecConnect(k) \/ ExecSend(k) \/ ExecDrop(k) \/ Relay(k) \/ Receive(k)

-----------------------------------------------------------------------------
(* write_frame in the guest, under the writer's mutex *)

Broken(k) == relay[k] = "closed"

\* Mutant: a frame is queued in user space when the socket is full.
WritesUnbounded(k, f) ==
    /\ ~Broken(k)
    /\ wire' = [wire EXCEPT ![k] = Append(@, f)]

Writes(k, f) ==
    /\ ~Broken(k) /\ Len(wire[k]) < WireCap
    /\ wire' = [wire EXCEPT ![k] = Append(@, f)]

WriteFails(k) == Broken(k) /\ UNCHANGED wire

-----------------------------------------------------------------------------
(* handle_conn, the main thread *)

Accept(k) ==
    /\ up /\ conn[k] = "none" /\ relay[k] # "none"
    /\ conn' = [conn EXCEPT ![k] = "request"]
    /\ UNCHANGED <<vars, hostVars, socketVars, pump, dog, fin, flags, procVars, outVars, up>>

\* End of file instead of a request: a probe, or a call that was dropped.
Probe(k) ==
    /\ up /\ conn[k] = "request" /\ ~request[k] /\ Broken(k)
    /\ conn' = [conn EXCEPT ![k] = "ended"]
    /\ shut' = [shut EXCEPT ![k] = TRUE]
    /\ UNCHANGED <<vars, hostVars, request, wire, pump, dog, fin, flags, procVars,
                   outVars, up>>

\* The request is refused, or the command cannot be started: an Error frame.
SpawnFails(k) ==
    /\ up /\ conn[k] = "request" /\ request[k]
    /\ Writes(k, "error") \/ WriteFails(k)
    /\ conn' = [conn EXCEPT ![k] = "ended"]
    /\ shut' = [shut EXCEPT ![k] = TRUE]
    /\ UNCHANGED <<vars, hostVars, request, pump, dog, fin, flags, procVars, outVars, up>>

\* Command::spawn, in a session of its own.
SpawnChild(k) ==
    /\ up /\ conn[k] = "request" /\ request[k]
    /\ Start(k)
    /\ conn' = [conn EXCEPT ![k] = "started"]
    /\ UNCHANGED <<hostVars, socketVars, pump, dog, fin, flags, procVars, outVars, up>>

\* The Started frame, then the pumps, the watchdog and the completion thread.
\* If the frame cannot be written handle_conn returns there and then.
WriteStarted(k) ==
    /\ up /\ conn[k] = "started"
    /\ \/ /\ Writes(k, "started")
          /\ conn' = [conn EXCEPT ![k] = "reading"]
          /\ pump' = [pump EXCEPT ![k] = [s \in Streams |-> "run"]]
          /\ dog' = [dog EXCEPT ![k] = IF deadline[k] THEN "armed" ELSE "off"]
          /\ fin' = [fin EXCEPT ![k] = "wait"]
          /\ UNCHANGED shut
       \/ /\ WriteFails(k)
          /\ conn' = [conn EXCEPT ![k] = "ended"]
          /\ pump' = [pump EXCEPT ![k] = [s \in Streams |-> "ended"]]
          /\ shut' = [shut EXCEPT ![k] = TRUE]
          /\ UNCHANGED <<dog, fin>>
    /\ UNCHANGED <<vars, hostVars, request, flags, procVars, outVars, up>>

\* kill(-pid): every running process whose group has that number.
InGroup(j, k) == IF j \in Execs THEN pid[j] = pid[k]
                 ELSE ~daemon[j] /\ job[j] # None /\ pid[job[j]] = pid[k]

\* Mutant: kill(pid), the command alone.
KillLeader(k, who) ==
    killed' = IF killed[k] = "no" /\ life[k] = "running"
                THEN [killed EXCEPT ![k] = who] ELSE killed

KillGroup(k, who) ==
    killed' = [j \in Children |->
                 IF killed[j] = "no" /\ life[j] = "running" /\ InGroup(j, k)
                   THEN who ELSE killed[j]]

\* Mutant: the end of the connection is not taken as a cancellation.
ReadEofJoins(k) ==
    /\ up /\ conn[k] = "reading"
    /\ Broken(k) \/ shut[k]
    /\ conn' = [conn EXCEPT ![k] = "joining"]
    /\ UNCHANGED <<vars, hostVars, socketVars, pump, dog, fin, flags, procVars, outVars, up>>

\* The read loop ends when the host has closed the connection or the
\* completion thread has shut it down; then the main thread looks at done.
ReadEof(k) ==
    /\ up /\ conn[k] = "reading"
    /\ Broken(k) \/ shut[k]
    /\ conn' = [conn EXCEPT ![k] = IF done[k] THEN "joining" ELSE "killing"]
    /\ UNCHANGED <<vars, hostVars, socketVars, pump, dog, fin, flags, procVars, outVars, up>>

CancelKill(k) ==
    /\ up /\ conn[k] = "killing"
    /\ KillGroup(k, "cancel")
    /\ conn' = [conn EXCEPT ![k] = "joining"]
    /\ UNCHANGED <<vars, hostVars, socketVars, pump, dog, fin, flags,
                   job, daemon, holds, outVars, up>>

JoinCompletion(k) ==
    /\ up /\ conn[k] = "joining" /\ fin[k] = "ended"
    /\ conn' = [conn EXCEPT ![k] = "ended"]
    /\ UNCHANGED <<vars, hostVars, socketVars, pump, dog, fin, flags, procVars, outVars, up>>

-----------------------------------------------------------------------------
(* The pumps and the watchdog *)

\* Processes that hold the write end of exec k's pipe s.
Holders(k, s) ==
    {j \in Children : /\ life[j] = "running"
                      /\ \/ j = k
                         \/ j \in Orphans /\ job[j] = k /\ s \in holds[j]}

\* A pump forwards what it read; it stops when the host is gone.
PumpChunk(k, s) ==
    /\ up /\ pump[k][s] = "run" /\ pipe[k][s] > 0
    /\ pipe' = [pipe EXCEPT ![k][s] = @ - 1]
    /\ \/ Writes(k, "output") /\ UNCHANGED pump
       \/ WriteFails(k) /\ pump' = [pump EXCEPT ![k][s] = "ended"]
    /\ UNCHANGED <<vars, hostVars, request, shut, conn, dog, fin, flags, procVars,
                   produced, up>>

\* End of file: the pipe is empty and no process holds its other end.
PumpEof(k, s) ==
    /\ up /\ pump[k][s] = "run" /\ pipe[k][s] = 0 /\ Holders(k, s) = {}
    /\ pump' = [pump EXCEPT ![k][s] = "ended"]
    /\ UNCHANGED <<vars, hostVars, socketVars, conn, dog, fin, flags, procVars, outVars, up>>

\* The watchdog wakes, by its deadline or by done_tx, and looks at done.
DogWakes(k) ==
    /\ up /\ dog[k] = "armed"
    /\ dog' = [dog EXCEPT ![k] = IF done[k] THEN "off" ELSE "fired"]
    /\ UNCHANGED <<vars, hostVars, socketVars, conn, pump, fin, flags, procVars, outVars, up>>

DogMarks(k) ==
    /\ up /\ dog[k] = "fired"
    /\ timed_out' = [timed_out EXCEPT ![k] = TRUE]
    /\ dog' = [dog EXCEPT ![k] = "marked"]
    /\ UNCHANGED <<vars, hostVars, socketVars, conn, pump, fin, done, procVars, outVars, up>>

\* Mutant: the watchdog kills as soon as the deadline has passed, and sets
\* timed_out afterwards.
DogKillsFirst(k) ==
    /\ up /\ dog[k] \in {"fired", "marked"}
    /\ KillGroup(k, "watchdog")
    /\ dog' = [dog EXCEPT ![k] = IF @ = "marked" THEN "off" ELSE @]
    /\ UNCHANGED <<vars, hostVars, socketVars, conn, pump, fin, flags,
                   job, daemon, holds, outVars, up>>

DogKills(k) ==
    /\ up /\ dog[k] = "marked"
    /\ KillGroup(k, "watchdog")
    /\ dog' = [dog EXCEPT ![k] = "off"]
    /\ UNCHANGED <<vars, hostVars, socketVars, conn, pump, fin, flags,
                   job, daemon, holds, outVars, up>>

-----------------------------------------------------------------------------
(* The completion thread *)

\* wait_child, once the thread exists.
WaitChild(k) ==
    /\ up /\ fin[k] = "wait"
    /\ Claim(k) \/ Register(k)
    /\ UNCHANGED <<hostVars, socketVars, threadVars, procVars, outVars, up>>

StoreDone(k) ==
    /\ up /\ fin[k] = "wait" /\ thread[k] = "done"
    /\ done' = [done EXCEPT ![k] = TRUE]
    /\ fin' = [fin EXCEPT ![k] = "pumps"]
    /\ UNCHANGED <<vars, hostVars, socketVars, conn, pump, dog, timed_out, procVars,
                   outVars, up>>

\* Mutant: the terminal frame does not wait for the pumps.
WriteTerminalEarly(k) ==
    /\ up /\ fin[k] = "pumps"
    /\ Writes(k, IF timed_out[k] THEN "timeout" ELSE "exit") \/ WriteFails(k)
    /\ shut' = [shut EXCEPT ![k] = TRUE]
    /\ fin' = [fin EXCEPT ![k] = "ended"]
    /\ UNCHANGED <<vars, hostVars, request, conn, pump, dog, flags, procVars, outVars, up>>

\* Both pumps have ended: the terminal frame, then shutdown of the socket.
WriteTerminal(k) ==
    /\ up /\ fin[k] = "pumps"
    /\ \A s \in Streams : pump[k][s] = "ended"
    /\ Writes(k, IF timed_out[k] THEN "timeout" ELSE "exit") \/ WriteFails(k)
    /\ shut' = [shut EXCEPT ![k] = TRUE]
    /\ fin' = [fin EXCEPT ![k] = "ended"]
    /\ UNCHANGED <<vars, hostVars, request, conn, pump, dog, flags, procVars, outVars, up>>

GuestStep(k) ==
    \/ Accept(k) \/ Probe(k) \/ SpawnFails(k) \/ SpawnChild(k) \/ WriteStarted(k)
    \/ ReadEof(k) \/ CancelKill(k) \/ JoinCompletion(k)
    \/ \E s \in Streams : PumpChunk(k, s) \/ PumpEof(k, s)
    \/ DogMarks(k) \/ DogKills(k)
    \/ WaitChild(k) \/ StoreDone(k) \/ WriteTerminal(k)

-----------------------------------------------------------------------------
(* The processes of the sandbox, and the reaper *)

\* The command forks a process that outlives it, in or out of its group, with
\* or without its output.
Fork(k, o) ==
    /\ up /\ life[k] = "running" /\ killed[k] = "no"
    /\ Start(o)
    /\ job' = [job EXCEPT ![o] = k]
    /\ \E d \in BOOLEAN : daemon' = [daemon EXCEPT ![o] = d]
    /\ \E S \in SUBSET Streams : holds' = [holds EXCEPT ![o] = S]
    /\ UNCHANGED <<hostVars, socketVars, threadVars, killed, outVars, up>>

\* A process writes; without a reader it would get SIGPIPE instead.
Output(k, s) ==
    /\ up /\ produced[k] < MaxOut /\ pump[k][s] # "ended"
    /\ \E j \in Holders(k, s) : killed[j] = "no"
    /\ pipe' = [pipe EXCEPT ![k][s] = @ + 1]
    /\ produced' = [produced EXCEPT ![k] = @ + 1]
    /\ UNCHANGED <<vars, hostVars, socketVars, threadVars, procVars, up>>

ProcessDies(j) ==
    /\ up /\ Die(j)
    /\ UNCHANGED <<hostVars, socketVars, threadVars, procVars, outVars, up>>

\* waitpid(-1) sees a background process once its parent is gone.
Reaper(j) ==
    /\ up
    /\ \/ /\ Reap(j) \/ (ReapUnknown(j) /\ killed[j] = "no")
          /\ j \in Orphans => life[job[j]] # "running"
       \/ Deliver(j) \/ Park(j)
    /\ UNCHANGED <<hostVars, socketVars, threadVars, procVars, outVars, up>>

\* The sandbox is destroyed, or its PID 1 is killed.
GuestKilled ==
    /\ up /\ up' = FALSE
    /\ UNCHANGED <<vars, hostVars, socketVars, threadVars, procVars, outVars>>

ConnNext ==
    \/ \E k \in Execs : HostStep(k) \/ GuestStep(k) \/ DogWakes(k)
    \/ \E k \in Execs, o \in Orphans : Fork(k, o)
    \/ \E k \in Execs, s \in Streams : Output(k, s)
    \/ \E j \in Children : ProcessDies(j) \/ Reaper(j)
    \/ GuestKilled

ConnSpec == ConnInit /\ [][ConnNext]_connVars

\* The threads of the guest and the relay task run, the caller reads its
\* handle, time passes, and a process that was sent SIGKILL dies.  Commands and
\* background processes need not end, callers need not drop anything.
ConnFairSpec ==
    /\ ConnSpec
    /\ \A k \in Execs :
         /\ WF_connVars(GuestStep(k)) /\ WF_connVars(DogWakes(k))
         /\ WF_connVars(ExecSend(k)) /\ WF_connVars(Relay(k)) /\ WF_connVars(Receive(k))
    /\ \A j \in Children :
         WF_connVars(killed[j] # "no" /\ ProcessDies(j)) /\ WF_connVars(Reaper(j))
-----------------------------------------------------------------------------
(* Properties *)

\* The call and the processes as the holder of the handle may think of them.
Stage(k) ==
    IF life[k] = "unborn" THEN "unborn"
    ELSE IF up /\ \E s \in Streams : Holders(k, s) # {} THEN "running" ELSE "quiet"

Promise == INSTANCE ExecPromise WITH
    call  <- [k \in Execs |-> IF handle[k] = "calling" THEN "open" ELSE handle[k]],
    limit <- deadline,
    stage <- [k \in Execs |-> Stage(k)]

\* The relay, the socket, the pumps and the completion thread together keep
\* what ExecPromise says: Started first, one terminal event, Exited and the
\* timeout only when the output is over and was delivered to the last chunk.
KeepsPromise == Promise!Spec

\* handle_conn: a command that the watchdog killed is never reported as one
\* that exited, although watchdog and completion thread do not synchronise:
\* timed_out is set before the kill, and read after the status has come.
TimeoutTold == \A k \in Execs : told[k].end = "exit" => killed[k] # "watchdog"

\* A command whose start the host knows of never runs without somebody to end
\* it: its connection thread still watches for a cancellation, and its deadline
\* is still pending, until one of them has sent SIGKILL.
Supervised ==
    \A k \in Execs :
        told[k].started /\ up /\ life[k] = "running" /\ killed[k] = "no"
          => /\ conn[k] \in {"reading", "killing"}
             /\ deadline[k] => dog[k] # "off"

\* A background process keeps the output of exec k open: it has left the group,
\* or the command ended before the watchdog killed anything.
HeldOpen(k) ==
    \E s \in Streams : \E j \in Holders(k, s) \ {k} :
        daemon[j] \/ killed[k] # "watchdog"

\* An exec with a deadline ends, with room for everybody to block: on the full
\* socket, on the full channel, on the join of the pumps.  The exceptions are a
\* background process that keeps the output open for ever, and a command that
\* died of a signal waitpid cannot tell.
Answered ==
    \A k \in Execs : <>[](handle[k] = "open" /\ deadline[k])
                       => <>[](HeldOpen(k) \/ life[k] = "lost")

\* handle_conn returned because Started could not be written.
Unannounced(k) == conn[k] = "ended" /\ fin[k] = "none"

\* The relay waits for a frame and does not look at the handle.
Unnoticed(k) == relay[k] = "up" /\ wire[k] = << >> /\ ~deadline[k]

\* Dropping the handle kills the command, except where Started could not be
\* written and handle_conn let go of it, and where a command without a deadline
\* writes nothing that would let the relay notice.
CancelKills ==
    \A k \in Execs :
        <>[](handle[k] = "dropped" /\ up /\ life[k] = "running")
          => <>[](Unannounced(k) \/ Unnoticed(k))

-----------------------------------------------------------------------------
(* What the protocol and the design say, and the code does not do *)

\* draug-proto, timeout_ms: "Guest-enforced deadline; SIGKILL +
\* `Error{kind:"timeout"}` on expiry": an exec with a deadline ends.
DeadlineKept ==
    \A k \in Execs : handle[k] = "open" /\ deadline[k] ~> handle[k] # "open"
=============================================================================

---------------------------- MODULE ExecPromise ----------------------------
(***************************************************************************)
(* What Backend::exec promises to the holder of an ExecHandle, whatever    *)
(* happens between host and guest: the stream starts with Started, brings  *)
(* output only as it was written, and ends with exactly one terminal       *)
(* event.  Exited and the timeout error come only when nobody can write to *)
(* the command's output any more and all of it has been delivered; a       *)
(* timeout is reported only to a caller that asked for one.  Failed may    *)
(* come at any time, and a dropped handle is told nothing more.            *)
(***************************************************************************)
EXTENDS Naturals

CONSTANTS Execs

VARIABLES
    call,      \* call[k]: "idle", "open", "over", "dropped" or "refused"
    limit,     \* limit[k]: the caller set a timeout
    stage,     \* stage[k]: "unborn", "running", or "quiet": no writer is left
    produced,  \* produced[k]: chunks written to the command's output
    told       \* told[k]: what the handle has yielded so far

vars == <<call, limit, stage, produced, told>>

Nothing == [started |-> FALSE, output |-> 0, end |-> "none"]

Init ==
    /\ call = [k \in Execs |-> "idle"]
    /\ limit = [k \in Execs |-> FALSE]
    /\ stage = [k \in Execs |-> "unborn"]
    /\ produced = [k \in Execs |-> 0]
    /\ told = [k \in Execs |-> Nothing]

Call(k) ==
    /\ call[k] = "idle"
    /\ \/ call' = [call EXCEPT ![k] = "refused"] /\ UNCHANGED limit
       \/ /\ call' = [call EXCEPT ![k] = "open"]
          /\ \E t \in BOOLEAN : limit' = [limit EXCEPT ![k] = t]
    /\ UNCHANGED <<stage, produced, told>>

\* Connecting succeeded but the request could not be sent.
CallFails(k) ==
    /\ call[k] = "open" /\ told[k] = Nothing
    /\ call' = [call EXCEPT ![k] = "refused"]
    /\ UNCHANGED <<limit, stage, produced, told>>

Drop(k) ==
    /\ call[k] = "open"
    /\ call' = [call EXCEPT ![k] = "dropped"]
    /\ UNCHANGED <<limit, stage, produced, told>>

Run(k) ==
    /\ stage[k] = "unborn"
    /\ stage' = [stage EXCEPT ![k] = "running"]
    /\ UNCHANGED <<call, limit, produced, told>>

Write(k) ==
    /\ stage[k] = "running"
    /\ produced' = [produced EXCEPT ![k] = @ + 1]
    /\ UNCHANGED <<call, limit, stage, told>>

\* The writers of any number of commands are gone: a command's own, or all of
\* them when the sandbox is killed.
FallQuiet ==
    /\ \E S \in SUBSET Execs :
         stage' = [k \in Execs |-> IF k \in S /\ stage[k] = "running"
                                     THEN "quiet" ELSE stage[k]]
    /\ UNCHANGED <<call, limit, produced, told>>

TellStarted(k) ==
    /\ call[k] = "open" /\ told[k] = Nothing /\ stage[k] # "unborn"
    /\ told' = [told EXCEPT ![k].started = TRUE]
    /\ UNCHANGED <<call, limit, stage, produced>>

TellOutput(k) ==
    /\ call[k] = "open" /\ told[k].started
    /\ told[k].output < produced[k]
    /\ told' = [told EXCEPT ![k].output = @ + 1]
    /\ UNCHANGED <<call, limit, stage, produced>>

TellEnd(k, end) ==
    /\ call[k] = "open"
    /\ end # "failed" => /\ told[k].started /\ stage[k] = "quiet"
                         /\ told[k].output = produced[k]
    /\ end = "timeout" => limit[k]
    /\ told' = [told EXCEPT ![k].end = end]
    /\ call' = [call EXCEPT ![k] = "over"]
    /\ UNCHANGED <<limit, stage, produced>>

Next ==
    \/ \E k \in Execs :
         \/ Call(k) \/ CallFails(k) \/ Drop(k)
         \/ Run(k) \/ Write(k)
         \/ TellStarted(k) \/ TellOutput(k)
         \/ \E end \in {"exit", "timeout", "failed"} : TellEnd(k, end)
    \/ FallQuiet

Spec == Init /\ [][Next]_vars
=============================================================================

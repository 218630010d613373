----------------------------- MODULE Execution ------------------------------
(***************************************************************************)
(* One Execute of the native and of the process backend, down to the       *)
(* processes (pkg/sandbox/native_linux.go, dev_process.go, watchdog.go).   *)
(*                                                                         *)
(* The program may fork a child, which may leave the process group and may *)
(* keep the input and the output pipe.  os/exec copies Stdin into the one  *)
(* and the other into a BoundedBuffer; cmd.Wait reaps the program and then *)
(* waits for both copiers: for everyone who holds the output pipe, and for *)
(* an input that did not fit its pipe to be read, or to have no reader.    *)
(* The native backend attaches the process to the cgroup after starting it *)
(* and kills the process group when the context ends before cmd.Wait       *)
(* returns; the process backend lets os/exec kill the program only.        *)
(***************************************************************************)
EXTENDS Verdicts, FiniteSetsExt

CONSTANTS
    MaxOutput,      \* maxBytes of the BoundedBuffer
    MaxWritten,     \* bound: bytes the program and its child print
    None            \* no child, no result

\* A process forked by the program: where it is, and which pipes it holds.
Child ==
    [running : BOOLEAN, inGroup : BOOLEAN, inCgroup : BOOLEAN,
     holdsPipe : BOOLEAN, holdsInput : BOOLEAN]

ASSUME ExecutionAssumption ==
    /\ MaxOutput \in Nat \ {0} /\ MaxWritten \in Nat /\ {-1, 0, 1} \subseteq ExitCodes
    /\ None \notin Verdict \cup Backends \cup {"error"} \cup Child

VARIABLES
    backend,     \* "native_cgroupv2" or "dev_process" (or "docker", or None)
    epc,         \* where Execute is
    proc,        \* the program: its state and how it ended
    child,       \* the forked child
    attached,    \* the program has been moved to the submission's cgroup
    ctx,         \* execCtx: live, or how it ended
    timedOut,    \* the select took execCtx.Done (native)
    unread,      \* the copier of Stdin still has input that nobody has read
    pipe,        \* bytes in the output pipe
    buffer,      \* the BoundedBuffer
    outcome      \* what Execute returns: a verdict, "error", or None

execVars ==
    <<epc, proc, child, attached, ctx, timedOut, unread, pipe, buffer, outcome>>

ExecInit ==
    /\ epc = "idle"
    /\ proc = [state |-> "none", exit |-> 0]
    /\ child = None
    /\ attached = FALSE
    /\ ctx = "live"
    /\ timedOut = FALSE
    /\ unread = FALSE
    /\ pipe = 0
    /\ buffer = [len |-> 0, written |-> 0, exceeded |-> FALSE]
    /\ outcome = None

Native == backend = "native_cgroupv2"
ChildRuns == child # None /\ child.running
ChildHoldsPipe == ChildRuns /\ child.holdsPipe
ChildHoldsInput == ChildRuns /\ child.holdsInput
Writing == proc.state = "running" \/ ChildHoldsPipe
Reading == proc.state = "running" \/ ChildHoldsInput

-----------------------------------------------------------------------------
(* The program and its child.                                              *)

Fork ==
    /\ proc.state = "running"
    /\ child = None
    /\ \E inGroup, holdsPipe, holdsInput \in BOOLEAN :
          /\ holdsInput => unread
          /\ child' = [running |-> TRUE, inGroup |-> inGroup,
                       inCgroup |-> attached, holdsPipe |-> holdsPipe,
                       holdsInput |-> holdsInput]
    /\ UNCHANGED <<epc, proc, attached, ctx, timedOut, unread, pipe, buffer, outcome>>

Emit(n) ==
    /\ Writing
    /\ pipe = 0
    /\ buffer.written + n <= MaxWritten
    /\ pipe' = n
    /\ UNCHANGED <<epc, proc, child, attached, ctx, timedOut, unread, buffer, outcome>>

\* The rest of the input is read, and its copier ends.
ReadInput ==
    /\ unread /\ Reading
    /\ unread' = FALSE
    /\ UNCHANGED <<epc, proc, child, attached, ctx, timedOut, pipe, buffer, outcome>>

ProgramExits ==
    /\ proc.state = "running"
    /\ \E code \in {0, 1} : proc' = [state |-> "zombie", exit |-> code]
    /\ UNCHANGED <<epc, child, attached, ctx, timedOut, unread, pipe, buffer, outcome>>

ChildExits ==
    /\ ChildRuns
    /\ child' = [child EXCEPT !.running = FALSE]
    /\ UNCHANGED <<epc, proc, attached, ctx, timedOut, unread, pipe, buffer, outcome>>

\* SIGKILL makes a running program's exit code -1.
Killed(p) ==
    IF p.state = "running" THEN [state |-> "zombie", exit |-> -1] ELSE p

-----------------------------------------------------------------------------
(* BoundedBuffer.Write.                                                    *)

ExceedsWhenFull(b, n) ==     \* mutant: a full buffer counts as exceeded
    LET len == Min({b.len + n, MaxOutput})
    IN [len |-> len, written |-> b.written + n, exceeded |-> len = MaxOutput]

Write(b, n) ==
    [len |-> IF b.len < MaxOutput THEN Min({b.len + n, MaxOutput}) ELSE b.len,
     written |-> b.written + n,
     exceeded |-> b.exceeded \/ b.len >= MaxOutput \/ n > MaxOutput - b.len]

\* The copying goroutine of os/exec, which may get a part of what was printed.
Copy ==
    /\ \E n \in 1 .. pipe : buffer' = Write(buffer, n) /\ pipe' = pipe - n
    /\ UNCHANGED <<epc, proc, child, attached, ctx, timedOut, unread, outcome>>

-----------------------------------------------------------------------------
(* Execute.                                                                *)

Returns(result) == epc' = "returned" /\ outcome' = result

StartProcess ==
    /\ epc = "idle"
    /\ Native \/ ctx = "live"
    /\ proc' = [proc EXCEPT !.state = "running"]
    /\ unread' \in BOOLEAN
    /\ epc' = IF Native THEN "started" ELSE "waiting"
    /\ UNCHANGED <<child, attached, ctx, timedOut, pipe, buffer, outcome>>

\* cmd.Start fails: an error of the native backend; in the process backend,
\* which uses cmd.Run, an error that is no ExitError, so exit code -1.
StartFails ==
    /\ epc = "idle"
    /\ Returns(IF Native THEN "error" ELSE "RUNTIME_ERROR")
    /\ UNCHANGED <<proc, child, attached, ctx, timedOut, unread, pipe, buffer>>

Attach ==
    /\ epc = "started"
    /\ attached' = TRUE
    /\ epc' = "waiting"
    /\ UNCHANGED <<proc, child, ctx, timedOut, unread, pipe, buffer, outcome>>

\* Writing cgroup.procs fails: the program is killed and not waited for.
AttachFails ==
    /\ epc = "started"
    /\ proc' = Killed(proc)
    /\ Returns("error")
    /\ UNCHANGED <<child, attached, ctx, timedOut, unread, pipe, buffer>>

\* The timer of execCtx, or the parent context.
ContextEnds ==
    /\ epc \in {"idle", "started", "waiting"}
    /\ ctx = "live"
    /\ ctx' \in IF epc = "idle" THEN {"cancel"} ELSE {"deadline", "cancel"}
    /\ UNCHANGED <<epc, proc, child, attached, timedOut, unread, pipe, buffer, outcome>>

\* cmd.Wait: first the process ...
Reap ==
    /\ epc \in {"waiting", "killed"}
    /\ proc.state = "zombie"
    /\ proc' = [proc EXCEPT !.state = "reaped"]
    /\ UNCHANGED <<epc, child, attached, ctx, timedOut, unread, pipe, buffer, outcome>>

NoCopying == proc.state = "reaped"     \* mutant: the copying is not awaited

\* ... then the copiers: the end of the output pipe, and the end of the input,
\* whose copier also ends when nobody is left to read (EPIPE, which os/exec
\* does not report).
WaitReturns ==
    /\ proc.state = "reaped"
    /\ pipe = 0 /\ ~Writing
    /\ unread => ~Reading

SparesChild(c) == c      \* mutant: the group is not signalled

GroupKill(c) ==
    IF c # None /\ c.inGroup THEN [c EXCEPT !.running = FALSE] ELSE c

\* The select takes execCtx.Done, although `done` may be ready as well: SIGKILL
\* to the process group, then wait for cmd.Wait.
Watchdog ==
    /\ Native
    /\ epc = "waiting"
    /\ ctx # "live"
    /\ timedOut' = TRUE
    /\ proc' = Killed(proc)
    /\ child' = GroupKill(child)
    /\ epc' = "killed"
    /\ UNCHANGED <<attached, ctx, unread, pipe, buffer, outcome>>

\* os/exec kills the program of the process backend; when it has just ended,
\* cmd.Run returns the context's error instead, which is exit code -1 as well.
ContextKills ==
    /\ ~Native
    /\ epc = "waiting"
    /\ ctx # "live"
    /\ proc.state \in {"running", "zombie"}
    /\ proc' = [state |-> "zombie", exit |-> -1]
    /\ UNCHANGED <<epc, child, attached, ctx, timedOut, unread, pipe, buffer, outcome>>

\* What the end of Execute looks at (memory is the subject of Sandboxes): the
\* native backend at its select's choice, the process backend at execCtx.Err.
\* The wall clock is started a little after the deadline's timer.
Observed(wall, output) ==
    [wall |-> wall,
     stop |-> IF ctx = "live" \/ (Native /\ ~timedOut) THEN "none" ELSE ctx,
     oom |-> FALSE, exit |-> proc.exit, exceeded |-> buffer.exceeded,
     output |-> output]

Finish ==
    /\ epc \in {"waiting", "killed"}
    /\ WaitReturns
    /\ \E wall \in {TimeLimit, TimeLimit + 1},
          output \in {"right", "wrong", "unjudged"} :
          /\ wall > TimeLimit => ctx = "deadline"
          /\ Returns(VerdictOf(backend, Observed(wall, output)))
    /\ UNCHANGED <<proc, child, attached, ctx, timedOut, unread, pipe, buffer>>

Processes ==
    \/ Fork \/ (\E n \in 1 .. 2 : Emit(n)) \/ ReadInput
    \/ ProgramExits \/ ChildExits

ExecuteStep ==
    \/ StartProcess \/ StartFails \/ Attach \/ AttachFails \/ Reap
    \/ Watchdog \/ ContextKills \/ Finish

-----------------------------------------------------------------------------
(* Properties.                                                             *)

ExecTypeOK ==
    /\ backend \in Backends \cup {None}
    /\ epc \in {"idle", "started", "waiting", "killed", "returned"}
    /\ proc \in [state : {"none", "running", "zombie", "reaped"}, exit : {-1, 0, 1}]
    /\ child \in Child \cup {None}
    /\ attached \in BOOLEAN
    /\ ctx \in {"live", "deadline", "cancel"}
    /\ timedOut \in BOOLEAN
    /\ unread \in BOOLEAN
    /\ pipe \in 0 .. 2
    /\ buffer \in [len : 0 .. MaxOutput, written : 0 .. MaxWritten,
                   exceeded : BOOLEAN]
    /\ outcome \in Verdict \cup {"error", None}

\* However the output arrives in pieces, the buffer keeps its first MaxOutput
\* bytes and reports an overflow exactly when there were more.
BufferExact ==
    /\ buffer.len = Min({buffer.written, MaxOutput})
    /\ buffer.exceeded <=> buffer.written > MaxOutput

\* ACCEPTED is said of a program that ended by itself with exit code 0, was
\* reaped, and whose output is complete: nothing is left in the pipe, nobody
\* can still write to it, and all of it fitted the buffer.
AcceptedSound ==
    outcome = "ACCEPTED" =>
        /\ proc = [state |-> "reaped", exit |-> 0]
        /\ pipe = 0 /\ ~Writing
        /\ buffer.written <= MaxOutput
        /\ ~timedOut

\* cmd.Wait is kept waiting by a child that Execute's kill does not reach, one
\* outside the process group or any child in the process backend: it holds the
\* output pipe, or the input pipe without reading what the copier has left.
HeldUp ==
    /\ epc \in {"waiting", "killed"}
    /\ ChildHoldsPipe \/ (unread /\ ChildHoldsInput)
    /\ Native => ~child.inGroup
=============================================================================

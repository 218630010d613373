------------------------------ MODULE Verdicts ------------------------------
(***************************************************************************)
(* How each sandbox backend turns what it observed of one run into a       *)
(* verdict: the ends of the three Execute methods of pkg/sandbox.          *)
(*                                                                         *)
(* An observation is what the code looks at: wall-clock time against the   *)
(* limit, whether the context had ended by the time the backend looked,    *)
(* the out-of-memory flag, the exit code, whether a BoundedBuffer          *)
(* overflowed, and how stdout compares with the expected output (trailing  *)
(* line ends ignored on both sides).                                       *)
(***************************************************************************)
EXTENDS Vocabulary, Integers

CONSTANTS
    TimeLimit,      \* req.TimeLimitMs, in some unit
    ExitCodes       \* exit codes a run may end with

ASSUME TimeLimitAssumption == TimeLimit \in Nat
ASSUME ExitCodesAssumption == ExitCodes \subseteq Int /\ 0 \in ExitCodes

Observation ==
    [wall : 0 .. TimeLimit + 1,
     stop : {"none", "deadline", "cancel"},   \* how the context ended
     oom : BOOLEAN,
     exit : ExitCodes,
     exceeded : BOOLEAN,
     output : {"right", "wrong", "unjudged"}] \* no expected output: unjudged

\* The deadline is TimeLimitMs after the start (later with Docker, which does
\* not look at the context).
Observable(o) == o.stop = "deadline" => o.wall >= TimeLimit

\* The context did not end between the program's own exit and the backend's
\* look at it: a process the context killed has exit code -1, not 0.
Undisturbed(o) == o.stop # "none" => o.exit # 0

AlwaysCompared(o) == o.output # "right"      \* mutant: compared with ""

\* Trailing line ends are cut off both sides; "" stands for "do not compare".
WrongOutput(o) == o.output = "wrong"

\* NativeCgroupV2Sandbox.Execute: the watchdog's select does not tell the
\* deadline from a cancelled parent context.
NativeVerdict(o) ==
    IF o.stop # "none" \/ o.wall > TimeLimit THEN "TIME_LIMIT_EXCEEDED"
    ELSE IF o.oom THEN "MEMORY_LIMIT_EXCEEDED"
    ELSE IF o.exceeded THEN "OUTPUT_LIMIT_EXCEEDED"
    ELSE IF o.exit # 0 THEN "RUNTIME_ERROR"
    ELSE IF WrongOutput(o) THEN "WRONG_ANSWER"
    ELSE "ACCEPTED"

DockerTrustsExit(o) ==       \* mutant: only the exit code tells a timeout
    o.exit = 124 \/ (o.exit = 137 /\ ~o.oom)

\* Docker's first test: slow, or killed by `timeout` (124) or SIGKILL (137)
\* with the limit used up.
DockerTimedOut(o) ==
    /\ o.wall > TimeLimit \/ o.exit = 124 \/ (o.exit = 137 /\ ~o.oom)
    /\ o.wall >= TimeLimit

\* DockerSandbox.Execute: later tests may overrule the first.
DockerVerdict(o) ==
    IF o.oom THEN "MEMORY_LIMIT_EXCEEDED"
    ELSE IF ~DockerTimedOut(o) /\ o.exit # 0 THEN "RUNTIME_ERROR"
    ELSE IF o.exceeded THEN "OUTPUT_LIMIT_EXCEEDED"
    ELSE IF ~DockerTimedOut(o) /\ WrongOutput(o) THEN "WRONG_ANSWER"
    ELSE IF DockerTimedOut(o) THEN "TIME_LIMIT_EXCEEDED"
    ELSE "ACCEPTED"

\* DevProcessSandbox.Execute: no memory accounting at all.
DevVerdict(o) ==
    IF o.stop = "deadline" \/ o.wall > TimeLimit THEN "TIME_LIMIT_EXCEEDED"
    ELSE IF o.exit # 0 THEN "RUNTIME_ERROR"
    ELSE IF o.exceeded THEN "OUTPUT_LIMIT_EXCEEDED"
    ELSE IF WrongOutput(o) THEN "WRONG_ANSWER"
    ELSE "ACCEPTED"

Backends == {"native_cgroupv2", "docker", "dev_process"}

VerdictOf(b, o) ==
    CASE b = "native_cgroupv2" -> NativeVerdict(o)
      [] b = "docker" -> DockerVerdict(o)
      [] b = "dev_process" -> DevVerdict(o)

\* A run within every limit that ended well with the right output.
Clean(o) ==
    /\ o.wall <= TimeLimit
    /\ o.exit = 0
    /\ ~o.exceeded
    /\ o.output # "wrong"
=============================================================================

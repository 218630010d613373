----------------------------- MODULE Containers -----------------------------
(***************************************************************************)
(* DockerSandbox (pkg/sandbox/docker.go) against the docker daemon.        *)
(*                                                                         *)
(* Every Execute runs a container named after the submission, asks the     *)
(* daemon how it ended and removes it; the tests of a submission reuse the *)
(* name one after the other, and two workers that got the same submission  *)
(* (a duplicated push, see Cluster) use it at the same time.  The docker   *)
(* client that Execute waits for is not the container: killing the client  *)
(* at the deadline, or the worker, leaves the container to the daemon.     *)
(* Compile runs an unnamed container with --rm, which goes away when the   *)
(* compiler ends and not when its client does.                             *)
(***************************************************************************)
EXTENDS Verdicts, FiniteSets

CONSTANTS
    Executors,      \* workers evaluating a submission with this backend
    Ids,            \* submission ids, which name the containers
    Tests,          \* test cases of a submission
    Programs,       \* what a program may do, as observed when undisturbed
    None,           \* no container, no verdict, no end of the program
    MaxFaults       \* bound: docker commands that fail or stall, killed workers

\* docker run has exit codes of its own, and so has a killed client.
Exits == ExitCodes \cup {-1, 0, 125, 137}

\* What the daemon keeps of a container.  An "orphan" is a created container
\* whose client was dead before it came into being, so that nobody starts it.
Container ==
    [of : Executors, test : 1 .. Tests,
     state : {"created", "running", "exited", "orphan"},
     exit : Exits, oom : BOOLEAN]

ASSUME ContainersAssumption ==
    /\ IsFiniteSet(Executors) /\ Tests \in Nat \ {0} /\ MaxFaults \in Nat
    /\ \A o \in Programs : o \in Observation /\ o.stop = "none" /\ o.wall <= TimeLimit + 1
    /\ None \notin Verdict /\ None \notin Programs /\ None \notin Container

VARIABLES
    id,            \* sCtx.ID of each executor, None when it has no job; never changes
    pc,            \* where each executor is
    test,          \* the test case it is at
    compilers,     \* executors whose compile container runs
    container,     \* the container of each name
    client,        \* how each executor's docker client ended, and when
    seen,          \* what inspectContainer returned
    ended,         \* history: how the program of the current test ended by itself
    verdict,       \* of the current test
    cancelled,     \* executors whose context was cancelled
    late,          \* create requests that the daemon has and whose client is dead
    faults,        \* history: number of faults so far
    spoiled,       \* history: names a docker command failed or stalled for
    leftover       \* history: names whose last rm failed

local == <<client, seen, ended, verdict>>
history == <<late, faults, spoiled, leftover>>
\* What a docker client leaves alone.
others == <<id, test, compilers, seen, ended, verdict, cancelled>>
vars == <<id, pc, test, compilers, container, local, cancelled, history>>

States == {"compile", "compiling", "run", "requested", "created", "attached",
           "back", "inspected", "judged", "done", "dead"}

NotRun == [exit |-> 0, wall |-> 0, exceeded |-> FALSE, output |-> "unjudged"]
NotSeen == [exit |-> 0, oom |-> FALSE]

Init ==
    /\ id \in [Executors -> Ids \cup {None}]
    /\ pc = [e \in Executors |-> IF id[e] = None THEN "done" ELSE "compile"]
    /\ test = [e \in Executors |-> 1]
    /\ compilers = {}
    /\ container = [n \in Ids |-> None]
    /\ client = [e \in Executors |-> NotRun]
    /\ seen = [e \in Executors |-> NotSeen]
    /\ ended = [e \in Executors |-> None]
    /\ verdict = [e \in Executors |-> None]
    /\ cancelled = {}
    /\ late = {}
    /\ faults = 0
    /\ spoiled = {}
    /\ leftover = {}

Goes(e, where) == pc' = [pc EXCEPT ![e] = where]

\* Nothing of the last run is kept.
Forget(e) ==
    /\ client' = [client EXCEPT ![e] = NotRun]
    /\ seen' = [seen EXCEPT ![e] = NotSeen]
    /\ ended' = [ended EXCEPT ![e] = None]
    /\ verdict' = [verdict EXCEPT ![e] = None]

\* A docker command fails (daemon unreachable, out of disk, ...) or stalls.
Faulty(e) ==
    /\ faults < MaxFaults
    /\ faults' = faults + 1
    /\ spoiled' = spoiled \cup {id[e]}

-----------------------------------------------------------------------------
(* Compile.                                                                *)

SkipCompile(e) ==        \* !NeedsCompilation
    /\ pc[e] = "compile"
    /\ Goes(e, "run")
    /\ UNCHANGED <<id, test, compilers, container, local, cancelled, history>>

Compile(e) ==
    /\ pc[e] = "compile"
    /\ e \notin cancelled
    /\ compilers' = compilers \cup {e}
    /\ Goes(e, "compiling")
    /\ UNCHANGED <<id, test, container, local, cancelled, history>>

\* The compiler ends, --rm removes its container, the client has its exit code.
Compiled(e) ==
    /\ pc[e] = "compiling"
    /\ compilers' = compilers \ {e}
    /\ Goes(e, "run") \/ Goes(e, "done")
    /\ UNCHANGED <<id, test, container, local, cancelled, history>>

\* Exit code -1 is a compilation error, which ends the evaluation.
AfterKill == "done"

\* The client is killed after 15 seconds or on cancellation (or is not even
\* started): exit code -1, and the compiler goes on.
CompileKilled(e) ==
    /\ \/ pc[e] = "compiling"
       \/ pc[e] = "compile" /\ e \in cancelled
    /\ Goes(e, AfterKill)
    /\ UNCHANGED <<id, test, compilers, container, local, cancelled, history>>

\* The compiler of a killed client ends and the daemon removes its container.
CompilerEnds(e) ==
    /\ e \in compilers
    /\ pc[e] # "compiling"
    /\ compilers' = compilers \ {e}
    /\ UNCHANGED <<id, pc, test, container, local, cancelled, history>>

-----------------------------------------------------------------------------
(* Execute: docker run, which creates and then starts the container.       *)

\* cmd.Run comes back with this exit code after this time.  Of a program that
\* printed nothing, or not all, the worst case is taken: no expected output, so
\* that only its exit code stands between it and ACCEPTED.
Back(e, exit, wall, exceeded, output) ==
    /\ client' = [client EXCEPT ![e] = [exit |-> exit, wall |-> wall,
                                        exceeded |-> exceeded, output |-> output]]
    /\ Goes(e, "back")

ReturnsWith(e, o) == Back(e, o.exit, o.wall, o.exceeded, o.output)

\* The container with this executor's name is the one of its current test.
Owns(e) ==
    /\ container[id[e]] # None
    /\ container[id[e]].of = e /\ container[id[e]].test = test[e]
    /\ container[id[e]].state # "orphan"

\* The client sends its create request.
Request(e) ==
    /\ pc[e] = "run"
    /\ e \notin cancelled
    /\ Goes(e, "requested")
    /\ UNCHANGED <<id, test, compilers, container, local, cancelled, history>>

\* exec does not start a command whose context is done.
NotStarted(e) ==
    /\ pc[e] = "run"
    /\ e \in cancelled
    /\ Back(e, -1, 0, FALSE, "unjudged")
    /\ UNCHANGED <<others, container, history>>

Create(e) ==
    /\ pc[e] = "requested"
    /\ container[id[e]] = None
    /\ container' = [container EXCEPT ![id[e]] =
           [of |-> e, test |-> test[e], state |-> "created",
            exit |-> 0, oom |-> FALSE]]
    /\ Goes(e, "created")
    /\ UNCHANGED <<id, test, compilers, local, cancelled, history>>

\* docker run ends with 125 because the name is taken or the daemon fails.
RunRefused(e) ==
    /\ pc[e] = "requested"
    /\ Back(e, 125, 0, FALSE, "unjudged")
    /\ \/ container[id[e]] # None /\ UNCHANGED <<faults, spoiled>>
       \/ Faulty(e)
    /\ UNCHANGED <<others, container, late, leftover>>

\* The container is started, unless somebody removed it meanwhile.
Start(e) ==
    /\ pc[e] = "created"
    /\ IF Owns(e)
       THEN /\ container' = [container EXCEPT ![id[e]].state = "running"]
            /\ Goes(e, "attached")
            /\ UNCHANGED client
       ELSE Back(e, 125, 0, FALSE, "unjudged") /\ UNCHANGED container
    /\ UNCHANGED <<others, history>>

\* The program ends by itself; how, the daemon keeps with the container.
ProgramEnds(n, o) ==
    /\ container[n] # None
    /\ container[n].state = "running"
    /\ container' = [container EXCEPT ![n] =
           [@ EXCEPT !.state = "exited", !.exit = o.exit, !.oom = o.oom]]
    /\ LET e == container[n].of
       IN ended' = IF Owns(e) THEN [ended EXCEPT ![e] = o] ELSE ended
    /\ UNCHANGED <<id, pc, test, compilers, client, seen, verdict, cancelled,
                   history>>

\* The client ends with the program's exit code, or with 137 when somebody
\* removed the running container.
ClientReturns(e) ==
    /\ pc[e] = "attached"
    /\ \/ ended[e] # None /\ ReturnsWith(e, ended[e])
       \/ ended[e] = None /\ ~Owns(e) /\ Back(e, 137, 0, FALSE, "unjudged")
    /\ UNCHANGED <<others, container, history>>

NoDeadline(e) ==         \* mutant: the command has no deadline of its own
    {wall \in 0 .. TimeLimit + 1 : e \in cancelled}

\* Half a second after the time limit, or at once on cancellation.
KillTimes(e) ==
    {wall \in 0 .. TimeLimit + 1 : wall > TimeLimit \/ e \in cancelled}

\* The context kills the client; the container does not notice.
ClientKilled(e) ==
    /\ pc[e] \in {"created", "attached"}
    /\ \E wall \in KillTimes(e), exceeded \in BOOLEAN :
          Back(e, -1, wall, exceeded, "unjudged")
    /\ UNCHANGED <<others, container, history>>

\* The daemon takes so long that the context kills the client before there is a
\* container; it still has the request.
RequestKilled(e) ==
    /\ pc[e] = "requested"
    /\ \E wall \in KillTimes(e) : Back(e, -1, wall, FALSE, "unjudged")
    /\ Faulty(e)
    /\ late' = late \cup {<<e, test[e]>>}
    /\ UNCHANGED <<others, container, leftover>>

\* The daemon gets to such a request, and refuses it if the name is taken.
LateCreate(e, t) ==
    /\ <<e, t>> \in late
    /\ late' = late \ {<<e, t>>}
    /\ container' = [container EXCEPT ![id[e]] =
           IF @ # None THEN @
           ELSE [of |-> e, test |-> t, state |-> "orphan", exit |-> 0, oom |-> FALSE]]
    /\ UNCHANGED <<id, pc, test, compilers, local, cancelled, faults, spoiled,
                   leftover>>

\* inspectContainer: whichever container has the name; a container that has
\* not ended has exit code 0, and so has one the daemon cannot tell about.
Inspect(e) ==
    /\ pc[e] = "back"
    /\ \/ /\ seen' = [seen EXCEPT ![e] =
                 IF container[id[e]] = None THEN NotSeen
                 ELSE [exit |-> container[id[e]].exit, oom |-> container[id[e]].oom]]
          /\ UNCHANGED <<faults, spoiled>>
       \/ seen' = [seen EXCEPT ![e] = NotSeen] /\ Faulty(e)
    /\ Goes(e, "inspected")
    /\ UNCHANGED <<id, test, compilers, container, client, ended, verdict,
                   cancelled, late, leftover>>

TrustsInspect(e) == seen[e].exit         \* mutant: the client's error is dropped

\* The client's exit code counts only when the daemon reports none.
ExitCode(e) ==
    IF client[e].exit # 0 /\ seen[e].exit = 0 THEN client[e].exit
    ELSE seen[e].exit

Judge(e) ==
    DockerVerdict([wall |-> client[e].wall, stop |-> "none",
                   oom |-> seen[e].oom, exit |-> ExitCode(e),
                   exceeded |-> client[e].exceeded, output |-> client[e].output])

AfterSuccess(e) ==       \* mutant: nothing is removed after an error
    [container EXCEPT ![id[e]] = IF client[e].exit = 0 THEN None ELSE @]
InTime(e) ==             \* mutant: rm is bound to the context of the run
    [container EXCEPT ![id[e]] = IF client[e].wall > TimeLimit THEN @ ELSE None]

\* docker rm -f kills and removes whichever container has the name, without
\* asking the context.
Removed(e) == [container EXCEPT ![id[e]] = None]

\* An error of rm is ignored.  Then the verdict.
Remove(e) ==
    /\ pc[e] = "inspected"
    /\ \/ /\ container' = Removed(e)
          /\ leftover' = leftover \ {id[e]}
          /\ UNCHANGED <<faults, spoiled>>
       \/ /\ Faulty(e)
          /\ leftover' = leftover \cup {id[e]}
          /\ UNCHANGED container
    /\ verdict' = [verdict EXCEPT ![e] = Judge(e)]
    /\ Goes(e, "judged")
    /\ UNCHANGED <<id, test, compilers, client, seen, ended, cancelled, late>>

MoreTests(e) == test[e] < Tests

\* ProcessJob's loop, which does not look at the context.
NextTest(e) ==
    /\ pc[e] = "judged"
    /\ IF MoreTests(e)
       THEN Goes(e, "run") /\ test' = [test EXCEPT ![e] = @ + 1]
       ELSE Goes(e, "done") /\ UNCHANGED test
    /\ Forget(e)
    /\ UNCHANGED <<id, compilers, container, cancelled, history>>

-----------------------------------------------------------------------------
Cancel(e) ==
    /\ e \notin cancelled
    /\ pc[e] \notin {"done", "dead"}
    /\ cancelled' = cancelled \cup {e}
    /\ UNCHANGED <<id, pc, test, compilers, container, local, history>>

\* The worker process is killed; its containers stay with the daemon.
Crash(e) ==
    /\ pc[e] \notin {"done", "dead"}
    /\ faults < MaxFaults
    /\ faults' = faults + 1
    /\ Goes(e, "dead")
    /\ Forget(e)
    /\ UNCHANGED <<id, test, compilers, container, cancelled, late, spoiled, leftover>>

ExecutorStep(e) ==
    \/ SkipCompile(e) \/ Compile(e) \/ Compiled(e) \/ CompileKilled(e)
    \/ Request(e) \/ NotStarted(e) \/ Create(e) \/ RunRefused(e) \/ Start(e)
    \/ ClientReturns(e) \/ ClientKilled(e) \/ RequestKilled(e)
    \/ Inspect(e) \/ Remove(e) \/ NextTest(e)

Next ==
    \/ \E e \in Executors :
          ExecutorStep(e) \/ CompilerEnds(e) \/ Cancel(e) \/ Crash(e)
    \/ \E n \in Ids, o \in Programs : ProgramEnds(n, o)
    \/ \E e \in Executors, t \in 1 .. Tests : LateCreate(e, t)

\* The workers run, the timers fire and the daemon answers, inspect and rm -f too,
\* which have no timeout (docker.go:182 and 235); a program or a compiler need not
\* end, nor need a request be served whose client is dead.
Spec == Init /\ [][Next]_vars /\ \A e \in Executors : WF_vars(ExecutorStep(e))

-----------------------------------------------------------------------------
(* Properties.                                                             *)

\* Every variable stays in its type.
TypeOK ==
    /\ id \in [Executors -> Ids \cup {None}]
    /\ pc \in [Executors -> States]
    /\ test \in [Executors -> 1 .. Tests]
    /\ compilers \in SUBSET Executors
    /\ container \in [Ids -> {None} \cup Container]
    /\ client \in [Executors -> [exit : Exits, wall : 0 .. TimeLimit + 1,
                                 exceeded : BOOLEAN,
                                 output : {"right", "wrong", "unjudged"}]]
    /\ seen \in [Executors -> [exit : Exits, oom : BOOLEAN]]
    /\ ended \in [Executors -> Programs \cup {None}]
    /\ verdict \in [Executors -> Verdict \cup {None}]
    /\ cancelled \in SUBSET Executors
    /\ late \in SUBSET (Executors \X (1 .. Tests))
    /\ faults \in 0 .. MaxFaults
    /\ spoiled \in SUBSET Ids /\ leftover \in SUBSET Ids

\* Whatever fails, whoever else uses the name and whichever container inspect
\* found: ACCEPTED is only said when the program of this very test ended by
\* itself, in time, with exit code 0 and the right output.
AcceptedRan ==
    \A e \in Executors :
        verdict[e] = "ACCEPTED" => ended[e] # None /\ Clean(ended[e])

\* While nobody else works on the submission and no docker command failed or
\* stalled for it, the verdict is the one of the program's own behaviour, over all tests;
\* a program killed at the deadline is reported as over a limit.
Alone(e) == \A f \in Executors \ {e} : id[f] # id[e]
Untouched(e) == Alone(e) /\ id[e] \notin spoiled /\ e \notin cancelled
VerdictExact ==
    \A e \in Executors :
        verdict[e] # None /\ Untouched(e) =>
            IF client[e].wall > TimeLimit
            THEN verdict[e] \in {"TIME_LIMIT_EXCEEDED", "OUTPUT_LIMIT_EXCEEDED",
                                 "MEMORY_LIMIT_EXCEEDED"}
            ELSE ended[e] # None /\ verdict[e] = DockerVerdict(ended[e])

\* A container outlives the Execute that made it only when its removal failed
\* or its worker died, or when its client was killed before the daemon had made
\* it, and then it never runs anything; the next removal under that name takes it
\* away.
LeftoverExplained ==
    \A n \in Ids :
        container[n] # None =>
            LET e == container[n].of
            IN \/ n \in leftover
               \/ pc[e] = "dead"
               \/ container[n].state = "orphan"
               \/ Owns(e) /\ pc[e] \in {"created", "attached", "back", "inspected"}

\* No compile container writes the binary of a submission that is being run,
\* although the compiler outlives its killed client.
BinaryStable ==
    \A e \in compilers : pc[e] \in {"compiling", "done", "dead"}

\* Containers outlive their clients only in ways that disturb nobody.
NothingStray == LeftoverExplained /\ BinaryStable

\* Every executor gets through its tests, however long the programs run, provided
\* that the daemon answers.
ExecutorsFinish == <>(\A e \in Executors : pc[e] \in {"done", "dead"})
=============================================================================

----------------------------- MODULE ProcessJob -----------------------------
(***************************************************************************)
(* worker.ProcessJob and failSubmission (pkg/worker/worker.go): one worker *)
(* goroutine evaluating one dequeued submission.  A step ends at every     *)
(* access to something others see (the state store, the event bus, the     *)
(* metrics registry, the sandbox), because the context can be cancelled,   *)
(* a Redis command can fail and the sandbox can panic between any two of   *)
(* them.  Errors of SaveState and Publish are discarded by the code, so a  *)
(* write either takes effect or is silently lost.                          *)
(*                                                                         *)
(* Data is abstracted to what the properties tell apart: a test case is    *)
(* its hidden flag, a test result its verdict and whether the program's    *)
(* output is in it, an event its status, test index and verdict.           *)
(***************************************************************************)
EXTENDS Vocabulary, Naturals, Sequences, FiniteSets

CONSTANTS
    MaxTests,        \* bound on the test cases of the submission
    TestVerdicts,    \* the verdicts Sandbox.Execute may come back with
    Backends         \* the stores and buses the daemons may wire in

ASSUME MaxTestsAssumption == MaxTests \in Nat \ {0}
ASSUME TestVerdictsAssumption ==
    /\ TestVerdicts \subseteq Verdict \ {"COMPILATION_ERROR"}
    /\ "SYSTEM_ERROR" \in TestVerdicts
ASSUME BackendsAssumption == Backends \subseteq {"memory", "redis"}

VARIABLES
    backend,     \* the store and the bus of this process, fixed at its start
    pc,          \* the next step of ProcessJob
    compiled,    \* lang.NeedsCompilation()
    hidden,      \* the IsHidden flags of job.TestCases, in order
    results,     \* currentState.Results
    passed,      \* passedTests
    overall,     \* overallVerdict, or the verdict handed to failSubmission
    deferred,    \* the deferred sb.Cleanup has been registered
    panics,      \* where the panics unwinding to the recovering defer came from
    workspace,   \* the sandbox's directory (and cgroup) exists
    stored,      \* the submission's record in the state store
    published,   \* every event the bus accepted from this job, in order
    recorded,    \* every RecordSubmissionMetrics call, in order
    ctxDone,     \* the worker's context has been cancelled
    tainted      \* history: a sandbox call came back after the cancellation

vars == <<backend, pc, compiled, hidden, results, passed, overall, deferred,
          panics, workspace, stored, published, recorded, ctxDone, tainted>>
locals == <<backend, compiled, hidden, results, passed, overall>>

Tests == 1 .. Len(hidden)
Total == Len(hidden)

Result == [verdict : TestVerdicts, shown : BOOLEAN]
Event == [status : EventStatus, test : Nat, verdict : Verdict \cup {""}]
Record == [status : StoredStatus, verdict : Verdict, results : Seq(Result),
           passed : Nat, total : Nat, tainted : BOOLEAN]

Pcs == {"start", "resolve", "prepare", "publishCompiling", "compile",
        "publishRunning", "saveRunning", "loop", "execute", "report",
        "saveCompleted", "recordMetrics", "publishCompleted", "failSave",
        "failPublish", "cleanup", "recoverSave", "recoverPublish", "done"}

\* The steps inside a call of the language registry or of the sandbox.
SandboxCalls == {"resolve", "prepare", "compile", "execute", "cleanup"}

-----------------------------------------------------------------------------
(* The store and the bus, as the worker uses them.  The in-memory ones     *)
(* ignore the context and never fail.  A Redis command on a cancelled      *)
(* context fails without effect; on a live one it may fail for reasons of  *)
(* its own.                                                                *)

CancelledWriteSucceeds ==     \* mutant: a write ignores the cancelled context
    IF backend = "memory" THEN {TRUE} ELSE BOOLEAN

WriteOutcomes ==
    CASE backend = "memory" -> {TRUE}
      [] backend = "redis" /\ ctxDone -> {FALSE}
      [] OTHER -> BOOLEAN

SaveState(record) ==
    \E ok \in WriteOutcomes :
        stored' = IF ok THEN record ELSE stored

Publish(status, test, verdict) ==
    \E ok \in WriteOutcomes :
        published' =
            IF ok THEN Append(published, [status |-> status, test |-> test,
                                          verdict |-> verdict])
                  ELSE published

-----------------------------------------------------------------------------
(* Helpers of the test loop.                                               *)

\* The default execution when the job brings no test case.
PadTests(tests) == IF tests = <<>> THEN <<FALSE>> ELSE tests

\* stdout and stderr are replaced for a hidden test that did not pass.
ShowsOutput(isHidden, verdict) == ~(isHidden /\ verdict # "ACCEPTED")

LastFailure(sofar, verdict) ==        \* mutant: the last failure wins
    IF verdict = "ACCEPTED" THEN sofar ELSE verdict

\* The first failing test decides the verdict of the submission.
OverallVerdict(sofar, verdict) ==
    IF sofar = "ACCEPTED" THEN verdict ELSE sofar

\* The record the test loop saves.
LoopRecord(status, verdict, count) ==
    [status |-> status, verdict |-> verdict, results |-> results,
     passed |-> count, total |-> Total, tainted |-> tainted]

\* The record failSubmission and the panic handler save.
FailedRecord(verdict) ==
    [status |-> "FAILED", verdict |-> verdict, results |-> <<>>,
     passed |-> 0, total |-> Total, tainted |-> tainted]

\* The violation counter that goes with a verdict, "" when none does.
Violations == {"COMPILATION_FAILURE", "SECCOMP_SYSCALL_BLOCKED",
               "MEMORY_OOM_KILLED", "WALL_CLOCK_TIMEOUT", ""}

VerdictAsLabel(status, verdict) == verdict     \* mutant

Violation(status, verdict) ==
    IF status = "FAILED"
    THEN IF verdict = "COMPILATION_ERROR" THEN "COMPILATION_FAILURE"
                                          ELSE "SECCOMP_SYSCALL_BLOCKED"
    ELSE IF verdict = "MEMORY_LIMIT_EXCEEDED" THEN "MEMORY_OOM_KILLED"
    ELSE IF verdict = "TIME_LIMIT_EXCEEDED" THEN "WALL_CLOCK_TIMEOUT"
    ELSE ""

RecordMetrics(status, verdict) ==
    recorded' = Append(recorded, [verdict |-> verdict,
                                  violation |-> Violation(status, verdict)])

\* A sandbox call that comes back after the cancellation was interrupted by
\* it: its verdict says nothing about the program.
SandboxReturns == tainted' = (tainted \/ ctxDone)

Goto(step) == pc' = step

-----------------------------------------------------------------------------
\* A job as the API server enqueued it, its QUEUED record already stored.
Init ==
    /\ backend \in Backends
    /\ pc = "start"
    /\ compiled \in BOOLEAN
    /\ \E n \in 0 .. MaxTests : hidden \in [1 .. n -> BOOLEAN]
    /\ results = <<>>
    /\ passed = 0
    /\ overall = "ACCEPTED"
    /\ deferred = FALSE
    /\ panics = {}
    /\ workspace = FALSE
    /\ stored = [status |-> "QUEUED", verdict |-> "ACCEPTED", results |-> <<>>,
                 passed |-> 0, total |-> Len(hidden), tainted |-> FALSE]
    /\ published = <<>>
    /\ recorded = <<>>
    /\ ctxDone = FALSE
    /\ tainted = FALSE

Start ==
    /\ pc = "start"
    /\ hidden' = PadTests(hidden)
    /\ Goto("resolve")
    /\ UNCHANGED <<backend, compiled, results, passed, overall, deferred, panics,
                   workspace, stored, published, recorded, ctxDone, tainted>>

\* return failSubmission(...): the verdict is settled, nothing stored yet.
FailWith(verdict) ==
    /\ overall' = verdict
    /\ Goto("failSave")

\* languages.Get and sandbox.SelectSandbox.
Resolve ==
    /\ pc = "resolve"
    /\ \/ Goto("prepare") /\ UNCHANGED overall
       \/ FailWith("SYSTEM_ERROR")
    /\ UNCHANGED <<backend, compiled, hidden, results, passed, deferred, panics,
                   workspace, stored, published, recorded, ctxDone, tainted>>

\* sb.Prepare; the native one leaves the directory behind when writing the
\* source file fails.
Prepare ==
    /\ pc = "prepare"
    /\ \/ /\ workspace' = TRUE
          /\ deferred' = TRUE
          /\ Goto(IF compiled THEN "publishCompiling" ELSE "publishRunning")
          /\ UNCHANGED overall
       \/ /\ workspace' \in BOOLEAN
          /\ UNCHANGED deferred
          /\ FailWith("SYSTEM_ERROR")
    /\ UNCHANGED <<backend, compiled, hidden, results, passed, panics, stored,
                   published, recorded, ctxDone, tainted>>

PublishCompiling ==
    /\ pc = "publishCompiling"
    /\ Publish("COMPILING", 0, "")
    /\ Goto("compile")
    /\ UNCHANGED <<locals, deferred, panics, workspace, stored, recorded,
                   ctxDone, tainted>>

\* sb.Compile; a compiler killed by the cancellation also reports a failure.
Compile ==
    /\ pc = "compile"
    /\ SandboxReturns
    /\ \/ Goto("publishRunning") /\ UNCHANGED overall
       \/ FailWith("COMPILATION_ERROR")
    /\ UNCHANGED <<backend, compiled, hidden, results, passed, deferred, panics,
                   workspace, stored, published, recorded, ctxDone>>

PublishRunning ==
    /\ pc = "publishRunning"
    /\ Publish("RUNNING", 0, "")
    /\ Goto("saveRunning")
    /\ UNCHANGED <<locals, deferred, panics, workspace, stored, recorded,
                   ctxDone, tainted>>

SaveRunning ==
    /\ pc = "saveRunning"
    /\ SaveState(LoopRecord("RUNNING", "ACCEPTED", 0))
    /\ Goto("loop")
    /\ UNCHANGED <<locals, deferred, panics, workspace, published, recorded,
                   ctxDone, tainted>>

-----------------------------------------------------------------------------
(* The loop over the test cases; the current one is Len(results) + 1 until *)
(* its result is appended.                                                 *)

StartTest ==
    /\ pc = "loop"
    /\ Len(results) < Total
    /\ Publish("TESTCASE_START", Len(results) + 1, "")
    /\ Goto("execute")
    /\ UNCHANGED <<locals, deferred, panics, workspace, stored, recorded,
                   ctxDone, tainted>>

\* sb.Execute (an error is a SYSTEM_ERROR result) and the bookkeeping that
\* follows it.
Execute ==
    /\ pc = "execute"
    /\ SandboxReturns
    /\ \E verdict \in TestVerdicts :
          /\ results' = Append(results,
                 [verdict |-> verdict,
                  shown |-> ShowsOutput(hidden[Len(results) + 1], verdict)])
          /\ passed' = IF verdict = "ACCEPTED" THEN passed + 1 ELSE passed
          /\ overall' = OverallVerdict(overall, verdict)
    /\ Goto("report")
    /\ UNCHANGED <<backend, compiled, hidden, deferred, panics, workspace, stored,
                   published, recorded, ctxDone>>

StaleIndexReport ==      \* mutant: the report carries the loop's zero-based i
    LET verdict == results[Len(results)].verdict
    IN  /\ pc = "report"
        /\ Publish(IF verdict = "ACCEPTED" THEN "TESTCASE_PASSED"
                                           ELSE "TESTCASE_FAILED",
                   Len(results) - 1, verdict)
        /\ Goto("loop")
        /\ UNCHANGED <<locals, deferred, panics, workspace, stored,
                       recorded, ctxDone, tainted>>

Report ==
    LET verdict == results[Len(results)].verdict
    IN  /\ pc = "report"
        /\ IF verdict = "ACCEPTED"
           THEN Publish("TESTCASE_PASSED", Len(results), "")
           ELSE Publish("TESTCASE_FAILED", Len(results), verdict)
        /\ Goto("loop")
        /\ UNCHANGED <<locals, deferred, panics, workspace, stored,
                       recorded, ctxDone, tainted>>

LoopEnds ==
    /\ pc = "loop"
    /\ Len(results) = Total
    /\ Goto("saveCompleted")
    /\ UNCHANGED <<locals, deferred, panics, workspace, stored, published,
                   recorded, ctxDone, tainted>>

SaveCompleted ==
    /\ pc = "saveCompleted"
    /\ SaveState(LoopRecord("COMPLETED", overall, passed))
    /\ Goto("recordMetrics")
    /\ UNCHANGED <<locals, deferred, panics, workspace, published, recorded,
                   ctxDone, tainted>>

RecordCompleted ==
    /\ pc = "recordMetrics"
    /\ RecordMetrics("COMPLETED", overall)
    /\ Goto("publishCompleted")
    /\ UNCHANGED <<locals, deferred, panics, workspace, stored, published,
                   ctxDone, tainted>>

PublishCompleted ==
    /\ pc = "publishCompleted"
    /\ Publish("COMPLETED", Total, overall)
    /\ Goto("cleanup")
    /\ UNCHANGED <<locals, deferred, panics, workspace, stored, recorded,
                   ctxDone, tainted>>

-----------------------------------------------------------------------------
(* failSubmission: store the failure, count it, announce it.               *)

RetriesSave ==           \* mutant: a failed write is tried again, for ever
    /\ pc = "failSave"
    /\ \E ok \in WriteOutcomes :
          IF ok THEN /\ stored' = FailedRecord(overall)
                     /\ RecordMetrics("FAILED", overall)
                     /\ Goto("failPublish")
                ELSE UNCHANGED <<stored, recorded, pc>>
    /\ UNCHANGED <<locals, deferred, panics, workspace, published, ctxDone,
                   tainted>>

FailSave ==
    /\ pc = "failSave"
    /\ SaveState(FailedRecord(overall))
    /\ RecordMetrics("FAILED", overall)
    /\ Goto("failPublish")
    /\ UNCHANGED <<locals, deferred, panics, workspace, published, ctxDone,
                   tainted>>

FallsThrough ==          \* mutant: no return after failSubmission
    /\ pc = "failPublish"
    /\ Publish("FAILED", 0, overall)
    /\ Goto("publishRunning")
    /\ UNCHANGED <<locals, deferred, panics, workspace, stored, recorded,
                   ctxDone, tainted>>

FailPublish ==
    /\ pc = "failPublish"
    /\ Publish("FAILED", 0, overall)
    /\ Goto("cleanup")
    /\ UNCHANGED <<locals, deferred, panics, workspace, stored, recorded,
                   ctxDone, tainted>>

-----------------------------------------------------------------------------
(* The deferred functions, in the order Go runs them: Cleanup if it was    *)
(* registered, then the one that recovers from a panic.                    *)

SkipCleanup == workspace             \* mutant: a panic skips the cleanup

\* The workspace after the deferred Cleanup, which runs if it was registered.
AfterCleanup == workspace /\ ~deferred

Cleanup ==
    /\ pc = "cleanup"
    /\ workspace' = AfterCleanup
    /\ Goto(IF panics = {} THEN "done" ELSE "recoverSave")
    /\ UNCHANGED <<locals, deferred, panics, stored, published, recorded,
                   ctxDone, tainted>>

\* A panic inside a call to the language registry or to the sandbox.
Panic ==
    /\ pc \in SandboxCalls \ {"cleanup"}
    /\ panics' = {"call"}
    /\ workspace' \in {workspace, workspace \/ pc = "prepare"}
    /\ Goto("cleanup")
    /\ UNCHANGED <<locals, deferred, stored, published, recorded, ctxDone,
                   tainted>>

\* A panic inside the deferred sb.Cleanup, after the final record and the final
\* event of a call that ended well, or on top of the panic of one that did not.
CleanupPanics ==
    /\ pc = "cleanup"
    /\ deferred
    /\ panics' = panics \cup {"cleanup"}
    /\ workspace' \in {workspace, FALSE}
    /\ Goto("recoverSave")
    /\ UNCHANGED <<locals, deferred, stored, published, recorded, ctxDone,
                   tainted>>

RecoverSave ==
    /\ pc = "recoverSave"
    /\ SaveState(FailedRecord("SYSTEM_ERROR"))
    /\ Goto("recoverPublish")
    /\ UNCHANGED <<locals, deferred, panics, workspace, published, recorded,
                   ctxDone, tainted>>

SilentRecovery ==        \* mutant: a recovered panic is not announced
    /\ pc = "recoverPublish"
    /\ Goto("done")
    /\ UNCHANGED <<locals, deferred, panics, workspace, stored, published,
                   recorded, ctxDone, tainted>>

RecoverPublish ==
    /\ pc = "recoverPublish"
    /\ Publish("FAILED", 0, "SYSTEM_ERROR")
    /\ Goto("done")
    /\ UNCHANGED <<locals, deferred, panics, workspace, stored, recorded,
                   ctxDone, tainted>>

-----------------------------------------------------------------------------
\* The daemon's main goroutine cancels the context it gave to the pool.
Cancel ==
    /\ ~ctxDone
    /\ pc # "done"
    /\ ctxDone' = TRUE
    /\ UNCHANGED <<pc, locals, deferred, panics, workspace, stored,
                   published, recorded, tainted>>

Step ==
    \/ Start \/ Resolve \/ Prepare
    \/ PublishCompiling \/ Compile
    \/ PublishRunning \/ SaveRunning
    \/ StartTest \/ Execute \/ Report \/ LoopEnds
    \/ SaveCompleted \/ RecordCompleted \/ PublishCompleted
    \/ FailSave \/ FailPublish
    \/ Cleanup \/ RecoverSave \/ RecoverPublish

Done == pc = "done" /\ UNCHANGED vars

Next == Step \/ Panic \/ CleanupPanics \/ Cancel \/ Done

\* The goroutine keeps running outside the sandbox: Redis commands have
\* timeouts.  A call of the sandbox need not come back (modules Execution and
\* Engine show how), so nothing is assumed of it.
Spec == Init /\ [][Next]_vars /\ WF_vars(pc \notin SandboxCalls /\ Step)

-----------------------------------------------------------------------------
(* Properties.                                                             *)

\* Every variable stays in its type.
TypeOK ==
    /\ backend \in Backends
    /\ pc \in Pcs
    /\ compiled \in BOOLEAN
    /\ hidden \in Seq(BOOLEAN)
    /\ results \in Seq(Result)
    /\ passed \in Nat
    /\ overall \in Verdict
    /\ deferred \in BOOLEAN
    /\ panics \subseteq {"call", "cleanup"}
    /\ workspace \in BOOLEAN
    /\ stored \in Record
    /\ published \in Seq(Event)
    /\ recorded \in Seq([verdict : Verdict, violation : Violations])
    /\ ctxDone \in BOOLEAN
    /\ tainted \in BOOLEAN

\* A verdict agrees with the results it stands over: ACCEPTED when all passed,
\* else the verdict of the first result that is not ACCEPTED.
Decides(verdict, rs) ==
    \/ /\ verdict = "ACCEPTED"
       /\ \A i \in 1 .. Len(rs) : rs[i].verdict = "ACCEPTED"
    \/ \E i \in 1 .. Len(rs) :
          /\ rs[i].verdict = verdict
          /\ verdict # "ACCEPTED"
          /\ \A j \in 1 .. i - 1 : rs[j].verdict = "ACCEPTED"

\* The report behind GET /submissions/:id, once COMPLETED, accounts for every
\* test case, counts the passing ones and is decided by the first that failed,
\* whatever faults and cancellations hit the loop that built it.
VerdictSound ==
    stored.status = "COMPLETED" =>
        /\ Len(stored.results) = Total
        /\ stored.total = Total
        /\ stored.passed =
              Cardinality({i \in Tests : stored.results[i].verdict = "ACCEPTED"})
        /\ Decides(stored.verdict, stored.results)

\* The place of an event in the life of a submission.
Position(e) ==
    CASE e.status = "COMPILING" -> 0
      [] e.status = "RUNNING" -> 1
      [] e.status = "TESTCASE_START" -> 2 * e.test
      [] e.status \in {"TESTCASE_PASSED", "TESTCASE_FAILED"} -> 2 * e.test + 1
      [] OTHER -> 2 * Total + 2

\* The one event that may follow a final one: the panic handler's, when it was
\* the deferred Cleanup that panicked.
Overturning(i) ==
    /\ "cleanup" \in panics
    /\ i = Len(published)
    /\ published[i] = [status |-> "FAILED", test |-> 0, verdict |-> "SYSTEM_ERROR"]

\* The stream of Publish calls is in order and free of repetitions: even when
\* the bus loses some of them, a test's outcome follows its start, the tests
\* come in order, and nothing follows the final event, also when a panic
\* replaces the rest of the loop; only a panic in Cleanup adds a second one.
StreamOrdered ==
    \A i, j \in 1 .. Len(published) :
        i < j => \/ Position(published[i]) < Position(published[j])
                 \/ /\ Position(published[i]) = Position(published[j])
                    /\ Overturning(j)

\* Cancelling the worker's context makes the running compiler or program fail
\* and ProcessJob still walks on to its final SaveState; no final record with
\* such a verdict reaches Redis, because the same context guards the write.
NoVerdictFromCancelledRun ==
    backend = "redis" /\ stored.status \in Terminal => ~stored.tainted

\* However ProcessJob returns (success, failSubmission, panic), a workspace
\* that Prepare handed over is gone, unless Cleanup itself panicked.
WorkspaceReleased ==
    pc = "done" /\ deferred /\ "cleanup" \notin panics => ~workspace

\* Exactly one metrics record per evaluated submission, with the verdict it was
\* evaluated to; none when a panic cut the evaluation short.  The panic handler
\* counts nothing, so a panic in Cleanup leaves the count at one.
CountedOnce ==
    pc = "done" =>
        IF "call" \in panics THEN recorded = <<>>
        ELSE /\ Len(recorded) = 1
             /\ recorded[1].verdict = overall

\* On every way out of ProcessJob, the unwinding of one or two panics included,
\* what it took is given back and what it did is counted.
EndsCleanly == WorkspaceReleased /\ CountedOnce

\* A stored final record is overwritten in one case only, by the handler that
\* recovers a panic of the deferred Cleanup: the report then becomes FAILED with
\* SYSTEM_ERROR, whatever it said before.
OverwrittenByCleanupOnly ==
    [][stored.status \in Terminal /\ stored' # stored =>
          /\ panics = {"cleanup"}
          /\ stored'.status = "FAILED"
          /\ stored'.verdict = "SYSTEM_ERROR"]_vars

\* The contract of module Job; the in-memory store and bus are the reliable
\* ones.
Contract == INSTANCE Job WITH
    reliable <- (backend = "memory"),
    broken <- ("cleanup" \in panics),
    status <- stored.status,
    verdict <- stored.verdict,
    announced <- {<<published[i].status, published[i].verdict>> :
                    i \in {j \in 1 .. Len(published) :
                              published[j].status \in Terminal}}

\* Every call of the sandbox comes back, with a result or with a panic.
CallsComeBack == []<>(pc \notin SandboxCalls)

\* ProcessJob implements the contract on both backends.  Where no write is lost
\* and every sandbox call comes back a final event comes, after the final record
\* and saying the same, on the success, the failure and the panic path: a client
\* that polls on seeing it finds the report it announced.
ImplementsContract ==
    Contract!Safety /\ (CallsComeBack => Contract!Liveness)

\* The worker goroutine comes back from ProcessJob if every call of the sandbox
\* does, also when every Redis command fails or the context is gone.
Returns == CallsComeBack => <>(pc = "done")

=============================================================================

----------------------------- MODULE Sandboxes ------------------------------
(***************************************************************************)
(* The test cases of one submission run by the three sandbox backends of   *)
(* pkg/sandbox, side by side.  Docker starts a container per test case and *)
(* the process backend accounts for nothing; the native backend creates    *)
(* one cgroup for the submission in Prepare, and every Execute attaches    *)
(* its process to it and then reads memory.peak, memory.events and         *)
(* cpu.stat, which the kernel accumulates for the cgroup's lifetime, as    *)
(* far as they can be read (memory.peak is there since Linux 5.19).        *)
(* ProcessJob adds up CPU times and takes the maximum of the peaks.        *)
(*                                                                         *)
(* The three judge the same observation; in life each makes its own, and   *)
(* Docker's wall time includes the start of the container.                 *)
(***************************************************************************)
EXTENDS Verdicts, Sequences

CONSTANTS
    MaxRuns,        \* bound: test cases
    MemoryLimit,    \* memory.max
    Behaviours      \* what a process may do when it is run

\* What the verdict and the totals are read from.
Files == {"memory.peak", "memory.events", "cpu.stat", "docker inspect"}

Run == [peak : Nat, cpu : Nat, obs : Observation,
        unread : SUBSET Files,     \* what could not be read after the run
        error : BOOLEAN]           \* the native backend could not start or attach it

ASSUME MaxRunsAssumption == MaxRuns \in Nat
ASSUME MemoryLimitAssumption == MemoryLimit \in Nat \ {0}

\* The kernel kills a process before the usage exceeds memory.max.
ASSUME BehavioursAssumption ==
    \A r \in Behaviours : r \in Run /\ Observable(r.obs) /\ r.peak <= MemoryLimit

VARIABLES
    phase,       \* "new", "ready" (between Prepare and Cleanup) or "removed"
    cgroup,      \* the kernel's counters of the submission's cgroup
    tests,       \* what each process did, and the verdict of each backend
    totals       \* ProcessJob's maxPeakMemoryMB and totalCpuTimeMs (native)

vars == <<phase, cgroup, tests, totals>>

NoUsage == [peak |-> 0, cpu |-> 0, oom |-> FALSE]

Init ==
    /\ phase = "new"
    /\ cgroup = NoUsage
    /\ tests = <<>>
    /\ totals = [peak |-> 0, cpu |-> 0]

\* setupCgroupHierarchy: a fresh cgroup named after the submission.
Prepare ==
    /\ phase = "new"
    /\ phase' = "ready"
    /\ cgroup' = NoUsage
    /\ UNCHANGED <<tests, totals>>

Larger(m, n) == IF n > m THEN n ELSE m

\* The kernel's accounting of one more process in the cgroup.
Account(usage, r) ==
    [peak |-> Larger(usage.peak, r.peak),
     cpu |-> usage.cpu + r.cpu,
     oom |-> usage.oom \/ r.obs.oom]

AtLimitCountsAsOom(usage) ==       \* mutant: reaching the limit is exceeding it
    usage.oom \/ usage.peak >= MemoryLimit

\* What the native backend takes for running out of memory.
OutOfMemory(usage) == usage.oom \/ usage.peak > MemoryLimit

\* readCgroupMemoryStats and readCgroupCpuStats: a file that cannot be read counts
\* as zero, and a CPU time of zero is replaced by the process's own.
Reading(usage, r) ==
    [peak |-> IF "memory.peak" \in r.unread THEN 0 ELSE usage.peak,
     cpu |-> IF "cpu.stat" \in r.unread THEN r.cpu ELSE usage.cpu,
     oom |-> "memory.events" \notin r.unread /\ usage.oom]

\* What a backend sees of a run: the native one reads the cgroup's counters,
\* Docker asks the daemon.
Seen(b, usage, r) ==
    CASE b = "native_cgroupv2" -> [r.obs EXCEPT !.oom = OutOfMemory(Reading(usage, r))]
      [] b = "docker" -> [r.obs EXCEPT !.oom = @ /\ "docker inspect" \notin r.unread]
      [] b = "dev_process" -> r.obs

\* An error of the native backend's Execute is a verdict of ProcessJob's.
Judge(b, usage, r) ==
    IF b = "native_cgroupv2" /\ r.error THEN "SYSTEM_ERROR"
    ELSE VerdictOf(b, Seen(b, usage, r))

SumOfPeaks(usage) ==               \* mutant: peaks are added up like times
    [peak |-> totals.peak + usage.peak, cpu |-> totals.cpu + usage.cpu]

\* The aggregation in ProcessJob's loop, over what the native backend reports.
AddUp(usage) == [peak |-> Larger(totals.peak, usage.peak),
                 cpu |-> totals.cpu + usage.cpu]

\* One test case: start, attach to the cgroup, wait, read the counters, judge; a
\* process that was not attached leaves the counters and the totals alone.
Execute(r) ==
    /\ phase = "ready"
    /\ Len(tests) < MaxRuns
    /\ cgroup' = IF r.error THEN cgroup ELSE Account(cgroup, r)
    /\ tests' = Append(tests,
           [run |-> r, verdict |-> [b \in Backends |-> Judge(b, cgroup', r)]])
    /\ totals' = IF r.error THEN totals ELSE AddUp(Reading(cgroup', r))
    /\ UNCHANGED phase

Cleanup ==
    /\ phase = "ready"
    /\ phase' = "removed"
    /\ cgroup' = NoUsage
    /\ UNCHANGED <<tests, totals>>

Next == Prepare \/ (\E r \in Behaviours : Execute(r)) \/ Cleanup

Spec == Init /\ [][Next]_vars

-----------------------------------------------------------------------------
(* Properties.                                                             *)

Judged == 1 .. Len(tests)
Obs(i) == tests[i].run.obs

\* Every variable stays in its type, no reported peak exceeds memory.max.
TypeOK ==
    /\ phase \in {"new", "ready", "removed"}
    /\ cgroup \in [peak : 0 .. MemoryLimit, cpu : Nat, oom : BOOLEAN]
    /\ tests \in Seq([run : Behaviours, verdict : [Backends -> Verdict]])
    /\ totals \in [peak : 0 .. MemoryLimit, cpu : Nat]

\* The backend learns whether the process ran out of memory.
Told(b, r) ==
    CASE b = "native_cgroupv2" -> "memory.events" \notin r.unread
      [] b = "docker" -> "docker inspect" \notin r.unread
      [] b = "dev_process" -> FALSE

\* No cascade lets a bad run through: whatever the order in which a backend
\* asks its questions, whatever the cgroup accumulated and whatever could not be
\* read, ACCEPTED means the run was clean, and within memory where the backend
\* was told.
AcceptedIsClean ==
    \A i \in Judged, b \in Backends :
        tests[i].verdict[b] = "ACCEPTED" =>
            Clean(Obs(i)) /\ (Told(b, tests[i].run) => ~Obs(i).oom)

\* The process ran in the submission's cgroup.
Ran(i) == ~tests[i].run.error

\* And no cascade rejects a good run that was started, unless an earlier one ran
\* out of memory in the same cgroup, or the context ended just as the program
\* did and the watchdog's select preferred the context.
CleanIsAccepted ==
    \A i \in Judged, b \in Backends :
        /\ Ran(i) /\ Clean(Obs(i)) /\ Undisturbed(Obs(i))
        /\ \A j \in 1 .. i : ~Obs(j).oom
        => tests[i].verdict[b] = "ACCEPTED"

FirstFailure(v, verdicts) ==
    \E i \in DOMAIN verdicts :
        /\ verdicts[i] = v /\ v # "ACCEPTED"
        /\ \A j \in 1 .. i - 1 : verdicts[j] = "ACCEPTED"

\* The verdict of the native backend for a test with a cgroup of its own.
OwnVerdict(i) == IF Ran(i) THEN NativeVerdict(Obs(i)) ELSE "SYSTEM_ERROR"

\* The counters of one test leak into the next, but never into the verdict of
\* the submission: the test that is killed for memory is itself the first
\* failure, or comes after it, provided memory.events could be read after it.
SubmissionVerdictExact ==
    (\A i \in Judged : Obs(i).oom => Told("native_cgroupv2", tests[i].run)) =>
        \A v \in Verdict :
            FirstFailure(v, [i \in Judged |-> tests[i].verdict["native_cgroupv2"]])
                <=> FirstFailure(v, [i \in Judged |-> OwnVerdict(i)])

\* The peak ProcessJob stores is the highest peak of the tests up to the last one
\* after which memory.peak could be read, although every report carries the peak
\* of the cgroup and not of the test; it is never one that no test had.
PeakRead(i) == Ran(i) /\ "memory.peak" \notin tests[i].run.unread
PeakExact ==
    /\ \A i \in Judged : PeakRead(i) =>
           \A j \in 1 .. i : Ran(j) => tests[j].run.peak <= totals.peak
    /\ \/ totals.peak = 0
       \/ \E i \in Judged : /\ Ran(i) /\ tests[i].run.peak = totals.peak
                            /\ \E k \in i .. Len(tests) : PeakRead(k)
=============================================================================

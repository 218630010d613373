# A TLA+ verification of the remote runtime engine

The repository is an online judge: an HTTP gateway accepts programs with test
cases, a queue hands them to workers, a worker compiles and runs each program in
a sandbox, stores a report and streams events to WebSocket clients. It runs
either distributed (gateway, Redis, worker daemons) or standalone (everything in
one process, in memory). This directory holds TLA+ models of its core, the TLC
configurations that check them and TLAPS proofs of every safety property checked.

File and line references are to the repository, without its `src/` prefix here.

## 1. Inventory

| Component | State | Operations | Interacts with |
|---|---|---|---|
| Job evaluation, `pkg/worker/worker.go` | locals of the test loop; workspace | `ProcessJob`, `failSubmission`, deferred clean-up and panic handler | store, bus, sandbox, metrics |
| Worker pool, `pkg/worker/pool.go` | `stopCh`, running flag, active/total counters | `Start`, `workerLoop`, `Stop` | queue, `ProcessJob` |
| Worker daemon, `cmd/worker` | context, signal | start, SIGTERM: `cancel`, `Stop`, closes | pool |
| Gateway, `pkg/api/server.go` | none of its own | POST, GET, health, CORS | queue, store, bus |
| WebSocket, `pkg/api/websocket.go` | context, subscription, reader goroutine | `HandleWebSocket` | store, bus |
| Queues, `pkg/queue` | Redis list, or a Go channel and a closed flag | `Enqueue`, `Dequeue`, `QueueDepth`, `Close`, `Normalize` | - |
| Stores, `pkg/store` | one record per submission | `SaveState`, `GetState`, `Close` | - |
| Event buses, `pkg/events` | subscriber channels; Redis Pub/Sub and a forwarding goroutine | `Publish`, `Subscribe`, the cancel function, `Close` | - |
| Sandboxes, `pkg/sandbox` | directory, cgroup or container, output buffers | `Prepare`, `Compile`, `Execute`, `Cleanup`, `SelectSandbox` | kernel, Docker |
| Request limits, languages, `pkg/models`, `pkg/languages` | language registry | `Normalize`, `Get`, commands | - |
| Metrics and audit, `pkg/metrics`, `pkg/security` | counters | `RecordSubmissionMetrics`, `RecordViolation`, `LogViolation` | - |
| Standalone gateway, `cmd/api`; CLI, `cmd/engine`, `pkg/engine` | context, embedded pool | start, shutdown order; `Run` | all of the above |

What is hard here: `ProcessJob` discards every error of the store and the bus
and goes on after its context is cancelled; panics unwind through two deferred
functions; a job leaves the Redis list before it is evaluated; gateway and worker
write the same record without coordination; the WebSocket handler looks, then
subscribes; channels are closed by one goroutine and sent to by another; all
tests of a submission share one cgroup with cumulative counters. `PROJECT.json`
lists these hazards line by line with the properties aimed at them.

What makes each part correct, in short:

* evaluation: the stored report is sound and final, announced after it is
  stored, in order, counted once, and the workspace is released; where the code
  breaks this (a panic in the deferred clean-up), it does so in that case only;
* cluster: a submission is in one place, never lost except by an interrupted
  daemon, a lost reply or a refused final write, its status only moves forward,
  the queue is bounded, what was accepted is decided;
* standalone process: the same through a shutdown that closes queue, bus and
  store under running workers; the in-memory queue is a FIFO queue;
* streaming: ordered, gap-free unless a channel overflowed, ends with a final
  frame that the store agrees with; no use of a closed channel; no handler whose
  client reads stays registered;
* sandboxes: only runs that really ended well are accepted, whatever container,
  cgroup or process is left over from others and whatever could not be read;
  `Execute` comes back and what it started is removed, and the exceptions are
  named;
* requests: the documented limits and the sandbox that was asked for on both ways
  in.

## 2. Modules

| Module | Models | Proofs | For TLC |
|---|---|---|---|
| `Vocabulary` | verdicts and statuses | | |
| `Job` | abstract: what a worker promises about one submission | | |
| `ProcessJob` | one evaluation, step by step; implements `Job` | `ProcessJobProofs` | `MCProcessJob` |
| `Cluster` | gateway handlers, Redis list and store, pools, daemons | `ClusterProofs` | `MCCluster` |
| `JobQueue` | abstract: a FIFO queue that can be closed | | |
| `Standalone` | `cmd/api` in one process: handlers, in-memory queue and store, embedded pool, shutdown; its channel implements `JobQueue` | `StandaloneProofs` | `MCStandalone` |
| `MemoryEventBus` | the in-memory bus with its lock and channels | in `LiveStreamProofs` | |
| `LiveStream` | composes `MemoryEventBus` with the publishing gateway and worker and the WebSocket handlers | `LiveStreamProofs` | `MCLiveStream` |
| `RedisEventBus` | one Redis subscription, its forwarder, its handler | `RedisEventBusProofs` | `MCRedisEventBus` |
| `Verdicts` | the verdict cascades of the three backends | in `SandboxesProofs` | |
| `Sandboxes` | the test cases of a submission under all backends, with the native cgroup they share | `SandboxesProofs` | `MCSandboxes` |
| `Containers` | the Docker backend, command by command, against the docker daemon; uses `Verdicts` | `ContainersProofs` | `MCContainers` |
| `Limits` | both `Normalize` functions, `languages.Get`, `SelectSandbox` | in `EngineProofs` | |
| `Execution` | one `Execute` of the native or process backend with its processes and output; uses `Verdicts` | in `EngineProofs` | |
| `Engine` | composes `Limits` and `Execution` into `Engine.Run` and the command line | `EngineProofs` | `MCEngine` |

`PROJECT.json` maps every definition to the lines it models.

### ProcessJob

One variable per local of the function that matters (`compiled`, `hidden`,
`results`, `passed`, `overall`), the stored record, the log of accepted events,
the log of metrics, the deferred clean-up, the workspace and the context. A step
ends at every access to something shared, because cancellation, a failing
command or a panic can come between any two. `WriteOutcomes` is what the backend
makes of a write: the in-memory store and bus always succeed and ignore the
context; Redis fails on a cancelled context and may fail on a live one. `Panic`
is possible in every call of the language registry and the sandbox before the
report is stored; it runs `Cleanup` if that was deferred, then the recovering
handler. `CleanupPanics` is a panic in the deferred `sb.Cleanup` itself, on the
ordinary way out as well as while another panic unwinds: the handler of
`worker.go:35` then stores and publishes FAILED although the evaluation is
decided. `panics` says which of the two happened. Results and events are reduced
to verdicts, indices and whether the program's output is in them. `tainted` is a
history variable: a sandbox call came back after the cancellation. A nil job
returns at once and is not among the inputs.

`Job`, the abstract specification, has the promise (`Begin`, `Complete`, `Fail`,
`Announce`) and the one way in which it is broken: `Break`, `Overturn` and
`AnnounceAgain` are the panic in `Cleanup`. Its liveness half is promised under
`CallsComeBack`.

### Cluster

One handler per submission (`handler`), the list (`queue`), the status of every
record (`store`), each worker's position and job (`wpc`, `job`) and each daemon's
life cycle. `ProcessJob` is reduced to its store writes, and nothing says that it
comes back: that it does is the premise `EvaluationsComeBack` of the liveness
property. A worker's writes take effect while its daemon's context is live
(`Alive`), and also then Redis may refuse the final one, whose error the code
discards (`LoseOutcome`). `CleanupPanics` is the panic that turns a stored
COMPLETED into FAILED. The depth check has its fail-open path: `SkipDepthCheck` is
a request whose LLEN failed. A BRPOP on the wire is not interrupted by the
cancellation, so `Dequeue` does not ask whether the daemon is up. Redis carries
out every other command, but the reply may be lost with the connection:
`LosePushReply` leaves the handler to push again, as often as faults are left
(go-redis retries up to three times), or to answer 500 for a job that is in the
list; `LosePopReply` takes a job that nobody gets, for a worker or on behalf of a
daemon that has just died.

The histories say who was touched by a fault: `interrupted` (what a daemon held
when it was told to stop or died, and what it popped after that), `unanswered`,
`vanished` (pushes and pops whose reply was lost), `unchecked` (let in by a failed
LLEN) and `unsaved` (final record refused). The properties say what still holds of
these submissions and that the others are untouched.

### Standalone, JobQueue

`Standalone` has the handlers, pool and store of `Cluster` in one process, with
the in-memory queue as the code has it: `Enqueue` looks at the closed flag under
a lock it gives back (`CheckClosed`) and sends in a step of its own (`Send`),
which panics on a closed channel, fails on a full one and loses the race with a
client that goes away. A handler that has begun to read its body (`Arrive`) goes
on when the server stops listening. The timer of `Dequeue` may win its `select`
against a job that is there (`DequeueTimeout`). `main` goes through `cmd/api`'s
shutdown call by call: `Shutdown` with its 5 seconds, `Close` of queue, bus and
store, and then the deferred `pool.Stop`. Workers never see a cancelled context
here, because the deferred `cancel` runs last. `st.Close` empties the store;
workers write their last records into the new map. `ProcessJob` need not return;
`ShutdownEnds` has `EvaluationsComeBack` as its premise.

### LiveStream, MemoryEventBus, RedisEventBus

In `MemoryEventBus` a `Publish` holds the read lock over a fan-out that is
modelled send by send; the bodies under the write lock are single steps that need
all read locks released. The cancel function removes the first occurrence of its
channel from the slice (`RemoveFirst`), the only one, since `Subscribe` made the
channel. `LiveStream` extends it with its users: the gateway and
the worker publish the numbered events of one submission, clients connect, look
into the store, subscribe, receive and leave, the gateway may close the bus at any
moment, and the deferred unsubscribe then closes a closed channel. A write to a
connection (`websocket.go:60`, `109`, `115`) has no deadline, so it is a state of
its own: `Forward` and `SendStored` begin it, `FrameWritten` and `ReportWritten`
end it when the client reads, and these are not fair. `RedisEventBus` has the forwarding goroutine and the handler that closes its
channel; go-redis buffers `Inbox` messages in front of it and drops one it could
not hand over for a minute, by when the forwarder is stuck on a full `eventCh`
(`Drop`). `Skip` is a message whose `json.Unmarshal` fails, which the forwarder
passes over.

### Verdicts, Sandboxes

`Verdicts` holds the ends of the three `Execute` methods as functions of what
they observe of a run. `Sandboxes` runs the test cases of one submission through
all three backends side by side, each judging the same observation (in life each
makes its own: Docker's wall time includes the start of the container). Docker and
the process backend start afresh for every test; the native backend reads the
counters of the one cgroup that `Prepare` made for the submission: `Account` is
the kernel's bookkeeping (external), `Reading` what `Execute` gets of it,
`OutOfMemory` and `Seen` what it makes of that, `AddUp` the aggregation in
`ProcessJob`. A file that cannot be read (`unread`) counts as zero without an
error, as `native_linux.go:302`, `308` and `326` have it. A run the backend could
not start or attach (`error`) is `ProcessJob`'s SYSTEM_ERROR and leaves counters
and totals alone. The kernel is assumed to kill before `memory.max` is exceeded,
so a peak never is above the limit. The context may end while a program runs;
`Undisturbed` excludes the race in which it ends just as the program does and a
clean run is called slow.

### Containers

One or two executors work through the tests of a submission with the Docker
backend. A container is a record of the daemon under the submission's name: who
made it for which test, whether it runs, and how it ended. `Request`, `Create` and
`Start` are what `docker run` does; `ClientKilled` is the deadline or the
cancellation, which ends the client and not the container; `RequestKilled` is a
client that is killed before the daemon has answered its create request, which the
daemon may still serve (`LateCreate`): the container is then an `orphan` that
nobody starts, but that has the name; `Inspect` and `Remove` take whichever
container has the name, as the code does. Any docker command may fail, a worker
may be killed. `Programs` are the ways a program ends when it is left alone, up to the half
second between its limit and the kill (`docker.go:160`);
`ended` is a history variable with the way the program of the current test did.
A program whose output did not arrive is given the most favourable treatment (no
expected output), so that `AcceptedRan` rests on exit codes alone.

### Limits, Execution, Engine

`Limits` has the request up to the choice of the sandbox as operators. `Execution`
is one `Execute`: the program, a child it may fork inside or outside its process
group, before or after the attachment to the cgroup, with or without the output
and the input pipe; the copying goroutine of `os/exec` with
`BoundedBuffer.Write`; the context, the watchdog's `select` and its kill;
`cmd.Wait`, which returns when the program is reaped, the output pipe is at its
end and the input was read or has no reader left (`unread`). Memory is the subject
of `Sandboxes`. `Engine` is `Engine.Run` around it, up to the deferred `Cleanup`;
the command line's part is the detection of the language. `Compile` waits for a
process that outlives the compiler's killed driver (`straggler`). `Cleanup` and
the failing `Prepare` ignore the errors of their calls, so any of these may fail
(`ignored`): `cgroup.kill`, which kernels before 5.14 do not have, `os.Remove` of
an occupied cgroup, `os.RemoveAll`. The process backend kills only the program and
has no cgroup. Docker's `Execute` is any verdict here.

## 3. Runs

| Run | States | Checks |
|---|---|---|
| `process` | 647,000 | both backends, with panics, cancellation and failing Redis commands: type invariant; the report is sound, no verdict of a cancelled run is stored, a final record is overwritten only after a panic in `Cleanup`; events in order; `EndsCleanly`: workspace released, metrics recorded once; `ProcessJob` implements `Job`, whose final event repeats the stored record, and returns if every call of the sandbox does |
| `cluster` | 986,000 | stops, crashes, lost replies, a failed LLEN, a refused final record: type invariant, one owner, no silent loss, bounded loss, bounded waiting, status only forward |
| `cluster_live` | 390,000 | if evaluations come back, an accepted submission is decided, or a named fault hit it |
| `standalone` | 499,000 | a job is in exactly one place and its record agrees, a failed `Enqueue` leaves it in none; a send on the closed channel only after a timed-out `Shutdown`; in-flight jobs complete; the channel implements `JobQueue`; the shutdown ends if evaluations come back |
| `live_stream` | 129,000 | `ChannelsSafe`: no send on a closed channel, no second close before the shutdown, registered iff open; `StreamFaithful`: order, no silent gap, the final frame agrees with the store; if the evaluation ends, a subscriber that reads gets it; a handler whose client reads unsubscribes and returns |
| `redis_bus` | 19,000 | `DeliveredInFull`: in order, once, and complete but for what was not decoded or given up; the forwarder ends |
| `sandboxes` | 826,000 | accepted means clean, clean means accepted, the verdict of a submission is unaffected by the shared cgroup, the peak is that of the tests as far as it could be read |
| `containers` | 785,000 | accepted means that this test's program ended well; undisturbed verdicts are exact; `NothingStray`: leftover containers are explained, no compiler writes the binary of a running submission; executors finish |
| `engine` | 772,000 | `RequestHonoured`: limits as documented and sandbox as requested; the buffer is exact; accepted means ended by itself with complete output; the engine leaves nothing behind that no failure explains, and returns unless it is held up |

`TypeOK` is checked with `ProcessJob` and `Cluster`, where TLC is the first to see
a slip in it; in all modules it is proved.

Three further runs each show that a statement of the repository does not hold of
the code; `PROJECT.json` quotes the statements under `findings`:

| Run | Shows |
|---|---|
| `cluster_stop` | a graceful stop drops the submission in flight: `cancel` comes before `Stop` |
| `live_stream_ends` | the evaluation ends between the look into the store and the subscription: the client never gets a final frame |
| `redis_bus_cancel` | unsubscribing while the forwarder holds a message makes it send on a closed channel |

Met while modelling, visible in the models, and without a run of their own:

* `worker.go:129` stores a RUNNING record with the verdict ACCEPTED (as
  `server.go:148` does a QUEUED one), which `verdicts.go:7` reserves for programs
  that passed. `VerdictSound` speaks of COMPLETED records.
* A panic in the deferred `sb.Cleanup` (`worker.go:92`) comes after the report was
  stored and announced; the handler at `worker.go:35` then replaces it by FAILED
  with SYSTEM_ERROR and publishes a second final event. This is the one exception
  in `OverwrittenByCleanupOnly`, `StreamOrdered` and `Job`.
* The depth check fails open: a request whose LLEN fails is pushed whatever the
  depth (`server.go:135`). Those come on top of `QueueDepthBounded`.
* `README.md:59` and `:62` of the repository restrict processes to 32 and output
  to 1MB; `request.go:65-71` uses both only as defaults, and a request for more
  gets more. `API.md:66-70` lists them as defaults; `RequestHonoured` is stated
  against `API.md`.
* With Redis the final event is published although the final `SaveState` failed
  (`worker.go:241` discards the error): the contract of `Job` promises agreement
  for the in-memory backend only.
* The QUEUED event is published (`server.go:178`) before the client learns the
  id, and no bus keeps history, so the first frame of `API.md:117-119` is never
  seen.
* After `MemoryEventBus.Close` a subscriber's cancel function closes its channel
  a second time (`memory_bus.go:81` and `:97`) and panics;
  `DoubleCloseOnlyAtShutdown` says that nothing else does.
* In the native sandbox a test after an out-of-memory kill is itself reported as
  out of memory, and its CPU time includes that of all earlier tests
  (`native_linux.go:243`), which `ProcessJob` then adds up again.
* The output of a hidden test that passes is stored and published: only the
  failing ones are masked (`worker.go:180`).
* A submission whose push was repeated is evaluated twice, and the second
  evaluation takes its record from COMPLETED back to RUNNING: the exception in
  `SingleOwner` and `StatusNeverRegresses`.
* A submission whose `Enqueue` failed keeps its QUEUED record (`server.go:159`);
  in the standalone process it is in no queue (`ExactlyOnePlace`), with Redis it
  may be.
* In the standalone process the store is emptied (`cmd/api/main.go:103`) before
  the last workers write to it; jobs still in the channel when the pool stops are
  gone with the process.
* Where `memory.peak` cannot be read (Linux before 5.19; `README.md:15` recommends
  5.8 and later) the reported peak is 0, without an error (`native_linux.go:302`),
  and where `memory.events` cannot, an out-of-memory kill is a runtime error.
* `Execute` of the native and process backends can be held up beyond its time
  limit, and for ever, by a descendant outside the process group (any descendant,
  in the process backend) that keeps the output pipe, or the input pipe with input
  left in it: `HeldUp`. `Compile` can be held up by what the compiler's killed
  driver leaves behind. These are the exceptions in `RunReturns`, and why
  `Returns`, `AcceptedIsDecided` and `ShutdownEnds` have a premise.
* A WebSocket handler whose client stays connected and stops reading stays in its
  write and registered with the bus (`websocket.go:109`): the premise
  `ClientReads`.
* A child forked before the program was attached to its cgroup survives the
  clean-up (`native_linux.go:209`), and where `cgroup.kill` is missing or cannot
  be written so does any child of the native backend, with the cgroup
  (`native_linux.go:347`): the exceptions in `CleanedUp`.
* Callers of `Engine.Run` other than the command line may set a preference that
  replaces an unavailable requested sandbox by a weaker one (`engine.go:45`).

### Bounds, and why they are enough

* `ProcessJob`: two tests and two different failing verdicts tell "first" from
  "last", "some" from "all"; zero tests exercise the padding. There is one verdict
  of each kind the code treats differently.
* `Cluster`: three submissions, two daemons with a worker each, a list limit of 1
  and two handlers in flight let the list overshoot, a daemon be interrupted with
  a job in hand and another on the wire, and the other go on; two faults allow a
  stop and a crash, a crash of a daemon that is stopping, a push repeated twice, a
  repeated push and a crash of one of the two owners, or a refused final record
  next to any of these. Submissions, and the daemons with their workers,
  are symmetric. The liveness run has two submissions and uses no symmetry. Larger
  pools are covered by the proofs.
* `Standalone`: three submissions and two workers, so that the process stops with
  both busy and one job waiting; a channel of two places behind a depth limit of
  one, so that both limits are met.
* `LiveStream`, the buses: channels of capacity 2 and more events than that make
  them overflow; two clients and two publishers interleave.
* `Sandboxes`: times below, at and above the limit, the exit codes the code
  singles out and -1, usages below and at the limit; two tests are enough for one
  to leak into the next. Each counter alone, and all of them, unreadable, and runs
  that do not start, for programs that end by themselves.
* `Containers`: two executors of one submission and two tests let every container
  be met by a later test and by the other executor; one fault of any kind. Time is
  0 (at the limit) or 1 (over it); programs end well, out of memory, with a wrong
  answer, or between the limit and the kill.
* `Engine`: limits below, at and above every default and cap, names of every kind
  (exact, alias, badly spaced, unknown), each set of available backends; output that
  falls short of, fills and overflows a buffer of 2 in pieces of 1 and 2.
* `MaxTests`, `MaxInflight`, `MaxFaults`, `Steps`, `MaxMessages`, `MaxRuns`,
  `Tests` and `MaxWritten` bound what is unbounded in the program;
  `MaxQueueDepth`, `Capacity`, `Buffer`, `Inbox`, `MaxOutput`, `TimeLimit` and
  `MemoryLimit` are the program's own limits, scaled down.

Deadlock is checked for `ProcessJob` (which ends in an explicit `Done`) and
`Cluster`. The other systems stop: their bounded supply of events or runs is used
up, the process exits or the engine returns, so their configurations switch it
off, and liveness properties say what must have been reached.

### Fairness

* `ProcessJob`: weak fairness of its own steps outside the calls of the sandbox.
  Redis commands have timeouts, the in-memory backend returns at once. That the
  sandbox's calls return is a premise of `Returns` and of the liveness half of
  `ImplementsContract` (`CallsComeBack`), because the code does not guarantee it.
  `Panic`, `CleanupPanics` and `Cancel` are not fair.
* `Cluster`: the loop of each worker goroutine keeps running, a stopping daemon
  goes on and a daemon that is down is restarted (the compose files and the
  Kubernetes manifests say so). A handler that has pushed answers. Evaluations
  (premise `EvaluationsComeBack`), clients, signals and crashes are not fair.
* `Standalone`: the workers' loops and `main` keep running; `Shutdown` has its own
  deadline. Handlers are not fair, since they may hang on their clients, nor are
  evaluations (the same premise), and the signal need not come.
* `LiveStream`: the publishers, the fan-outs and the handlers keep running between
  the calls that may block. The end of the evaluation and of a write to a client
  are not fair; they are the premises `EvaluationEnds` and `ClientReads`. Clients
  need not connect, and may leave.
* `RedisEventBus`: the forwarder, and the return of a handler that has
  unsubscribed. `Receive` is not fair.
* `Containers`: the executors; `docker run` has a deadline, and the daemon is
  assumed to answer `inspect` and `rm -f`, which have none (`docker.go:182`, `235`).
  Programs, compilers and requests of dead clients are not fair.
* `Engine`: the engine, the timer of `execCtx` and the copying goroutine. The
  program, its child and what the compiler leaves behind may run, print, read or
  sleep for ever.

## 4. Proofs

TLAPS checks these for every value of the constants under the assumptions named
in the modules: sizes are natural numbers, and buffers and limits positive;
submissions, workers and executors are finitely many; there is a daemon, and
`DaemonOf` maps workers to daemons; `NoJob` and `None` are none of the values
they stand next to; `TestVerdicts` are verdicts, `Requests` have the fields of an
`ExecutionRequest`, every host has the process backend, as in the code; the
gateway and the worker publish as two goroutines. TLC evaluates all of them.
Every safety invariant and action property of the passing runs is proved, each
type invariant, and both refinements (that of `Job` without its fairness).

`ProcessJobProofs`
* `TypeCorrect`: `Spec => []TypeOK`. `TypeOK` is not inductive: the event
  that reports a test takes the verdict of the last result, so `TypeInv` adds that
  there is one.
* `ReportSound`: `Spec => []VerdictSound`. `ReportInv` adds that the locals
  account for the results so far (`Accounted`: the passing ones counted, the
  verdict decided by the first failure), that all tests have a result when the
  report is saved, and that no final record is stored as long as a step that
  stores one lies ahead (`OpenWhileAhead`). The lemmas `CountAppend` and
  `DecidesAppend` carry counting and deciding over one more result.
* `FinalRecordStays`: `Spec => OverwrittenByCleanupOnly`, from the same invariant:
  a panic of a call finds the record open, and a panic in `Cleanup` is the only
  step after it is closed that leads to another write.
* `CancelledRunStoresNothing`: `Spec => []NoVerdictFromCancelledRun`. A result is
  tainted only under a cancelled context, and under that context Redis takes no
  write (`SaveUntainted`).
* `EveryExitIsClean`: `Spec => []EndsCleanly`. `EndInv` says at each step what has
  been counted and released by then: a panic of a call comes before anything is
  counted, one in `Cleanup` after it, and the handler counts nothing.
* `StreamInOrder`: `Spec => []StreamOrdered`. Sortedness alone is not inductive;
  `StreamInv` adds, for every step, the position below which all events published
  so far lie (`Under`) and how far the loop is. `PublishNext` carries both over
  one more event, published or lost. The position of a final event is above those
  of all tests, which is why the panic handler may cut the loop short, and equal to
  that of the one event that may follow it (`Overturning`).
* `ContractKept`: `Spec => Contract!Safety`, the initial states and steps of `Job`
  under the refinement mapping. `ContractInv` ties the stored record to the step:
  QUEUED before the loop, RUNNING in it unless Redis lost that write, then the
  record about to be announced (`Final`), which the in-memory store always has.
  Every step maps to a stutter, a write, an announcement, or to the breaking
  clean-up and what it overturns.

`ClusterProofs`
* `TypeCorrect`, with the invariant that exactly the busy workers hold a job and
  the workers of a daemon that is down have exited.
* `OneOwner`: `Spec => []SingleOwner`, strengthened by `Fresh`: nothing is queued
  or owned before its handler has pushed it. `PushEffect` and `PopEffect` say what
  LPUSH and BRPOP do to a list in which only unanswered submissions repeat.
* `StatusForward`: `Spec => StatusNeverRegresses`, strengthened by `Progress`,
  which ties the stored status of an answered submission to where it is; it rests
  on `OneOwner`, because only the one owner writes (`WriteConfined`).
* `NothingForgotten`: `Spec => []NoSilentLoss`, strengthened by `Marked` (a job
  held by a daemon that is not up is on record as interrupted) and `Early` (no
  reply is lost before the first push). It holds of submissions with several
  owners too, so it does not rest on `OneOwner`: every owner of a job leaves it
  recorded or marked.
* `DepthBound`: `Spec => []QueueDepthBounded`; `DepthInv` bounds the `Claims`, the
  submissions that wait or whose handler is between check and push, without those
  a failed LLEN let in. A push turns one kind of claim into the other, and
  repeating it adds none.
* `LossesBounded`: `Spec => []LossBounded`. What is lost at one moment can have
  been taken by an earlier interruption: two workers may own a submission whose
  push was repeated, one overwrites the other's final record and dies, and the
  loss shows when the other returns. So `CostInv` counts the `Exposed`, the
  submissions that are not in the list, not decided, not carried by a worker
  that will still write, nor charged to a lost reply or a refused write, as soon as
  they are, together with the workers that have
  a pop on the wire for a daemon that is already cancelled (`Popping`). An
  interruption pays for one of either per worker of the pool (`PaidInterruption`),
  a doomed pop turns a worker of the one kind into a submission of the other
  (`PaidPop`), and no other step costs anything.

`SandboxesProofs`
* `TypeCorrect`, `OnlyCleanAccepted`, `CleanAccepted`, `SubmissionVerdictUnaffected`, `PeakIsMaximum`: all properties of `Sandboxes`.
  `CascadeFacts` is the case analysis of the three cascades for any limit and exit
  codes. The invariant adds that the cgroup's flag was raised by one of the tests
  (`OomTraced`), that its peak is that of the tests that ran in it and an upper
  bound of `ProcessJob`'s maximum (`PeakShared`; the two coincide whenever
  `memory.peak` is read) and that the native verdicts are those of isolated runs up
  to the first out-of-memory kill the backend is told of (`NativeExact`); from there
  the kill itself is, or comes after, the first failure. Assumed is what the kernel does to a run:
  `BehavioursAssumption`.

`StandaloneProofs`
* `TypeCorrect`, with the counter of active jobs equal to the number of workers
  inside `ProcessJob` (`ActiveExact`) and only busy workers holding jobs.
* `PanicNeedsTimeout`: `Spec => []PanicOnlyAfterTimeout`. The order of `main`'s calls
  (`MainOrder`), and that every handler has answered once `Shutdown` came back
  without giving up (`NoHandlerLeft`); a handler between the look at the closed flag
  and its send is one that has not answered.
* `OnePlace`: `Spec => []ExactlyOnePlace`. `PlaceInv` has the three places of a
  submission pairwise disjoint and covering what was enqueued; `StoreInv` adds the
  record. The counting in the property comes last (`Places`).
* `InFlightDone`: `Spec => []InFlightCompletes`, from these: `main` exits when all
  workers have.
* `QueueRefined`: `Spec => ImplementsQueue`, every step a step of `JobQueue` or none.

`LiveStreamProofs`
* `BusChannelsSafe`: `Spec => []ChannelsSafe`. `BusInv` adds that the channels a
  running `Publish` has still to serve are open, different and only there under the
  read lock (`FanoutOpen`), which is what the write lock of `Subscribe`, the cancel
  function and `Close` protects, and who closed a channel (`ClosedBy`). One lemma per
  operation of the bus.
* `TypeCorrect`, with the order of the handlers' and the server's steps
  (`ControlInv`).
* `StreamsFaithful`: `Spec => []StreamFaithful`. The property speaks of what a client
  has received; the inductive `StreamInv` of that followed by what its channel still
  holds (`Pipe`): increasing numbers, every gap among the dropped events, and none
  missing up to the last event this client was served (`Served`, one behind while
  the fan-out has not come to it).

`RedisEventBusProofs`
* `TypeCorrect` and `NothingLostWhileOpen`: `Spec => []DeliveredInFull`. `OrderInv`
  has the order within and between the four stages of a message's way, pair by
  pair, and that none is ahead of what Redis delivered; `CompleteInv` that every
  message is at one of them, skipped or dropped; `HandInv` ties the forwarder's hand
  to where it is.
* `PanicOnlyByUnsubscribe`: what remains true where `redis_bus_cancel` refutes
  `CancelIsSafe`: the forwarder panics only once its handler has left its loop.

`ContainersProofs`
* `TypeCorrect`. `DockerInv` adds whose container has a name and for which test
  (`Made`), that the daemon keeps how the program ended (`Ends`), and that a create
  request that outlived its client belongs to an earlier `docker run` under a name
  that is spoiled since (`Pending`).
* `AcceptedOnlyIfRan`: `Spec => []AcceptedRan`, from `ZeroIsReal`: exit code 0
  reaches `Execute` only from the program of the current test, although `inspect`
  may look at a container of another test or executor.
* `NoStrays`: `Spec => []NothingStray`; its two parts are inductive with `DockerInv`.
* `VerdictIsExact`: `Spec => []VerdictExact`. For an executor that is alone and for
  which no command failed, the container is there exactly from `docker run` to `rm`
  (`SoleOwner`), so client and `inspect` report its end (`SoleReport`).

`EngineProofs`
* `TypeCorrect`, and all invariants of `Engine` and `Execution`. `EngineInv` fixes
  when the backend is chosen, from when to when workspace and cgroup exist
  (`WorkspaceKept`) and in which order `Execute` goes; `CgroupEmpty` is what
  `Cleanup` leaves, whichever of its calls fail.
* `RequestsHonoured`: `Spec => []RequestHonoured`; the two `Normalize` functions
  agree with each other and with `API.md` for all integers.
* `RunCleansUp`, `BufferIsExact` (for every way of cutting the output in pieces),
  `AcceptedIsSound`.

Only model-checked: liveness (`Returns`, `AcceptedIsDecided`, `ShutdownEnds`,
`SubscriberGetsFinal`, `HandlersReturn`, `ForwarderEnds`, `ExecutorsFinish`,
`RunReturns`) and the fairness half of the refinement of `Job` (part of
`ImplementsContract`): fairness and ENABLED are out of the prover's reach.

## 5. Not modelled

* System calls, file handling, the wording of Docker command lines, pinning to
  cores (a round-robin counter and a call whose error is ignored), log and metrics
  output, JSON and HTTP formatting: data or pure I/O. So is the seccomp table.
* The GET, health and CORS handlers: they read or answer and keep no state. What a
  client polls is the record whose history `StatusNeverRegresses` and
  `OverwrittenByCleanupOnly` describe.
* A pool that is started again after `Stop`, which closes `stopCh` twice: nothing
  in the repository does that.
* The expiry of records in Redis after 24 hours: no property spans it.
* Times, memory sizes and outputs beyond comparison with their limits.
* Two evaluations of one submission by native backends on one host, which share
  directory and cgroup; `Containers` has the corresponding case for Docker.

`PROJECT.json` has the list by component.

## 6. Plan

The safety properties are proved. Worth adding next:

1. The safety facts the liveness runs rest on, as theorems: which states of
   `Cluster`, `Standalone` and `LiveStream` have no step left, so that only
   fairness remains to be checked by TLC.
2. What remains true where a run refutes a statement of the repository, as
   `PanicOnlyByUnsubscribe` does: for `cluster_stop`, what a graceful stop does
   guarantee; for `live_stream_ends`, which clients miss their final frame.
3. The native sandbox of two evaluations of one submission on one host, in the
   manner of `Containers`.

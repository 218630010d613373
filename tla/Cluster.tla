------------------------------ MODULE Cluster -------------------------------
(***************************************************************************)
(* The distributed deployment: API servers accept submissions into a Redis *)
(* list, worker daemons on other machines pop and evaluate them, and the   *)
(* state store is the only record of how far a submission got.             *)
(*                                                                         *)
(*   handler  one POST /api/v1/submissions per submission                  *)
(*            (Server.handleSubmissions, pkg/api/server.go)                *)
(*   queue    RedisQueue: LPUSH at one end, BRPOP at the other             *)
(*   store    RedisStore: the status of every submission's record          *)
(*   worker   WorkerPool.workerLoop (pkg/worker/pool.go); ProcessJob is    *)
(*            reduced to its writes to the store (see module ProcessJob)   *)
(*   daemon   cmd/worker/main.go around each pool: SIGTERM cancels the     *)
(*            context, then Stop waits for the workers; the orchestrator   *)
(*            restarts a daemon that stopped or crashed                    *)
(*                                                                         *)
(* Redis itself stays up; daemons, clients, connections and single         *)
(* commands fail.  The reply to a command that Redis has carried out may   *)
(* be lost: go-redis sends an LPUSH again, and the job a BRPOP took out is *)
(* nobody's.  A failed LLEN lets a request through, and the error of a     *)
(* failed write of ProcessJob is discarded.                                *)
(***************************************************************************)
EXTENDS Vocabulary, Naturals, Sequences, FiniteSets, FiniteSetsExt

CONSTANTS
    Submissions,      \* the requests that clients send
    Workers,          \* worker goroutines of all daemons
    Daemons,          \* worker daemons, one pool each
    DaemonOf,         \* the daemon a worker belongs to
    NoJob,            \* "this worker holds no job"
    MaxQueueDepth,    \* ServerConfig.MaxQueueDepth
    MaxInflight,      \* bound: POST handlers running at the same time
    MaxFaults         \* bound: interruptions, lost replies, failed commands

ASSUME SubmissionsAssumption == IsFiniteSet(Submissions) /\ NoJob \notin Submissions
ASSUME WorkersAssumption == IsFiniteSet(Workers) /\ Daemons # {}
ASSUME DaemonOfAssumption == DaemonOf \in [Workers -> Daemons]
ASSUME MaxQueueDepthAssumption == MaxQueueDepth \in Nat \ {0}
ASSUME MaxInflightAssumption == MaxInflight \in Nat \ {0}
ASSUME MaxFaultsAssumption == MaxFaults \in Nat

VARIABLES
    handler,       \* progress of each submission's POST handler
    queue,         \* the Redis list, next to be popped first
    store,         \* status of each record, "ABSENT" when there is none
    wpc,           \* where each worker goroutine is
    job,           \* the job each worker holds
    daemon,        \* life-cycle state of each daemon
    interrupts,    \* SIGTERMs and crashes so far
    interrupted,   \* history: what each daemon held when it was told to stop
                   \* or died, and what it popped after it was told
    unanswered,    \* history: submissions with an LPUSH whose reply was lost
    repeats,       \* how many replies to an LPUSH were lost so far
    vanished,      \* history: submissions a BRPOP took whose reply was lost
    unchecked,     \* history: submissions let in because LLEN failed
    unsaved        \* history: submissions whose final record a worker with a
                   \* live context could not store

vars == <<handler, queue, store, wpc, job, daemon, interrupts, interrupted,
          unanswered, repeats, vanished, unchecked, unsaved>>
apiVars == <<handler>>
workerVars == <<wpc, job>>
daemonVars == <<daemon, interrupts>>
failures == <<unanswered, repeats, vanished, unchecked, unsaved>>

HandlerStates == {"idle", "checked", "saved", "enqueued", "accepted",
                  "refused", "failed"}
WorkerStates == {"select", "dequeue", "got", "running", "finished", "exited"}
DaemonStates == {"up", "cancelled", "stopping", "stopped", "crashed"}

\* Faults happen while the budget of the instance lasts.
FaultLeft ==
    interrupts + repeats + Cardinality(vanished) + Cardinality(unchecked)
               + Cardinality(unsaved) < MaxFaults

\* Handlers between the depth check and the LPUSH.
Inflight == {s \in Submissions : handler[s] \in {"checked", "saved"}}

Init ==
    /\ handler = [s \in Submissions |-> "idle"]
    /\ queue = <<>>
    /\ store = [s \in Submissions |-> "ABSENT"]
    /\ wpc = [w \in Workers |-> "select"]
    /\ job = [w \in Workers |-> NoJob]
    /\ daemon = [d \in Daemons |-> "up"]
    /\ interrupts = 0
    /\ interrupted = [d \in Daemons |-> {}]
    /\ unanswered = {}
    /\ repeats = 0
    /\ vanished = {}
    /\ unchecked = {}
    /\ unsaved = {}

-----------------------------------------------------------------------------
(* handleSubmissions.                                                      *)

Answer(s, state) == handler' = [handler EXCEPT ![s] = state]

\* 400: not JSON, no code, or an unknown language.
Reject(s) ==
    /\ handler[s] = "idle"
    /\ Answer(s, "refused")
    /\ UNCHANGED <<queue, store, workerVars, daemonVars, interrupted, failures>>

DepthOffByOne == Len(queue) > MaxQueueDepth     \* mutant

\* The backpressure test.
QueueFull == Len(queue) >= MaxQueueDepth

\* 429 with Retry-After.
Throttle(s) ==
    /\ handler[s] = "idle"
    /\ QueueFull
    /\ Answer(s, "refused")
    /\ UNCHANGED <<queue, store, workerVars, daemonVars, interrupted, failures>>

\* LLEN was below the limit when it was read; others may be past it too.
CheckDepth(s) ==
    /\ handler[s] = "idle"
    /\ Cardinality(Inflight) < MaxInflight
    /\ ~QueueFull
    /\ Answer(s, "checked")
    /\ UNCHANGED <<queue, store, workerVars, daemonVars, interrupted, failures>>

\* LLEN fails: the test is skipped and the request let through.
SkipDepthCheck(s) ==
    /\ handler[s] = "idle"
    /\ Cardinality(Inflight) < MaxInflight
    /\ FaultLeft
    /\ Answer(s, "checked")
    /\ unchecked' = unchecked \cup {s}
    /\ UNCHANGED <<queue, store, workerVars, daemonVars, interrupted,
                   unanswered, repeats, vanished, unsaved>>

SaveInitial(s) ==
    /\ handler[s] = "checked"
    /\ store' = [store EXCEPT ![s] = "QUEUED"]
    /\ Answer(s, "saved")
    /\ UNCHANGED <<queue, workerVars, daemonVars, interrupted, failures>>

\* 500: the client went away, which cancels the request's context, or Redis
\* refused the command.  What has been stored stays.
RequestFails(s) ==
    /\ handler[s] \in {"checked", "saved"}
    /\ Answer(s, "failed")
    /\ UNCHANGED <<queue, store, workerVars, daemonVars, interrupted, failures>>

Enqueue(s) ==
    /\ handler[s] = "saved"
    /\ queue' = Append(queue, s)
    /\ Answer(s, "enqueued")
    /\ UNCHANGED <<store, workerVars, daemonVars, interrupted, failures>>

\* The push takes effect and its reply is lost: the client library sends it
\* again (Enqueue, whose reply may be lost in turn) or the handler gives up
\* (RequestFails).  The library gives up after three repetitions; here only
\* the budget of faults ends them.
LosePushReply(s) ==
    /\ handler[s] = "saved"
    /\ FaultLeft
    /\ queue' = Append(queue, s)
    /\ unanswered' = unanswered \cup {s}
    /\ repeats' = repeats + 1
    /\ UNCHANGED <<apiVars, store, workerVars, daemonVars, interrupted,
                   vanished, unchecked, unsaved>>

LateSave(s) ==        \* mutant: the QUEUED record is stored after the push
    /\ handler[s] = "enqueued"
    /\ store' = [store EXCEPT ![s] = "QUEUED"]
    /\ Answer(s, "accepted")
    /\ UNCHANGED <<queue, workerVars, daemonVars, interrupted, failures>>

\* 202, once the QUEUED event has been published.
Accept(s) ==
    /\ handler[s] = "enqueued"
    /\ Answer(s, "accepted")
    /\ UNCHANGED <<queue, store, workerVars, daemonVars, interrupted, failures>>

-----------------------------------------------------------------------------
(* workerLoop.                                                             *)

\* The worker's context is live: its Redis commands take effect.
Alive(w) == daemon[DaemonOf[w]] = "up"

NeverStops(w) == FALSE        \* mutant: the loop ignores the cancellation

\* close(stopCh) comes after cancel, so the context alone decides.
StopRequested(w) == daemon[DaemonOf[w]] # "up"

Select(w) ==
    /\ wpc[w] = "select"
    /\ wpc' = [wpc EXCEPT ![w] = IF StopRequested(w) THEN "exited" ELSE "dequeue"]
    /\ UNCHANGED <<apiVars, queue, store, job, daemonVars, interrupted, failures>>

PeekDequeue(w) ==     \* mutant: the job is read but not removed from the list
    /\ wpc[w] = "dequeue"
    /\ queue # <<>>
    /\ job' = [job EXCEPT ![w] = Head(queue)]
    /\ wpc' = [wpc EXCEPT ![w] = "got"]
    /\ UNCHANGED <<apiVars, queue, store, daemonVars, interrupted, failures>>

\* BRPOP delivers.  A command already on the wire is not interrupted by the
\* cancellation, so a daemon that is shutting down can still pop a job.
Dequeue(w) ==
    /\ wpc[w] = "dequeue"
    /\ queue # <<>>
    /\ job' = [job EXCEPT ![w] = Head(queue)]
    /\ queue' = Tail(queue)
    /\ wpc' = [wpc EXCEPT ![w] = "got"]
    /\ interrupted' = [interrupted EXCEPT ![DaemonOf[w]] =
                          IF Alive(w) THEN @ ELSE @ \cup {Head(queue)}]
    /\ UNCHANGED <<apiVars, store, daemonVars, failures>>

\* BRPOP removes a job and its reply is lost with the connection, of a worker
\* (which logs the error and goes on) or of a daemon that is already dead.
LosePopReply(w) ==
    /\ wpc[w] = "dequeue" \/ daemon[DaemonOf[w]] = "crashed"
    /\ queue # <<>>
    /\ FaultLeft
    /\ queue' = Tail(queue)
    /\ vanished' = vanished \cup {Head(queue)}
    /\ wpc' = [wpc EXCEPT ![w] = IF @ = "dequeue" THEN "select" ELSE @]
    /\ UNCHANGED <<apiVars, store, job, daemonVars, interrupted,
                   unanswered, repeats, unchecked, unsaved>>

\* ErrQueueEmpty: PollTimeout elapsed on an empty list, or the context died.
DequeueEmpty(w) ==
    /\ wpc[w] = "dequeue"
    /\ queue = <<>> \/ ~Alive(w)
    /\ wpc' = [wpc EXCEPT ![w] = "select"]
    /\ UNCHANGED <<apiVars, queue, store, job, daemonVars, interrupted, failures>>

FailureUnsaved(w, status) ==        \* mutant: a failure is not recorded
    IF Alive(w) /\ status # "FAILED" THEN [store EXCEPT ![job[w]] = status]
                                     ELSE store

StatusOfLastEvent(w, status) ==     \* mutant: the last event's status is kept
    IF Alive(w) THEN [store EXCEPT ![job[w]] =
                        IF status = "COMPLETED" THEN "TESTCASE_PASSED" ELSE status]
                ELSE store

\* The record after a SaveState of ProcessJob that reached Redis.  With a
\* cancelled context it does not; the error is discarded.
Saved(w, status) ==
    IF Alive(w) THEN [store EXCEPT ![job[w]] = status] ELSE store

\* ProcessJob gets as far as its RUNNING record, stored or not.
Begin(w) ==
    /\ wpc[w] = "got"
    /\ store' \in {store, Saved(w, "RUNNING")}
    /\ wpc' = [wpc EXCEPT ![w] = "running"]
    /\ UNCHANGED <<apiVars, queue, job, daemonVars, interrupted, failures>>

\* failSubmission before that, or the panic handler at any time.
FailJob(w) ==
    /\ wpc[w] \in {"got", "running"}
    /\ store' = Saved(w, "FAILED")
    /\ wpc' = [wpc EXCEPT ![w] = "finished"]
    /\ UNCHANGED <<apiVars, queue, job, daemonVars, interrupted, failures>>

CompleteJob(w) ==
    /\ wpc[w] = "running"
    /\ store' = Saved(w, "COMPLETED")
    /\ wpc' = [wpc EXCEPT ![w] = "finished"]
    /\ UNCHANGED <<apiVars, queue, job, daemonVars, interrupted, failures>>

\* Either of them when the command fails although the context is live: the
\* error is discarded, and the outcome with it.
LoseOutcome(w) ==
    /\ wpc[w] \in {"got", "running"}
    /\ Alive(w)
    /\ FaultLeft
    /\ unsaved' = unsaved \cup {job[w]}
    /\ wpc' = [wpc EXCEPT ![w] = "finished"]
    /\ UNCHANGED <<apiVars, queue, store, job, daemonVars, interrupted,
                   unanswered, repeats, vanished, unchecked>>

\* The deferred Cleanup panics after the outcome was stored: the handler of the
\* panic stores FAILED.  When that write fails there is only the Return.
CleanupPanics(w) ==
    /\ wpc[w] = "finished"
    /\ store' = Saved(w, "FAILED")
    /\ job' = [job EXCEPT ![w] = NoJob]
    /\ wpc' = [wpc EXCEPT ![w] = "select"]
    /\ UNCHANGED <<apiVars, queue, daemonVars, interrupted, failures>>

\* ProcessJob announces the outcome, cleans up and returns to the loop.
Return(w) ==
    /\ wpc[w] = "finished"
    /\ job' = [job EXCEPT ![w] = NoJob]
    /\ wpc' = [wpc EXCEPT ![w] = "select"]
    /\ UNCHANGED <<apiVars, queue, store, daemonVars, interrupted, failures>>

-----------------------------------------------------------------------------
(* The daemon process around a pool.                                       *)

WorkersOf(d) == {w \in Workers : DaemonOf[w] = d}
Held(d) == {job[w] : w \in WorkersOf(d)} \ {NoJob}

\* SIGTERM: main cancels the context it gave to the pool ...
Cancel(d) ==
    /\ daemon[d] = "up"
    /\ FaultLeft
    /\ daemon' = [daemon EXCEPT ![d] = "cancelled"]
    /\ interrupts' = interrupts + 1
    /\ interrupted' = [interrupted EXCEPT ![d] = @ \cup Held(d)]
    /\ UNCHANGED <<apiVars, queue, store, workerVars, failures>>

\* ... then calls Stop, which closes stopCh ...
CloseStop(d) ==
    /\ daemon[d] = "cancelled"
    /\ daemon' = [daemon EXCEPT ![d] = "stopping"]
    /\ UNCHANGED <<apiVars, queue, store, workerVars, interrupts, interrupted, failures>>

\* ... and returns from wg.Wait when every worker has exited.
Stopped(d) ==
    /\ daemon[d] = "stopping"
    /\ \A w \in WorkersOf(d) : wpc[w] = "exited"
    /\ daemon' = [daemon EXCEPT ![d] = "stopped"]
    /\ UNCHANGED <<apiVars, queue, store, workerVars, interrupts, interrupted, failures>>

\* The process dies (killed, out of memory, host lost) with what it holds.
Crash(d) ==
    /\ daemon[d] \in {"up", "cancelled", "stopping"}
    /\ FaultLeft
    /\ daemon' = [daemon EXCEPT ![d] = "crashed"]
    /\ interrupts' = interrupts + 1
    /\ interrupted' = [interrupted EXCEPT ![d] = @ \cup Held(d)]
    /\ wpc' = [w \in Workers |-> IF DaemonOf[w] = d THEN "exited" ELSE wpc[w]]
    /\ job' = [w \in Workers |-> IF DaemonOf[w] = d THEN NoJob ELSE job[w]]
    /\ UNCHANGED <<apiVars, queue, store, failures>>

Restart(d) ==
    /\ daemon[d] \in {"stopped", "crashed"}
    /\ daemon' = [daemon EXCEPT ![d] = "up"]
    /\ wpc' = [w \in Workers |-> IF DaemonOf[w] = d THEN "select" ELSE wpc[w]]
    /\ UNCHANGED <<apiVars, queue, store, job, interrupts, interrupted, failures>>

-----------------------------------------------------------------------------
ApiStep(s) ==
    \/ Reject(s) \/ Throttle(s) \/ CheckDepth(s) \/ SkipDepthCheck(s)
    \/ SaveInitial(s) \/ RequestFails(s) \/ Enqueue(s) \/ Accept(s)

\* The loop outside ProcessJob, and ProcessJob.
LoopStep(w) == Select(w) \/ Dequeue(w) \/ DequeueEmpty(w)
ProcessJobStep(w) ==
    \/ Begin(w) \/ FailJob(w) \/ CompleteJob(w) \/ LoseOutcome(w)
    \/ CleanupPanics(w) \/ Return(w)

ShutdownStep(d) == CloseStop(d) \/ Stopped(d) \/ Restart(d)

Next ==
    \/ \E s \in Submissions : ApiStep(s) \/ LosePushReply(s)
    \/ \E w \in Workers : LoopStep(w) \/ ProcessJobStep(w) \/ LosePopReply(w)
    \/ \E d \in Daemons : Cancel(d) \/ Crash(d) \/ ShutdownStep(d)

\* Every goroutine keeps running and the orchestrator restarts a daemon that is
\* down.  Clients owe nothing, and nothing says that ProcessJob returns: a
\* submitted program can hold up the sandbox (Execution!HeldUp).
Spec ==
    /\ Init
    /\ [][Next]_vars
    /\ \A s \in Submissions : WF_vars(Accept(s))
    /\ \A w \in Workers : WF_vars(LoopStep(w))
    /\ \A d \in Daemons : WF_vars(ShutdownStep(d))

-----------------------------------------------------------------------------
(* Properties.                                                             *)

\* Every variable stays in its type.
TypeOK ==
    /\ handler \in [Submissions -> HandlerStates]
    /\ queue \in Seq(Submissions)
    /\ store \in [Submissions -> StoredStatus \cup {"ABSENT"}]
    /\ wpc \in [Workers -> WorkerStates]
    /\ job \in [Workers -> Submissions \cup {NoJob}]
    /\ daemon \in [Daemons -> DaemonStates]
    /\ interrupts \in 0 .. MaxFaults
    /\ interrupted \in [Daemons -> SUBSET Submissions]
    /\ repeats \in 0 .. MaxFaults
    /\ unanswered \in SUBSET Submissions
    /\ vanished \in SUBSET Submissions
    /\ unchecked \in SUBSET Submissions
    /\ unsaved \in SUBSET Submissions

Queued(s) == \E i \in 1 .. Len(queue) : queue[i] = s
OwnedBy(s, w) == job[w] = s
Owned(s) == \E w \in Workers : OwnedBy(s, w)
Interrupted(s) == \E d \in Daemons : s \in interrupted[d]

\* A submission is in one place: once in the list or with one worker, never
\* both, so that no submission is evaluated twice, whichever daemons stop,
\* crash and restart around it.  Only a push that had to be repeated because
\* its reply was lost makes an exception.
SingleOwner ==
    /\ \A i, j \in 1 .. Len(queue) :
          queue[i] = queue[j] => i = j \/ queue[i] \in unanswered
    /\ \A w \in Workers :
          job[w] # NoJob /\ Queued(job[w]) => job[w] \in unanswered
    /\ \A v, w \in Workers :
          job[v] # NoJob /\ job[v] = job[w] => v = w \/ job[v] \in unanswered

\* A submission that reached the list, whether or not its handler knows, is
\* never just forgotten: it waits, is being evaluated, has its final record, was
\* in the hands of an interrupted daemon or in a reply that was lost, or its
\* worker ignored that Redis refused the final record.
Enqueued(s) == handler[s] \in {"enqueued", "accepted"} \/ s \in unanswered
Evaluated(s) == \E w \in Workers : OwnedBy(s, w) /\ wpc[w] # "finished"
NoSilentLoss ==
    \A s \in Submissions :
        Enqueued(s) => \/ Queued(s)
                       \/ Evaluated(s)
                       \/ store[s] \in Terminal
                       \/ Interrupted(s)
                       \/ s \in vanished \cup unsaved

\* Each interruption costs at most one submission per worker of a daemon:
\* cancelling does not let the workers drain the list into the void, although a
\* pop on the wire can still take one job each.  A lost reply and a failed final
\* write cost at most the one job each is about.
Lost == {s \in Submissions : /\ Enqueued(s)
                             /\ ~Queued(s) /\ ~Owned(s)
                             /\ store[s] \notin Terminal}
LargestPool == Max({Cardinality(WorkersOf(d)) : d \in Daemons})
LossBounded ==
    Cardinality(Lost) <= LargestPool * interrupts + Cardinality(vanished)
                                                  + Cardinality(unsaved)

\* Checking the depth and pushing are separate commands, so more submissions can
\* wait than MaxQueueDepth, by less than the number of handlers in between; only
\* those let in by a failed LLEN come on top.  The bound is on what is waiting
\* now: neither a burst nor a failure loosens it for good.
Waiting == {s \in Submissions : Queued(s)}
QueueDepthBounded ==
    Cardinality(Waiting \ unchecked) <= MaxQueueDepth + MaxInflight - 1

\* The stored status of a submission only moves forward, although none of its
\* writers looks at the record first; a final record is replaced only by the
\* FAILED of a panic in Cleanup.  A submission that was pushed twice can be
\* evaluated twice and is the exception.
Rank(status) ==
    CASE status = "ABSENT" -> 0
      [] status = "QUEUED" -> 1
      [] status = "RUNNING" -> 2
      [] status = "COMPLETED" -> 3
      [] OTHER -> 4
StatusNeverRegresses ==
    [][\A s \in Submissions \ unanswered :
          store'[s] # store[s] => Rank(store[s]) < Rank(store'[s])]_vars

\* Provided that every evaluation comes back, whatever a client was promised with
\* a 202 is eventually decided, unless a daemon was interrupted while it held the
\* submission, the reply that carried it was lost, or Redis refused its final
\* record.
InProcessJob(w) == wpc[w] \in {"got", "running", "finished"}
EvaluationsComeBack == \A w \in Workers : []<>~InProcessJob(w)
AcceptedIsDecided ==
    EvaluationsComeBack =>
        \A s \in Submissions :
            handler[s] = "accepted"
                ~> \/ store[s] \in Terminal
                   \/ Interrupted(s)
                   \/ s \in vanished \cup unsaved

\* pool.go:120, Stop "waits for in-flight jobs to complete": when a daemon has
\* stopped, what it had in flight when the signal came has its final record.
GracefulStop ==
    \A d \in Daemons :
        daemon[d] = "stopped" => \A s \in interrupted[d] : store[s] \in Terminal
=============================================================================

----------------------------- MODULE Standalone -----------------------------
(***************************************************************************)
(* The standalone gateway: cmd/api without Redis, one process with the     *)
(* HTTP server, the in-memory queue and store, and an embedded worker      *)
(* pool.                                                                   *)
(*                                                                         *)
(*   handler  one POST /api/v1/submissions per submission                  *)
(*            (Server.handleSubmissions, pkg/api/server.go)                *)
(*   ch       MemoryQueue: a buffered channel and a closed flag, which     *)
(*            Enqueue checks under a lock it gives back before it sends    *)
(*   store    MemoryStore: the status of every submission's record         *)
(*   worker   WorkerPool.workerLoop with ProcessJob reduced to its writes  *)
(*   main     cmd/api main: serve until a signal, Shutdown the server (for *)
(*            at most 5 seconds), close queue, bus and store, and only     *)
(*            then, as a deferred call, stop the pool and wait for it      *)
(*                                                                         *)
(* The context given to the pool is cancelled after all that, so workers   *)
(* never see it cancelled.                                                 *)
(***************************************************************************)
EXTENDS Vocabulary, Naturals, Sequences, FiniteSets, SequencesExt

CONSTANTS
    Submissions,      \* the requests that clients send
    Workers,          \* goroutines of the embedded pool
    NoJob,            \* "this worker holds no job"
    MaxQueueDepth,    \* ServerConfig.MaxQueueDepth (500)
    Capacity          \* of the queue's channel (1000)

ASSUME StandaloneAssumption ==
    /\ IsFiniteSet(Submissions) /\ IsFiniteSet(Workers) /\ NoJob \notin Submissions
    /\ MaxQueueDepth \in Nat \ {0} /\ Capacity \in Nat \ {0}

VARIABLES
    handler,    \* progress of each submission's POST handler
    ch,         \* m.ch, next job first
    closed,     \* m.closed, and with it the channel
    store,      \* status of each record, "ABSENT" when there is none
    wpc,        \* where each worker goroutine is
    job,        \* the job each worker holds
    active,     \* p.activeJobs
    stopCh,     \* p.stopCh has been closed
    main,       \* where cmd/api main is
    timedOut,   \* history: Shutdown gave up waiting for handlers
    decided     \* history: submissions whose final record was written

handlers == <<handler>>
queueVars == <<ch, closed>>
pool == <<wpc, job, active, stopCh>>
mainVars == <<main, timedOut>>
vars == <<handlers, queueVars, store, pool, mainVars, decided>>

HandlerStates == {"idle", "reading", "checked", "saved", "sending", "enqueued",
                  "accepted", "refused", "failed", "panicked"}
WorkerStates == {"select", "dequeue", "got", "running", "finished", "exited"}
MainStates == {"serving", "shutdown", "closeQueue", "closeBus", "closeStore",
               "stopPool", "wait", "exited"}

\* The process exists.
Running == main # "exited"
\* The server still takes new requests.
Listening == main = "serving"

Init ==
    /\ handler = [s \in Submissions |-> "idle"]
    /\ ch = <<>>
    /\ closed = FALSE
    /\ store = [s \in Submissions |-> "ABSENT"]
    /\ wpc = [w \in Workers |-> "select"]
    /\ job = [w \in Workers |-> NoJob]
    /\ active = 0
    /\ stopCh = FALSE
    /\ main = "serving"
    /\ timedOut = FALSE
    /\ decided = {}

-----------------------------------------------------------------------------
(* handleSubmissions on the in-memory queue and store.                     *)

Goes(s, state) == handler' = [handler EXCEPT ![s] = state]

\* The request is taken by a handler, which reads and decodes its body.  One
\* that has begun before the signal goes on after it.
Arrive(s) ==
    /\ Listening
    /\ handler[s] = "idle"
    /\ Goes(s, "reading")
    /\ UNCHANGED <<queueVars, store, pool, mainVars, decided>>

\* 400 for a bad request, or 429 when QueueDepth is at its limit.
Refuse(s) ==
    /\ Running
    /\ handler[s] = "reading"
    /\ Goes(s, "refused")
    /\ UNCHANGED <<queueVars, store, pool, mainVars, decided>>

CheckDepth(s) ==
    /\ Running
    /\ handler[s] = "reading"
    /\ Len(ch) < MaxQueueDepth
    /\ Goes(s, "checked")
    /\ UNCHANGED <<queueVars, store, pool, mainVars, decided>>

SaveInitial(s) ==
    /\ Running
    /\ handler[s] = "checked"
    /\ store' = [store EXCEPT ![s] = "QUEUED"]
    /\ Goes(s, "saved")
    /\ UNCHANGED <<queueVars, pool, mainVars, decided>>

\* Enqueue looks at m.closed under the read lock, and unlocks.
CheckClosed(s) ==
    /\ Running
    /\ handler[s] = "saved"
    /\ Goes(s, IF closed THEN "failed" ELSE "sending")
    /\ UNCHANGED <<queueVars, store, pool, mainVars, decided>>

RetriesFull(s) ==        \* mutant: a full channel only fails this attempt,
    /\ Running           \* and another goroutine sends the job anyway
    /\ handler[s] = "sending"
    /\ IF closed THEN Goes(s, "panicked") /\ UNCHANGED ch
       ELSE /\ Goes(s, IF Len(ch) < Capacity THEN "enqueued" ELSE "failed")
            /\ ch' = Append(ch, s)
    /\ UNCHANGED <<closed, store, pool, mainVars, decided>>

\* The select of Enqueue: the send, which panics on a closed channel, or
\* ErrBackpressureExceeded when the channel is full.  net/http recovers the
\* panic and drops the connection.
Send(s) ==
    /\ Running
    /\ handler[s] = "sending"
    /\ IF closed THEN Goes(s, "panicked") /\ UNCHANGED ch
       ELSE IF Len(ch) < Capacity THEN Goes(s, "enqueued") /\ ch' = Append(ch, s)
       ELSE Goes(s, "failed") /\ UNCHANGED ch
    /\ UNCHANGED <<closed, store, pool, mainVars, decided>>

\* The same select when the client is gone: ctx.Done.
ClientGone(s) ==
    /\ Running
    /\ handler[s] = "sending"
    /\ Goes(s, "failed")
    /\ UNCHANGED <<queueVars, store, pool, mainVars, decided>>

\* 202, once the QUEUED event has been published.
Accept(s) ==
    /\ Running
    /\ handler[s] = "enqueued"
    /\ Goes(s, "accepted")
    /\ UNCHANGED <<queueVars, store, pool, mainVars, decided>>

-----------------------------------------------------------------------------
(* workerLoop.                                                             *)

Moves(w, where) == wpc' = [wpc EXCEPT ![w] = where]

Select(w) ==
    /\ Running
    /\ wpc[w] = "select"
    /\ Moves(w, IF stopCh THEN "exited" ELSE "dequeue")
    /\ UNCHANGED <<handlers, queueVars, store, job, active, stopCh, mainVars,
                   decided>>

TakesNewest(w) ==        \* mutant: the job pushed last is taken first
    /\ Running
    /\ wpc[w] = "dequeue"
    /\ ch # <<>>
    /\ job' = [job EXCEPT ![w] = Last(ch)]
    /\ ch' = Front(ch)
    /\ Moves(w, "got")
    /\ UNCHANGED <<handlers, closed, store, active, stopCh, mainVars, decided>>

\* Dequeue receives; a closed channel still delivers what it buffers.
Dequeue(w) ==
    /\ Running
    /\ wpc[w] = "dequeue"
    /\ ch # <<>>
    /\ job' = [job EXCEPT ![w] = Head(ch)]
    /\ ch' = Tail(ch)
    /\ Moves(w, "got")
    /\ UNCHANGED <<handlers, closed, store, active, stopCh, mainVars, decided>>

\* ErrQueueEmpty: the timer fired, and the select may prefer it to a channel
\* that is ready.  Round the loop again.
DequeueTimeout(w) ==
    /\ Running
    /\ wpc[w] = "dequeue"
    /\ Moves(w, "select")
    /\ UNCHANGED <<handlers, queueVars, store, job, active, stopCh, mainVars,
                   decided>>

\* ErrQueueClosed, once the channel is drained, ends the worker.
DequeueClosed(w) ==
    /\ Running
    /\ wpc[w] = "dequeue"
    /\ closed /\ ch = <<>>
    /\ Moves(w, "exited")
    /\ UNCHANGED <<handlers, queueVars, store, job, active, stopCh, mainVars,
                   decided>>

\* The counter goes up and ProcessJob gets as far as its RUNNING record.
Begin(w) ==
    /\ Running
    /\ wpc[w] = "got"
    /\ active' = active + 1
    /\ store' = [store EXCEPT ![job[w]] = "RUNNING"]
    /\ Moves(w, "running")
    /\ UNCHANGED <<handlers, queueVars, job, stopCh, mainVars, decided>>

\* ProcessJob stores its final record (in failSubmission also from "got", which
\* is the same for what is modelled here).
Finish(w) ==
    /\ Running
    /\ wpc[w] = "running"
    /\ \E final \in Terminal : store' = [store EXCEPT ![job[w]] = final]
    /\ decided' = decided \cup {job[w]}
    /\ Moves(w, "finished")
    /\ UNCHANGED <<handlers, queueVars, job, active, stopCh, mainVars>>

CountedDown == active - 1

Return(w) ==
    /\ Running
    /\ wpc[w] = "finished"
    /\ active' = CountedDown
    /\ job' = [job EXCEPT ![w] = NoJob]
    /\ Moves(w, "select")
    /\ UNCHANGED <<handlers, queueVars, store, stopCh, mainVars, decided>>

\* The deferred Cleanup of ProcessJob panics after the final record: the handler
\* of the panic stores FAILED over it, and ProcessJob returns.
CleanupPanics(w) ==
    /\ Running
    /\ wpc[w] = "finished"
    /\ active' = CountedDown
    /\ store' = [store EXCEPT ![job[w]] = "FAILED"]
    /\ job' = [job EXCEPT ![w] = NoJob]
    /\ Moves(w, "select")
    /\ UNCHANGED <<handlers, queueVars, stopCh, mainVars, decided>>

-----------------------------------------------------------------------------
(* cmd/api main after the signal, call by call.                            *)

Signal ==
    /\ main = "serving"
    /\ main' = "shutdown"
    /\ UNCHANGED <<handlers, queueVars, store, pool, timedOut, decided>>

Answered == {"idle", "accepted", "refused", "failed", "panicked"}
HandlersDone == \A s \in Submissions : handler[s] \in Answered

WaitsForHandlers ==      \* mutant: Shutdown without a deadline
    /\ main = "shutdown"
    /\ HandlersDone
    /\ main' = "closeQueue"
    /\ UNCHANGED <<handlers, queueVars, store, pool, timedOut, decided>>

DoesNotWait ==           \* mutant: the server is closed, not shut down
    /\ main = "shutdown"
    /\ main' = "closeQueue"
    /\ UNCHANGED <<handlers, queueVars, store, pool, timedOut, decided>>

\* srv.Shutdown comes back when no handler is running, or after 5 seconds.
ShutdownReturns ==
    /\ main = "shutdown"
    /\ main' = "closeQueue"
    /\ timedOut' = ~HandlersDone
    /\ UNCHANGED <<handlers, queueVars, store, pool, decided>>

CloseQueue ==
    /\ main = "closeQueue"
    /\ closed' = TRUE
    /\ main' = "closeBus"
    /\ UNCHANGED <<handlers, ch, store, pool, timedOut, decided>>

\* bus.Close; what it does to publishers and handlers is LiveStream's subject.
CloseBus ==
    /\ main = "closeBus"
    /\ main' = "closeStore"
    /\ UNCHANGED <<handlers, queueVars, store, pool, timedOut, decided>>

\* st.Close drops every record; writes that come later go to the new map.
CloseStore ==
    /\ main = "closeStore"
    /\ store' = [s \in Submissions |-> "ABSENT"]
    /\ main' = "stopPool"
    /\ UNCHANGED <<handlers, queueVars, pool, timedOut, decided>>

\* The deferred pool.Stop closes stopCh ...
StopPool ==
    /\ main = "stopPool"
    /\ stopCh' = TRUE
    /\ main' = "wait"
    /\ UNCHANGED <<handlers, queueVars, store, wpc, job, active, timedOut,
                   decided>>

NoWaitGroup == main = "wait"     \* mutant: Stop returns at once

\* ... and wg.Wait comes back when every worker has exited.
PoolStopped == main = "wait" /\ \A w \in Workers : wpc[w] = "exited"

Exit ==
    /\ PoolStopped
    /\ main' = "exited"
    /\ UNCHANGED <<handlers, queueVars, store, pool, timedOut, decided>>

-----------------------------------------------------------------------------
HandlerStep(s) ==
    \/ Arrive(s) \/ Refuse(s) \/ CheckDepth(s) \/ SaveInitial(s)
    \/ CheckClosed(s) \/ Send(s) \/ ClientGone(s) \/ Accept(s)

\* The loop outside ProcessJob, and ProcessJob.
LoopStep(w) == Select(w) \/ Dequeue(w) \/ DequeueTimeout(w) \/ DequeueClosed(w)
ProcessJobStep(w) == Begin(w) \/ Finish(w) \/ CleanupPanics(w) \/ Return(w)

MainStep ==
    \/ ShutdownReturns \/ CloseQueue \/ CloseBus \/ CloseStore \/ StopPool \/ Exit

Next ==
    \/ \E s \in Submissions : HandlerStep(s)
    \/ \E w \in Workers : LoopStep(w) \/ ProcessJobStep(w)
    \/ Signal \/ MainStep

\* The loops of the workers and main keep running.  A handler may hang on its
\* client, ProcessJob on a submitted program (Execution!HeldUp), and the signal
\* need not come.
Spec ==
    /\ Init
    /\ [][Next]_vars
    /\ \A w \in Workers : WF_vars(LoopStep(w))
    /\ WF_vars(MainStep)

-----------------------------------------------------------------------------
(* Properties.                                                             *)

\* Every variable stays in its type; the counter of active jobs stays between
\* 0 and the size of the pool.
TypeOK ==
    /\ handler \in [Submissions -> HandlerStates]
    /\ ch \in Seq(Submissions) /\ Len(ch) <= Capacity
    /\ closed \in BOOLEAN
    /\ store \in [Submissions -> StoredStatus \cup {"ABSENT"}]
    /\ wpc \in [Workers -> WorkerStates]
    /\ job \in [Workers -> Submissions \cup {NoJob}]
    /\ active \in 0 .. Cardinality(Workers)
    /\ stopCh \in BOOLEAN
    /\ main \in MainStates
    /\ timedOut \in BOOLEAN
    /\ decided \in SUBSET Submissions

Enqueued(s) == handler[s] \in {"enqueued", "accepted"}
Waiting(s) == {i \in 1 .. Len(ch) : ch[i] = s}
Owners(s) == {w \in Workers : job[w] = s /\ wpc[w] # "finished"}

\* Through full channels, clients that go away, the drain of the closed queue
\* and the stop of the pool, an enqueued submission is in exactly one place: in
\* the channel, with a worker, or decided.  One whose client was told 500, or
\* whose handler panicked, is in none.  The record of a decided submission is
\* final, although neither writer looks at it first, or went with the closed
\* store.
ExactlyOnePlace ==
    \A s \in Submissions :
        /\ Cardinality(Waiting(s)) + Cardinality(Owners(s))
              + (IF s \in decided THEN 1 ELSE 0) = IF Enqueued(s) THEN 1 ELSE 0
        /\ s \in decided => \/ store[s] \in Terminal
                            \/ main \in {"stopPool", "wait", "exited"}

\* Enqueue gives its lock back before it sends, so Close can come in between and
\* the send panic; main keeps that from happening by shutting the server down
\* first, except when Shutdown gives up on a handler.
PanicOnlyAfterTimeout ==
    (\E s \in Submissions : handler[s] = "panicked") => timedOut

\* pool.go:120, Stop "waits for in-flight jobs to complete": in the standalone
\* process it does, although queue, bus and store are closed before it is
\* called: what a worker took is decided when the process ends, and the
\* counter of active jobs is back at 0.
InFlightCompletes ==
    main = "exited" =>
        /\ \A s \in Submissions :
              Enqueued(s) => s \in decided \/ Contains(ch, s)
        /\ active = 0

\* The channel with its closed flag is the FIFO queue of module JobQueue.
Queue == INSTANCE JobQueue WITH
    Jobs <- Submissions, items <- ch, open <- ~closed
ImplementsQueue == Queue!Spec

\* Once the signal came the process ends, although a handler may never answer
\* its client, provided that every evaluation comes back: wg.Wait has no
\* deadline, so one that a submitted program holds up keeps the process alive.
EvaluationsComeBack ==
    \A w \in Workers : []<>(wpc[w] \notin {"got", "running", "finished"})
ShutdownEnds == EvaluationsComeBack => (main = "shutdown" ~> main = "exited")
=============================================================================

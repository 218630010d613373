---------------------------- MODULE ClusterProofs ---------------------------
(***************************************************************************)
(* Proofs about Cluster, for any submissions, workers and daemons and any  *)
(* number of interruptions, lost replies and failed commands.              *)
(***************************************************************************)
EXTENDS Cluster, FiniteSetTheorems, SequenceTheorems, WellFoundedInduction, TLAPS

USE SubmissionsAssumption, DaemonOfAssumption, MaxQueueDepthAssumption,
    MaxInflightAssumption, MaxFaultsAssumption
    DEF Answer, apiVars, workerVars, daemonVars, failures

-----------------------------------------------------------------------------
(* Type correctness.                                                       *)

\* TypeOK holds initially.
LEMMA InitTypeOK == Init => TypeOK
BY EmptySeq DEF Init, TypeOK, HandlerStates, StoredStatus, WorkerStates, DaemonStates

\* What a daemon holds are submissions.
LEMMA HeldType ==
    ASSUME TypeOK, NEW d \in Daemons
    PROVE  Held(d) \in SUBSET Submissions
BY DEF TypeOK, Held, WorkersOf

\* The next job is a submission and the rest of the list is a list.
LEMMA HeadTail ==
    ASSUME NEW S, NEW q \in Seq(S), q # <<>>
    PROVE  Head(q) \in S /\ Tail(q) \in Seq(S)
BY HeadTailProperties

\* A fault that the budget allows keeps the counts of faults in range.
LEMMA FaultBudget ==
    ASSUME TypeOK, FaultLeft
    PROVE  interrupts + 1 \in 0 .. MaxFaults /\ repeats + 1 \in 0 .. MaxFaults
<1>1. /\ Cardinality(vanished) \in Nat /\ Cardinality(unchecked) \in Nat
      /\ Cardinality(unsaved) \in Nat
  BY FS_Subset, FS_CardinalityType DEF TypeOK
<1> QED BY <1>1 DEF TypeOK, FaultLeft

\* A write of ProcessJob keeps the type of the store.
LEMMA SavedType ==
    ASSUME TypeOK, NEW w \in Workers, job[w] \in Submissions,
           NEW status \in StoredStatus
    PROVE  Saved(w, status) \in [Submissions -> StoredStatus \cup {"ABSENT"}]
BY DEF TypeOK, Saved

\* A worker that evaluates holds a job, one that does not holds none.
Busy == {"got", "running", "finished"}
Holding == \A w \in Workers : job[w] # NoJob <=> wpc[w] \in Busy

\* The workers of a daemon that is down have exited.
Down ==
    \A d \in Daemons : daemon[d] \in {"stopped", "crashed"} =>
        \A w \in Workers : DaemonOf[w] = d => wpc[w] = "exited"

TypeInv == TypeOK /\ Holding /\ Down

\* A step of a worker goroutine.
WorkerStep(w) == LoopStep(w) \/ ProcessJobStep(w)

\* The step in which ProcessJob starts, ends or fails.
Write(w) == Begin(w) \/ FailJob(w) \/ CompleteJob(w) \/ LoseOutcome(w)

\* What such a step does to its own worker and to the record of its job.
LEMMA WriteEffect ==
    ASSUME TypeInv, NEW w \in Workers, Write(w)
    PROVE  \E status \in {"RUNNING", "FAILED", "COMPLETED"},
              state \in {"running", "finished"} :
              /\ store' \in {store, Saved(w, status)}
              /\ wpc' = [wpc EXCEPT ![w] = state]
              /\ state = "running" => wpc[w] = "got" /\ status = "RUNNING"
              /\ state = "finished" =>
                    /\ status \in Terminal
                    /\ \/ store' = Saved(w, status)
                       \/ job[w] \in unsaved'
<1>1. job[w] \in Submissions
  BY DEF Write, Begin, FailJob, CompleteJob, LoseOutcome, TypeInv, TypeOK, Holding, Busy
<1>2. CASE Begin(w)
  BY <1>2 DEF Begin
<1>3. CASE FailJob(w) \/ CompleteJob(w)
  BY <1>3 DEF FailJob, CompleteJob, Terminal
<1>4. CASE LoseOutcome(w)
  BY <1>1, <1>4 DEF LoseOutcome, Terminal
<1> QED BY <1>2, <1>3, <1>4 DEF Write

\* What it leaves alone.
LEMMA WriteFrame ==
    ASSUME TypeInv, NEW w \in Workers, Write(w)
    PROVE  /\ UNCHANGED <<handler, queue, job, daemon, interrupts, interrupted,
                          unanswered, repeats, vanished, unchecked>>
           /\ wpc[w] \in {"got", "running"} /\ wpc[w] \in Busy
           /\ job[w] \in Submissions
           /\ unsaved \subseteq unsaved' /\ unsaved' \subseteq unsaved \cup {job[w]}
BY DEF Write, Begin, FailJob, CompleteJob, LoseOutcome, TypeInv, TypeOK, Holding, Busy

\* TypeInv is preserved by every step.
LEMMA NextTypeInv == TypeInv /\ [Next]_vars => TypeInv'
<1> SUFFICES ASSUME TypeInv, [Next]_vars PROVE TypeInv'
  OBVIOUS
<1> USE DEF TypeInv, HandlerStates, WorkerStates, DaemonStates
<1>1. ASSUME NEW s \in Submissions, ApiStep(s) PROVE TypeInv'
  <2>1. /\ UNCHANGED <<wpc, job, daemon, interrupts, interrupted, unanswered,
                       repeats, vanished, unsaved>>
        /\ unchecked' \in SUBSET Submissions
    BY <1>1 DEF ApiStep, Reject, Throttle, CheckDepth, SkipDepthCheck, SaveInitial,
                RequestFails, Enqueue, Accept, TypeOK
  <2>2. handler' \in [Submissions -> HandlerStates]
    <3>1. \E state \in HandlerStates : handler' = [handler EXCEPT ![s] = state]
      BY <1>1 DEF ApiStep, Reject, Throttle, CheckDepth, SkipDepthCheck, SaveInitial,
                  RequestFails, Enqueue, Accept
    <3> QED BY <3>1 DEF TypeOK
  <2>3. store' \in [Submissions -> StoredStatus \cup {"ABSENT"}]
    BY <1>1 DEF ApiStep, Reject, Throttle, CheckDepth, SkipDepthCheck, SaveInitial,
                RequestFails, Enqueue, Accept, TypeOK, StoredStatus
  <2>4. queue' \in Seq(Submissions)
    BY <1>1, AppendProperties
       DEF ApiStep, Reject, Throttle, CheckDepth, SkipDepthCheck, SaveInitial,
           RequestFails, Enqueue, Accept, TypeOK
  <2> QED BY <2>1, <2>2, <2>3, <2>4 DEF TypeOK, Holding, Down
<1>2. ASSUME NEW w \in Workers, WorkerStep(w) PROVE TypeInv'
  <2>1. CASE Select(w)
    BY <2>1 DEF Select, TypeOK, Holding, Down, Busy
  <2>2. CASE Dequeue(w)
    <3>1. Head(queue) \in Submissions /\ Tail(queue) \in Seq(Submissions)
      BY <2>2, HeadTail DEF Dequeue, TypeOK
    <3>2. job' \in [Workers -> Submissions \cup {NoJob}] /\ job'[w] \in Submissions
      BY <2>2, <3>1 DEF Dequeue, TypeOK
    <3>3. interrupted' \in [Daemons -> SUBSET Submissions]
      BY <2>2, <3>1 DEF Dequeue, TypeOK
    <3>4. TypeOK'
      BY <2>2, <3>1, <3>2, <3>3 DEF Dequeue, TypeOK
    <3>5. Holding' /\ Down'
      BY <2>2, <3>2 DEF Dequeue, TypeOK, Holding, Down, Busy
    <3> QED BY <3>4, <3>5
  <2>3. CASE DequeueEmpty(w)
    BY <2>3 DEF DequeueEmpty, TypeOK, Holding, Down, Busy
  <2>4. CASE Write(w)
    <3>1. /\ UNCHANGED <<handler, queue, job, daemon, interrupts, interrupted,
                         unanswered, repeats, vanished, unchecked>>
          /\ wpc[w] \in {"got", "running"} /\ job[w] \in Submissions
          /\ unsaved' \in SUBSET Submissions
      BY <2>4, WriteFrame DEF TypeOK
    <3>2. PICK status \in {"RUNNING", "FAILED", "COMPLETED"},
               state \in {"running", "finished"} :
             store' \in {store, Saved(w, status)} /\ wpc' = [wpc EXCEPT ![w] = state]
      BY <2>4, WriteEffect
    <3>3. store' \in [Submissions -> StoredStatus \cup {"ABSENT"}]
      BY <3>1, <3>2, SavedType DEF TypeOK, StoredStatus, Terminal
    <3>4. Holding' /\ Down'
      BY <3>1, <3>2 DEF TypeOK, Holding, Down, Busy
    <3> QED BY <3>1, <3>2, <3>3, <3>4 DEF TypeOK
  <2>5. CASE Return(w) \/ CleanupPanics(w)
    <3>1. job[w] \in Submissions
      BY <2>5 DEF Return, CleanupPanics, TypeOK, Holding, Busy
    <3>2. store' \in [Submissions -> StoredStatus \cup {"ABSENT"}]
      BY <2>5, <3>1, SavedType
         DEF Return, CleanupPanics, StoredStatus, Terminal, TypeOK
    <3> QED BY <2>5, <3>2 DEF Return, CleanupPanics, TypeOK, Holding, Down, Busy
  <2> QED BY <1>2, <2>1, <2>2, <2>3, <2>4, <2>5 DEF Write, WorkerStep, LoopStep, ProcessJobStep
<1>3. ASSUME NEW d \in Daemons, Cancel(d) \/ Crash(d) \/ ShutdownStep(d)
      PROVE  TypeInv'
  <2>1. CASE Cancel(d)
    BY <2>1, HeldType, FaultBudget DEF Cancel, TypeOK, Holding, Down
  <2>2. CASE Crash(d)
    BY <2>2, HeldType, FaultBudget DEF Crash, TypeOK, Holding, Down, Busy
  <2>3. CASE CloseStop(d) \/ Stopped(d)
    <3>1. /\ UNCHANGED <<handler, queue, store, wpc, job, interrupts, interrupted,
                         unanswered, repeats, vanished, unchecked, unsaved>>
          /\ daemon' \in [Daemons -> DaemonStates]
      BY <2>3 DEF CloseStop, Stopped, TypeOK
    <3>2. Down'
      BY <2>3 DEF CloseStop, Stopped, WorkersOf, TypeOK, Down
    <3> QED BY <3>1, <3>2 DEF TypeOK, Holding
  <2>4. CASE Restart(d)
    BY <2>4 DEF Restart, TypeOK, Holding, Down, Busy
  <2> QED BY <1>3, <2>1, <2>2, <2>3, <2>4 DEF ShutdownStep
<1>4. ASSUME NEW s \in Submissions, LosePushReply(s) PROVE TypeInv'
  <2>1. queue' \in Seq(Submissions)
    BY <1>4, AppendProperties DEF LosePushReply, TypeOK
  <2> QED BY <1>4, <2>1, FaultBudget DEF LosePushReply, TypeOK, Holding, Down
<1>5. ASSUME NEW w \in Workers, LosePopReply(w) PROVE TypeInv'
  <2>1. Head(queue) \in Submissions /\ Tail(queue) \in Seq(Submissions)
    BY <1>5, HeadTail DEF LosePopReply, TypeOK
  <2>2. wpc' \in [Workers -> WorkerStates]
    BY <1>5 DEF LosePopReply, TypeOK
  <2>3. TypeOK'
    BY <1>5, <2>1, <2>2 DEF LosePopReply, TypeOK
  <2>4. Holding' /\ Down'
    BY <1>5 DEF LosePopReply, TypeOK, Holding, Down, Busy
  <2> QED BY <2>3, <2>4
<1>6. CASE UNCHANGED vars
  BY <1>6 DEF vars, TypeOK, Holding, Down
<1> QED BY <1>1, <1>2, <1>3, <1>4, <1>5, <1>6 DEF Next, WorkerStep

\* TypeInv holds initially.
LEMMA InitTypeInv == Init => TypeInv
BY InitTypeOK DEF Init, TypeInv, Holding, Down, Busy

\* Every variable of the cluster keeps its type.
THEOREM TypeCorrect == Spec => []TypeOK
<1>1. TypeInv => TypeOK
  BY DEF TypeInv
<1> QED BY <1>1, InitTypeInv, NextTypeInv, PTL DEF Spec

-----------------------------------------------------------------------------
(* Ownership: a submission is in one place, and nowhere before LPUSH.      *)

\* No submission is queued or owned before it was pushed.
Fresh == \A s \in Submissions : ~Enqueued(s) => ~Queued(s) /\ ~Owned(s)

OwnerInv == TypeInv /\ SingleOwner /\ Fresh

\* The list holds each submission once, but for those in X.
OnceBut(q, X) ==
    \A i, j \in 1 .. Len(q) : q[i] = q[j] => i = j \/ q[i] \in X

\* LPUSH adds exactly the submission it pushes.
LEMMA PushEffect ==
    ASSUME NEW s \in Submissions, queue \in Seq(Submissions),
           queue' = Append(queue, s), NEW X
    PROVE  /\ \A t : Queued(t)' <=> Queued(t) \/ t = s
           /\ OnceBut(queue, X) /\ (~Queued(s) \/ s \in X) => OnceBut(queue', X)
<1>1. /\ Len(queue') = Len(queue) + 1
      /\ queue'[Len(queue) + 1] = s
      /\ \A i \in 1 .. Len(queue) : queue'[i] = queue[i]
      /\ Len(queue) \in Nat
  BY AppendProperties, LenProperties
<1>2. \A i : i \in 1 .. Len(queue') <=> i \in 1 .. Len(queue) \/ i = Len(queue) + 1
  BY <1>1
<1>3. \A t : Queued(t)' <=> Queued(t) \/ t = s
  BY <1>1, <1>2 DEF Queued
<1>4. ASSUME OnceBut(queue, X), ~Queued(s) \/ s \in X PROVE OnceBut(queue', X)
  <2> SUFFICES ASSUME NEW i \in 1 .. Len(queue'), NEW j \in 1 .. Len(queue'),
                      queue'[i] = queue'[j], i # j
               PROVE  queue'[i] \in X
    BY DEF OnceBut
  <2>1. CASE i \in 1 .. Len(queue) /\ j \in 1 .. Len(queue)
    BY <1>1, <1>4, <2>1 DEF OnceBut
  <2>2. CASE i = Len(queue) + 1 \/ j = Len(queue) + 1
    BY <1>1, <1>2, <1>4, <2>2 DEF Queued
  <2> QED BY <1>2, <2>1, <2>2
<1> QED BY <1>3, <1>4

\* Positions of the list before and after BRPOP.
LEMMA PopPositions ==
    ASSUME queue \in Seq(Submissions), queue # <<>>, queue' = Tail(queue)
    PROVE  /\ Head(queue) = queue[1] /\ 1 \in 1 .. Len(queue)
           /\ \A i \in 1 .. Len(queue') : /\ queue'[i] = queue[i + 1]
                                          /\ i + 1 \in 1 .. Len(queue)
                                          /\ i + 1 # 1 /\ i \in Nat
           /\ \A i \in 1 .. Len(queue) :
                 i # 1 => i - 1 \in 1 .. Len(queue') /\ queue'[i - 1] = queue[i]
<1>1. /\ Len(queue) \in Nat \ {0}
      /\ Len(queue') = Len(queue) - 1
      /\ Head(queue) = queue[1]
      /\ \A i \in 1 .. Len(queue') : queue'[i] = queue[i + 1]
  BY HeadTailProperties, LenProperties, EmptySeq
<1>2. \A i \in 1 .. Len(queue) : i # 1 => i - 1 \in 1 .. Len(queue') /\ (i - 1) + 1 = i
  BY <1>1
<1>3. \A i \in 1 .. Len(queue') : i + 1 \in 1 .. Len(queue) /\ i + 1 # 1 /\ i \in Nat
  BY <1>1
<1>4. 1 \in 1 .. Len(queue)
  BY <1>1
<1>5. \A i \in 1 .. Len(queue) : i # 1 => queue'[i - 1] = queue[i]
  BY <1>1, <1>2
<1> QED BY <1>1, <1>2, <1>3, <1>4, <1>5

\* BRPOP removes the job it returns, or one copy of it, and nothing else.
LEMMA PopEffect ==
    ASSUME queue \in Seq(Submissions), queue # <<>>, queue' = Tail(queue)
    PROVE  /\ Queued(Head(queue))
           /\ \A t : Queued(t)' => Queued(t)
           /\ \A t : Queued(t) /\ t # Head(queue) => Queued(t)'
<1>1. Queued(Head(queue))
  BY PopPositions DEF Queued
<1>2. ASSUME NEW t, Queued(t)' PROVE Queued(t)
  <2>1. PICK i \in 1 .. Len(queue') : queue'[i] = t
    BY <1>2 DEF Queued
  <2> QED BY <2>1, PopPositions DEF Queued
<1>3. ASSUME NEW t, Queued(t), t # Head(queue) PROVE Queued(t)'
  <2>1. PICK i \in 1 .. Len(queue) : queue[i] = t
    BY <1>3 DEF Queued
  <2>2. i # 1
    BY <1>3, <2>1, PopPositions
  <2>3. i - 1 \in 1 .. Len(queue') /\ queue'[i - 1] = t
    BY <2>1, <2>2, PopPositions
  <2> QED BY <2>3 DEF Queued
<1> QED BY <1>1, <1>2, <1>3

\* A job that was in the list once is no longer in it when it is popped.
LEMMA PopOnce ==
    ASSUME queue \in Seq(Submissions), queue # <<>>, queue' = Tail(queue),
           NEW X, OnceBut(queue, X)
    PROVE  /\ \A t : t = Head(queue) /\ Queued(t)' => t \in X
           /\ OnceBut(queue', X)
<1>1. ASSUME NEW t, t = Head(queue), Queued(t)' PROVE t \in X
  <2>1. PICK i \in 1 .. Len(queue') : queue'[i] = t
    BY <1>1 DEF Queued
  <2>2. queue[i + 1] = queue[1] /\ i + 1 # 1 /\ i + 1 \in 1 .. Len(queue)
    BY <1>1, <2>1, PopPositions
  <2> QED BY <1>1, <2>2, PopPositions DEF OnceBut
<1>2. OnceBut(queue', X)
  <2> SUFFICES ASSUME NEW i \in 1 .. Len(queue'), NEW j \in 1 .. Len(queue'),
                      queue'[i] = queue'[j], i # j
               PROVE  queue'[i] \in X
    BY DEF OnceBut
  <2>1. queue[i + 1] = queue[j + 1] /\ i + 1 # j + 1 /\ queue[i + 1] = queue'[i]
    BY PopPositions
  <2> QED BY <2>1, PopPositions DEF OnceBut
<1> QED BY <1>1, <1>2

\* A step that moves no job keeps the ownership.
LEMMA OwnershipUntouched ==
    ASSUME OwnerInv, UNCHANGED <<queue, job, unanswered>>,
           \A s \in Submissions : Enqueued(s) => Enqueued(s)'
    PROVE  SingleOwner' /\ Fresh'
BY DEF OwnerInv, SingleOwner, Fresh, Queued, Owned, OwnedBy

\* SingleOwner in terms of OnceBut.
LEMMA OwnerOnce == SingleOwner => OnceBut(queue, unanswered)
BY DEF SingleOwner, OnceBut

\* OwnerInv is preserved by every step.
LEMMA NextOwnerInv == OwnerInv /\ [Next]_vars => OwnerInv'
<1> SUFFICES ASSUME OwnerInv, [Next]_vars PROVE OwnerInv'
  OBVIOUS
<1>0. TypeInv' /\ TypeInv /\ TypeOK /\ TypeOK' /\ SingleOwner /\ Fresh
      /\ OnceBut(queue, unanswered)
  BY NextTypeInv, OwnerOnce DEF OwnerInv, TypeInv
<1>1. ASSUME NEW s \in Submissions, Enqueue(s) \/ LosePushReply(s) PROVE OwnerInv'
  <2>1. /\ queue' = Append(queue, s) /\ job' = job
        /\ unanswered \subseteq unanswered'
        /\ Enqueued(s)' /\ \A t \in Submissions : Enqueued(t) => Enqueued(t)'
    BY <1>0, <1>1 DEF Enqueue, LosePushReply, Enqueued, TypeOK
  <2>2. s \in unanswered \/ (~Queued(s) /\ ~Owned(s))
    BY <1>0, <1>1 DEF Enqueue, LosePushReply, Fresh, Enqueued
  <2>3. OnceBut(queue', unanswered)
    BY <1>0, <2>1, <2>2, PushEffect DEF TypeOK
  <2>4. \A t : Queued(t)' <=> Queued(t) \/ t = s
    BY <1>0, <2>1, PushEffect DEF TypeOK
  <2>5. \A w \in Workers, t \in Submissions :
           job[w] = t /\ Queued(t)' => t \in unanswered
    BY <1>0, <2>2, <2>4 DEF SingleOwner, Owned, OwnedBy
  <2>6. SingleOwner'
    <3>1. \A w \in Workers :
             job'[w] # NoJob /\ (\E i \in 1 .. Len(queue') : queue'[i] = job'[w])
                 => job'[w] \in unanswered'
      BY <1>0, <2>1, <2>5 DEF Queued, TypeOK
    <3> QED BY <1>0, <2>1, <2>3, <3>1 DEF SingleOwner, OnceBut, Queued
  <2>7. Fresh'
    BY <1>0, <2>1, <2>4 DEF Fresh, Owned, OwnedBy
  <2> QED BY <1>0, <2>6, <2>7 DEF OwnerInv
<1>2. ASSUME NEW s \in Submissions, ApiStep(s), ~Enqueue(s) PROVE OwnerInv'
  <2>1. UNCHANGED <<queue, job, unanswered>>
    BY <1>2 DEF ApiStep, Reject, Throttle, CheckDepth, SkipDepthCheck, SaveInitial,
                RequestFails, Accept
  <2>2. \A t \in Submissions : Enqueued(t) => Enqueued(t)'
    BY <1>0, <1>2 DEF ApiStep, Reject, Throttle, CheckDepth, SkipDepthCheck, SaveInitial,
                RequestFails, Accept, Enqueued, TypeOK
  <2> QED BY <1>0, <2>1, <2>2, OwnershipUntouched DEF OwnerInv
<1>3. ASSUME NEW w \in Workers, Dequeue(w) PROVE OwnerInv'
  <2>1. /\ queue \in Seq(Submissions) /\ queue # <<>> /\ queue' = Tail(queue)
        /\ job' = [job EXCEPT ![w] = Head(queue)]
        /\ UNCHANGED <<handler, unanswered>>
    BY <1>0, <1>3 DEF Dequeue, TypeOK
  <2>2. Head(queue) \in Submissions
    BY <2>1, HeadTail
  <2>3. \A v \in Workers : job[v] = Head(queue) => Head(queue) \in unanswered
    BY <1>0, <2>1, <2>2, PopEffect DEF SingleOwner
  <2>4. OnceBut(queue', unanswered)
        /\ \A t : t = Head(queue) /\ Queued(t)' => t \in unanswered
    BY <1>0, <2>1, PopOnce
  <2>5. \A v \in Workers, t \in Submissions :
           job'[v] = t /\ Queued(t)' => t \in unanswered
    BY <1>0, <2>1, <2>4, PopEffect DEF SingleOwner, TypeOK
  <2>6. SingleOwner'
    <3>1. \A v \in Workers :
             job'[v] # NoJob /\ (\E i \in 1 .. Len(queue') : queue'[i] = job'[v])
                 => job'[v] \in unanswered'
      BY <1>0, <2>1, <2>5 DEF Queued, TypeOK
    <3>2. \A u, v \in Workers :
             job'[u] # NoJob /\ job'[u] = job'[v] => u = v \/ job'[u] \in unanswered'
      BY <1>0, <2>1, <2>3 DEF SingleOwner, TypeOK
    <3> QED BY <2>1, <2>4, <3>1, <3>2 DEF SingleOwner, OnceBut, Queued
  <2>7. Fresh'
    BY <1>0, <2>1, <2>2, PopEffect DEF Fresh, Enqueued, Owned, OwnedBy, TypeOK
  <2> QED BY <1>0, <2>6, <2>7 DEF OwnerInv
<1>4. ASSUME NEW w \in Workers, LosePopReply(w) PROVE OwnerInv'
  <2>1. /\ queue \in Seq(Submissions) /\ queue # <<>> /\ queue' = Tail(queue)
        /\ UNCHANGED <<handler, job, unanswered>>
    BY <1>0, <1>4 DEF LosePopReply, TypeOK
  <2>2. OnceBut(queue', unanswered)
    BY <1>0, <2>1, PopOnce
  <2>3. \A t : Queued(t)' => Queued(t)
    BY <2>1, PopEffect
  <2>4. SingleOwner'
    BY <1>0, <2>1, <2>2, <2>3 DEF SingleOwner, OnceBut
  <2>5. Fresh'
    BY <1>0, <2>1, <2>3 DEF Fresh, Enqueued, Owned, OwnedBy
  <2> QED BY <1>0, <2>4, <2>5 DEF OwnerInv
<1>5. ASSUME NEW w \in Workers, Return(w) \/ CleanupPanics(w) PROVE OwnerInv'
  <2>1. SingleOwner'
    BY <1>0, <1>5 DEF Return, CleanupPanics, SingleOwner, Queued, TypeOK
  <2>2. Fresh'
    BY <1>0, <1>5 DEF Return, CleanupPanics, Fresh, Enqueued, Queued, Owned,
                      OwnedBy, TypeOK
  <2> QED BY <1>0, <2>1, <2>2 DEF OwnerInv
<1>6. ASSUME NEW w \in Workers, WorkerStep(w), ~Dequeue(w), ~Return(w),
             ~CleanupPanics(w)
      PROVE  OwnerInv'
  <2>1. UNCHANGED <<queue, job, handler, unanswered>>
    BY <1>6 DEF WorkerStep, LoopStep, ProcessJobStep, Select, DequeueEmpty, Begin, FailJob, CompleteJob,
            LoseOutcome
  <2> QED BY <1>0, <2>1, OwnershipUntouched DEF OwnerInv, Enqueued
<1>7. ASSUME NEW d \in Daemons, Crash(d) PROVE OwnerInv'
  <2>1. SingleOwner'
    BY <1>0, <1>7 DEF Crash, SingleOwner, Queued, TypeOK
  <2>2. Fresh'
    BY <1>0, <1>7 DEF Crash, Fresh, Enqueued, Queued, Owned, OwnedBy, TypeOK
  <2> QED BY <1>0, <2>1, <2>2 DEF OwnerInv
<1>8. ASSUME NEW d \in Daemons, Cancel(d) \/ ShutdownStep(d) PROVE OwnerInv'
  <2>1. UNCHANGED <<queue, job, handler, unanswered>>
    BY <1>8 DEF Cancel, ShutdownStep, CloseStop, Stopped, Restart
  <2> QED BY <1>0, <2>1, OwnershipUntouched DEF OwnerInv, Enqueued
<1>9. CASE UNCHANGED vars
  BY <1>0, <1>9, OwnershipUntouched DEF vars, OwnerInv, Enqueued
<1> QED BY <1>1, <1>2, <1>3, <1>4, <1>5, <1>6, <1>7, <1>8, <1>9
        DEF Next, WorkerStep

\* OwnerInv holds initially: the list is empty and no worker has a job.
LEMMA InitOwnerInv == Init => OwnerInv
<1> SUFFICES ASSUME Init PROVE OwnerInv
  OBVIOUS
<1>1. Len(queue) = 0
  BY EmptySeq DEF Init
<1>2. \A s : ~Queued(s)
  BY <1>1 DEF Queued
<1>3. SingleOwner
  BY <1>1, <1>2 DEF Init, SingleOwner
<1>4. Fresh
  BY <1>2 DEF Init, Fresh, Owned, OwnedBy
<1> QED BY <1>3, <1>4, InitTypeInv DEF OwnerInv

\* No submission is ever in two places unless its push was repeated: it is
\* evaluated at most once, however daemons stop, crash and restart.
THEOREM OneOwner == Spec => []SingleOwner
<1>1. OwnerInv => SingleOwner
  BY DEF OwnerInv
<1> QED BY <1>1, InitOwnerInv, NextOwnerInv, PTL DEF Spec

-----------------------------------------------------------------------------
(* The stored status.  A final record is not overwritten: only the owner   *)
(* of a submission that is not finished, or its handler before LPUSH,      *)
(* still writes.                                                           *)

SubmissionProgress(s) ==
    /\ handler[s] \in {"idle", "checked"} => store[s] = "ABSENT"
    /\ handler[s] = "saved" => store[s] = "QUEUED"
    /\ Queued(s) => store[s] = "QUEUED"

WorkerProgress(w) ==
    /\ wpc[w] = "got" => store[job[w]] = "QUEUED"
    /\ wpc[w] = "running" => store[job[w]] \in {"QUEUED", "RUNNING"}

Progress ==
    /\ \A s \in Submissions \ unanswered : SubmissionProgress(s)
    /\ \A w \in Workers : job[w] \notin unanswered => WorkerProgress(w)

ProgressInv == OwnerInv /\ Progress

\* A write of the worker that holds a job concerns that job only; one that was
\* pushed once is neither queued nor still with its handler nor with another
\* worker.
LEMMA WriteConfined ==
    ASSUME OwnerInv, NEW w \in Workers, wpc[w] \in Busy,
           NEW status
    PROVE  /\ job[w] \in Submissions
           /\ \A s \in Submissions : s # job[w] => Saved(w, status)[s] = store[s]
           /\ Saved(w, status)[job[w]] \in {store[job[w]], status}
           /\ Enqueued(job[w])
           /\ job[w] \notin unanswered =>
                 /\ ~Queued(job[w])
                 /\ \A v \in Workers : wpc[v] \in Busy /\ v # w => job[v] # job[w]
<1>1. job[w] # NoJob /\ job[w] \in Submissions
  BY DEF OwnerInv, TypeInv, TypeOK, Holding
<1>2. Enqueued(job[w]) /\ (job[w] \notin unanswered => ~Queued(job[w]))
  BY <1>1 DEF OwnerInv, Fresh, Owned, OwnedBy, SingleOwner
<1>3. job[w] \notin unanswered =>
         \A v \in Workers : wpc[v] \in Busy /\ v # w => job[v] # job[w]
  BY <1>1 DEF OwnerInv, SingleOwner
<1>4. store \in [Submissions -> StoredStatus \cup {"ABSENT"}]
  BY DEF OwnerInv, TypeInv, TypeOK
<1> QED BY <1>1, <1>2, <1>3, <1>4 DEF Saved

\* Progress is preserved by every step.
LEMMA NextProgressInv == ProgressInv /\ [Next]_vars => ProgressInv'
<1> SUFFICES ASSUME ProgressInv, [Next]_vars PROVE ProgressInv'
  OBVIOUS
<1>0. OwnerInv /\ OwnerInv' /\ TypeOK /\ Progress /\ Holding
  BY NextOwnerInv DEF ProgressInv, OwnerInv, TypeInv
<1> SUFFICES Progress'
  BY <1>0 DEF ProgressInv
<1> USE DEF SubmissionProgress, WorkerProgress
<1>1. ASSUME NEW s \in Submissions, Enqueue(s) PROVE Progress'
  BY <1>0, <1>1, PushEffect DEF Enqueue, Progress, TypeOK
<1>2. ASSUME NEW s \in Submissions, LosePushReply(s) PROVE Progress'
  <2>1. \A t : Queued(t)' <=> Queued(t) \/ t = s
    BY <1>0, <1>2, PushEffect DEF LosePushReply, TypeOK
  <2> QED BY <1>0, <1>2, <2>1 DEF LosePushReply, Progress, TypeOK
<1>3. ASSUME NEW s \in Submissions, SaveInitial(s) PROVE Progress'
  <2>1. \A w \in Workers : wpc[w] \in Busy /\ job[w] \notin unanswered => job[w] # s
    BY <1>0, <1>3, WriteConfined DEF SaveInitial, Enqueued
  <2> QED BY <1>0, <1>3, <2>1 DEF SaveInitial, Progress, Queued, Busy, TypeOK
<1>4. ASSUME NEW s \in Submissions, ApiStep(s), ~Enqueue(s), ~SaveInitial(s)
      PROVE  Progress'
  <2>1. UNCHANGED <<queue, store, wpc, job, unanswered>>
    BY <1>4 DEF ApiStep, Reject, Throttle, CheckDepth, SkipDepthCheck, RequestFails, Accept
  <2>2. \A t \in Submissions :
           /\ handler'[t] \in {"idle", "checked"} => handler[t] \in {"idle", "checked"}
           /\ handler'[t] = "saved" => handler[t] = "saved"
    BY <1>0, <1>4 DEF ApiStep, Reject, Throttle, CheckDepth, SkipDepthCheck, RequestFails,
                      Accept, TypeOK
  <2> QED BY <1>0, <2>1, <2>2 DEF Progress, Queued
<1>5. ASSUME NEW w \in Workers, Dequeue(w) PROVE Progress'
  <2>1. /\ \A t : Queued(t)' => Queued(t)
        /\ Queued(Head(queue)) /\ Head(queue) \in Submissions
    BY <1>0, <1>5, PopEffect, HeadTail DEF Dequeue, TypeOK
  <2>2. UNCHANGED <<handler, store, unanswered>>
        /\ job' = [job EXCEPT ![w] = Head(queue)]
        /\ wpc' = [wpc EXCEPT ![w] = "got"]
    BY <1>5 DEF Dequeue
  <2> QED BY <1>0, <2>1, <2>2 DEF Progress, TypeOK
<1>6. ASSUME NEW w \in Workers, LosePopReply(w) PROVE Progress'
  <2>1. \A t : Queued(t)' => Queued(t)
    BY <1>0, <1>6, PopEffect DEF LosePopReply, TypeOK
  <2> QED BY <1>0, <1>6, <2>1 DEF LosePopReply, Progress, TypeOK
<1>7. ASSUME NEW w \in Workers, Write(w) PROVE Progress'
  <2>1. PICK status \in {"RUNNING", "FAILED", "COMPLETED"},
             state \in {"running", "finished"} :
           /\ store' \in {store, Saved(w, status)}
           /\ wpc' = [wpc EXCEPT ![w] = state]
           /\ state = "running" => wpc[w] = "got" /\ status = "RUNNING"
    BY <1>0, <1>7, WriteEffect DEF OwnerInv
  <2>2. UNCHANGED <<handler, queue, job, unanswered>> /\ wpc[w] \in Busy
    BY <1>0, <1>7, WriteFrame DEF OwnerInv
  <2>3. /\ \A s \in Submissions : s # job[w] => store'[s] = store[s]
        /\ store'[job[w]] \in {store[job[w]], status}
        /\ Enqueued(job[w]) /\ job[w] \in Submissions
        /\ job[w] \notin unanswered =>
              /\ ~Queued(job[w])
              /\ \A v \in Workers : wpc[v] \in Busy /\ v # w => job[v] # job[w]
    BY <1>0, <2>1, <2>2, WriteConfined
  <2>4. \A v \in Workers : wpc[v] \in Busy => job[v] \in Submissions
    BY <1>0 DEF Holding, TypeOK
  <2>5. \A s \in Submissions \ unanswered :
           /\ handler[s] \in {"idle", "checked"} => store'[s] = "ABSENT"
           /\ handler[s] = "saved" => store'[s] = "QUEUED"
           /\ Queued(s) => store'[s] = "QUEUED"
    BY <1>0, <2>3 DEF Progress, Enqueued
  <2>6. \A v \in Workers : job[v] \notin unanswered =>
           /\ wpc'[v] = "got" => store'[job[v]] = "QUEUED"
           /\ wpc'[v] = "running" => store'[job[v]] \in {"QUEUED", "RUNNING"}
    BY <1>0, <2>1, <2>2, <2>3, <2>4 DEF Progress, Busy, TypeOK
  <2> QED BY <2>2, <2>5, <2>6 DEF Progress, Queued
<1>8. ASSUME NEW w \in Workers, Select(w) \/ DequeueEmpty(w) \/ Return(w)
      PROVE  Progress'
  BY <1>0, <1>8 DEF Select, DequeueEmpty, Return, Progress, Queued, TypeOK
<1>11. ASSUME NEW w \in Workers, CleanupPanics(w) PROVE Progress'
  <2>1. /\ store' = Saved(w, "FAILED") /\ wpc[w] \in Busy
        /\ job' = [job EXCEPT ![w] = NoJob] /\ wpc' = [wpc EXCEPT ![w] = "select"]
        /\ UNCHANGED <<handler, queue, unanswered>>
    BY <1>11 DEF CleanupPanics, Busy
  <2>2. /\ \A s \in Submissions : s # job[w] => store'[s] = store[s]
        /\ Enqueued(job[w]) /\ job[w] \in Submissions
        /\ job[w] \notin unanswered =>
              /\ ~Queued(job[w])
              /\ \A v \in Workers : wpc[v] \in Busy /\ v # w => job[v] # job[w]
    BY <1>0, <2>1, WriteConfined
  <2>3. \A v \in Workers : wpc[v] \in Busy => job[v] \in Submissions
    BY <1>0 DEF Holding, TypeOK
  <2>4. \A s \in Submissions \ unanswered :
           /\ handler[s] \in {"idle", "checked"} => store'[s] = "ABSENT"
           /\ handler[s] = "saved" => store'[s] = "QUEUED"
           /\ Queued(s) => store'[s] = "QUEUED"
    BY <1>0, <2>2 DEF Progress, Enqueued
  <2>5. \A v \in Workers : job'[v] \notin unanswered =>
           /\ wpc'[v] = "got" => store'[job'[v]] = "QUEUED"
           /\ wpc'[v] = "running" => store'[job'[v]] \in {"QUEUED", "RUNNING"}
    BY <1>0, <2>1, <2>2, <2>3 DEF Progress, Busy, TypeOK
  <2> QED BY <2>1, <2>4, <2>5 DEF Progress, Queued
<1>9. ASSUME NEW d \in Daemons, Cancel(d) \/ Crash(d) \/ ShutdownStep(d)
      PROVE  Progress'
  BY <1>0, <1>9 DEF Cancel, Crash, ShutdownStep, CloseStop, Stopped, Restart,
                    Progress, Queued, TypeOK
<1>10. CASE UNCHANGED vars
  BY <1>0, <1>10 DEF vars, Progress, Queued
<1> QED BY <1>1, <1>2, <1>3, <1>4, <1>5, <1>6, <1>7, <1>8, <1>9, <1>10, <1>11
        DEF Next, LoopStep, ProcessJobStep, Write

\* Progress holds initially: nothing is stored.
LEMMA InitProgressInv == Init => ProgressInv
<1> SUFFICES ASSUME Init PROVE ProgressInv
  OBVIOUS
<1>1. \A s \in Submissions : ~Queued(s)
  BY InitOwnerInv DEF Init, OwnerInv, Fresh, Enqueued
<1> QED BY <1>1, InitOwnerInv
        DEF Init, ProgressInv, Progress, SubmissionProgress, WorkerProgress

\* The stored status of a submission only moves forward, although the API
\* server and the workers write it without reading it first.
THEOREM StatusForward == Spec => StatusNeverRegresses
<1>1. ASSUME ProgressInv, [Next]_vars
      PROVE  [\A s \in Submissions \ unanswered :
                 store'[s] # store[s] => Rank(store[s]) < Rank(store'[s])]_vars
  <2> SUFFICES ASSUME Next, NEW s \in Submissions, s \notin unanswered,
                      store'[s] # store[s]
               PROVE  Rank(store[s]) < Rank(store'[s])
    BY <1>1 DEF vars
  <2>0. OwnerInv /\ TypeOK /\ Progress
    BY <1>1 DEF ProgressInv, OwnerInv, TypeInv
  <2>1. \/ SaveInitial(s)
        \/ \E w \in Workers : Write(w) \/ CleanupPanics(w)
    <3>1. ASSUME NEW t \in Submissions, ApiStep(t) \/ LosePushReply(t)
          PROVE  SaveInitial(s)
      BY <2>0, <3>1 DEF ApiStep, Reject, Throttle, CheckDepth, SkipDepthCheck,
         SaveInitial, RequestFails, Enqueue, LosePushReply, Accept, TypeOK
    <3>2. ASSUME NEW w \in Workers, LoopStep(w) \/ LosePopReply(w) \/ Return(w)
          PROVE  FALSE
      BY <3>2 DEF LoopStep, Select, Dequeue, LosePopReply, DequeueEmpty, Return
    <3>3. ASSUME NEW d \in Daemons, Cancel(d) \/ Crash(d) \/ ShutdownStep(d)
          PROVE  FALSE
      BY <3>3 DEF Cancel, Crash, ShutdownStep, CloseStop, Stopped, Restart
    <3> QED BY <3>1, <3>2, <3>3 DEF Next, ProcessJobStep, Write
  <2>2. CASE SaveInitial(s)
    <3>1. store[s] = "ABSENT" /\ store'[s] = "QUEUED"
      BY <2>0, <2>2 DEF SaveInitial, Progress, SubmissionProgress, TypeOK
    <3> QED BY <3>1 DEF Rank
  <2>3. ASSUME NEW w \in Workers, Write(w)
        PROVE  Rank(store[s]) < Rank(store'[s])
    <3>1. wpc[w] \in {"got", "running"} /\ wpc[w] \in Busy
      BY <2>0, <2>3, WriteFrame DEF OwnerInv
    <3>2. PICK status \in {"RUNNING", "FAILED", "COMPLETED"} :
             /\ store' \in {store, Saved(w, status)}
             /\ status = "RUNNING" => wpc[w] = "got"
      BY <2>0, <2>3, WriteEffect DEF OwnerInv, Terminal
    <3>3. s = job[w] /\ store'[s] = status
      BY <2>0, <3>1, <3>2, WriteConfined
    <3>4. /\ store[s] \in {"QUEUED", "RUNNING"}
          /\ status = "RUNNING" => store[s] = "QUEUED"
      BY <2>0, <3>1, <3>2, <3>3 DEF Progress, WorkerProgress
    <3> QED BY <3>3, <3>4 DEF Rank
  <2>4. ASSUME NEW w \in Workers, CleanupPanics(w)
        PROVE  Rank(store[s]) < Rank(store'[s])
    <3>1. store' = Saved(w, "FAILED") /\ wpc[w] \in Busy
      BY <2>4 DEF CleanupPanics, Busy
    <3>2. store'[s] = "FAILED" /\ store[s] # "FAILED"
      BY <2>0, <3>1, WriteConfined
    <3>3. store[s] \in StoredStatus \cup {"ABSENT"}
      BY <2>0 DEF TypeOK
    <3> QED BY <3>2, <3>3 DEF Rank, StoredStatus, Terminal
  <2> QED BY <2>1, <2>2, <2>3, <2>4
<1> QED BY <1>1, InitProgressInv, NextProgressInv, PTL DEF Spec, StatusNeverRegresses

-----------------------------------------------------------------------------
(* NoSilentLoss.  The argument needs no ownership: a repeated push only    *)
(* adds places where the submission is.                                    *)

\* A job in the hands of a daemon that is no longer up is on record as
\* interrupted.
Marked ==
    \A w \in Workers : job[w] # NoJob /\ ~Alive(w) => Interrupted(job[w])

\* No reply is lost before the first LPUSH.
Early == \A s \in Submissions : handler[s] \in {"idle", "checked"} => s \notin unanswered

LossInv == TypeInv /\ Marked /\ Early /\ NoSilentLoss

\* The submission s is among the marks kept for some daemon.
Noted(s, marks) == \E d \in Daemons : s \in marks[d]

\* What is on record as interrupted stays there.
LEMMA InterruptedStays ==
    ASSUME TypeOK, [Next]_vars, NEW s, Noted(s, interrupted)
    PROVE  Noted(s, interrupted')
<1>1. ASSUME NEW w \in Workers, Dequeue(w), NEW d \in Daemons
      PROVE  interrupted[d] \subseteq interrupted'[d]
  BY <1>1 DEF Dequeue, TypeOK
<1>2. ASSUME NEW e \in Daemons, Cancel(e) \/ Crash(e), NEW d \in Daemons
      PROVE  interrupted[d] \subseteq interrupted'[d]
  BY <1>2 DEF Cancel, Crash, TypeOK
<1>3. \/ UNCHANGED interrupted
      \/ \E w \in Workers : Dequeue(w)
      \/ \E d \in Daemons : Cancel(d) \/ Crash(d)
  BY DEF Next, ApiStep, Reject, Throttle, CheckDepth, SkipDepthCheck, SaveInitial, RequestFails,
     Enqueue, LosePushReply, Accept, LoopStep, ProcessJobStep, Select, LosePopReply,
     DequeueEmpty, Begin, FailJob, CompleteJob, LoseOutcome, CleanupPanics, Return, ShutdownStep, CloseStop,
     Stopped, Restart, vars
<1> QED BY <1>1, <1>2, <1>3 DEF Noted

\* Marked is preserved by every step.
LEMMA NextMarked == TypeInv /\ Marked /\ [Next]_vars => Marked'
<1> SUFFICES ASSUME TypeInv, Marked, [Next]_vars,
                    NEW v \in Workers, job'[v] # NoJob, ~Alive(v)'
             PROVE  Noted(job'[v], interrupted')
  BY DEF Marked, Interrupted, Noted
<1>0. TypeOK /\ Holding /\ Down
  BY DEF TypeInv
<1> DEFINE Same == job'[v] = job[v] /\ (Alive(v) => Alive(v)')
<1>1. CASE Same
  BY <1>0, <1>1, InterruptedStays DEF Marked, Interrupted, Noted
<1>2. ASSUME NEW w \in Workers, Dequeue(w), ~Same
      PROVE  Noted(job'[v], interrupted')
  <2>1. v = w
    BY <1>0, <1>2 DEF Dequeue, TypeOK, Alive
  <2>2. job'[v] = Head(queue) /\ daemon' = daemon
    BY <1>0, <1>2, <2>1 DEF Dequeue, TypeOK
  <2>3. ~Alive(w) => Head(queue) \in interrupted'[DaemonOf[w]]
    BY <1>0, <1>2 DEF Dequeue, TypeOK
  <2> QED BY <2>1, <2>2, <2>3 DEF Alive, Noted
<1>3. ASSUME NEW d \in Daemons, Cancel(d), ~Same
      PROVE  Noted(job'[v], interrupted')
  <2>1. DaemonOf[v] = d /\ job' = job
    BY <1>0, <1>3 DEF Cancel, TypeOK, Alive
  <2>2. job[v] \in Held(d)
    BY <2>1 DEF Held, WorkersOf
  <2>3. job[v] \in interrupted'[d]
    BY <1>0, <1>3, <2>2 DEF Cancel, TypeOK
  <2> QED BY <2>1, <2>3 DEF Noted
<1>4. ASSUME NEW d \in Daemons, Crash(d) PROVE Same
  BY <1>0, <1>4 DEF Crash, TypeOK, Alive
<1>5. ASSUME NEW w \in Workers, WorkerStep(w) \/ LosePopReply(w), ~Dequeue(w)
      PROVE  Same
  BY <1>0, <1>5 DEF WorkerStep, LoopStep, ProcessJobStep, LosePopReply, Select, DequeueEmpty, Begin,
                    FailJob, CompleteJob, LoseOutcome, CleanupPanics, Return, TypeOK, Alive
<1>6. ASSUME NEW d \in Daemons, ShutdownStep(d) PROVE Same
  BY <1>0, <1>6 DEF ShutdownStep, CloseStop, Stopped, Restart, TypeOK, Alive
<1>7. ASSUME NEW s \in Submissions, ApiStep(s) \/ LosePushReply(s) PROVE Same
  BY <1>7 DEF ApiStep, Reject, Throttle, CheckDepth, SkipDepthCheck, SaveInitial, RequestFails,
              Enqueue, LosePushReply, Accept, Alive
<1>8. CASE UNCHANGED vars
  <2>1. Same
    BY <1>8 DEF vars, Alive
  <2> QED BY <1>1, <2>1
<1> QED BY <1>1, <1>2, <1>3, <1>4, <1>5, <1>6, <1>7, <1>8 DEF Next, WorkerStep

\* Early is preserved by every step.
LEMMA NextEarly == TypeInv /\ Early /\ [Next]_vars => Early'
<1> SUFFICES ASSUME TypeInv, Early, [Next]_vars PROVE Early'
  OBVIOUS
<1>0. TypeOK
  BY DEF TypeInv
<1>1. ASSUME NEW s \in Submissions, ApiStep(s) \/ LosePushReply(s) PROVE Early'
  BY <1>0, <1>1 DEF ApiStep, Reject, Throttle, CheckDepth, SkipDepthCheck,
     SaveInitial, RequestFails, Enqueue, LosePushReply, Accept, Early, TypeOK
<1>2. CASE UNCHANGED <<handler, unanswered>>
  BY <1>2 DEF Early
<1> QED
  BY <1>1, <1>2 DEF Next, vars, LoopStep, ProcessJobStep, Select, Dequeue,
     LosePopReply, DequeueEmpty, Begin, FailJob, CompleteJob, LoseOutcome,
     CleanupPanics, Return, Cancel, Crash, ShutdownStep, CloseStop, Stopped, Restart

\* NoSilentLoss is preserved by every step.
LEMMA NextNoSilentLoss == LossInv /\ [Next]_vars => NoSilentLoss'
<1> SUFFICES ASSUME LossInv, [Next]_vars, NEW s \in Submissions, Enqueued(s)'
             PROVE  \/ Queued(s)'
                    \/ Evaluated(s)'
                    \/ store'[s] \in Terminal
                    \/ Noted(s, interrupted')
                    \/ s \in vanished' \cup unsaved'
  BY DEF NoSilentLoss, Interrupted, Noted
<1>0. TypeOK /\ Holding /\ Marked /\ Early
  BY DEF LossInv, TypeInv
<1>1. s # NoJob
  OBVIOUS
<1> DEFINE Kept == /\ Enqueued(s)
                   /\ Queued(s) => Queued(s)'
                   /\ Evaluated(s) => Evaluated(s)'
                   /\ store[s] \in Terminal => store'[s] \in Terminal
                   /\ s \in vanished \cup unsaved => s \in vanished' \cup unsaved'
<1>2. CASE Kept
  BY <1>0, <1>2, InterruptedStays
     DEF LossInv, NoSilentLoss, Interrupted, Noted
<1>3. ASSUME NEW t \in Submissions, Enqueue(t) \/ LosePushReply(t)
      PROVE  Queued(s)' \/ Kept
  <2>1. \A u : Queued(u)' <=> Queued(u) \/ u = t
    BY <1>0, <1>3, PushEffect DEF Enqueue, LosePushReply, TypeOK
  <2>2. UNCHANGED <<job, wpc, store, vanished, unsaved>> /\ (s # t => Enqueued(s))
    BY <1>0, <1>3 DEF Enqueue, LosePushReply, Enqueued, TypeOK
  <2> QED BY <2>1, <2>2 DEF Evaluated, OwnedBy
<1>4. ASSUME NEW t \in Submissions, ApiStep(t), ~Enqueue(t) PROVE Kept
  <2>1. UNCHANGED <<queue, job, wpc, unanswered, vanished, unsaved>>
    BY <1>4 DEF ApiStep, Reject, Throttle, CheckDepth, SkipDepthCheck, SaveInitial,
                RequestFails, Accept
  <2>2. Enqueued(s)
    BY <1>0, <1>4 DEF ApiStep, Reject, Throttle, CheckDepth, SkipDepthCheck, SaveInitial,
                RequestFails, Accept, Enqueued, TypeOK
  <2>3. store'[s] = store[s]
    BY <1>0, <1>4, <2>2 DEF ApiStep, Reject, Throttle, CheckDepth, SkipDepthCheck, SaveInitial,
                RequestFails, Accept, Enqueued, Early, TypeOK
  <2> QED BY <2>1, <2>2, <2>3 DEF Queued, Evaluated, OwnedBy
<1>5. ASSUME NEW w \in Workers, Dequeue(w) PROVE Evaluated(s)' \/ Kept
  <2>1. \A u : Queued(u) /\ u # Head(queue) => Queued(u)'
    BY <1>0, <1>5, PopEffect DEF Dequeue, TypeOK
  <2>2. /\ UNCHANGED <<handler, store, unanswered, vanished, unsaved>>
        /\ job' = [job EXCEPT ![w] = Head(queue)]
        /\ wpc' = [wpc EXCEPT ![w] = "got"]
    BY <1>5 DEF Dequeue
  <2>3. job[w] = NoJob
    BY <1>0, <1>5 DEF Dequeue, Holding, Busy
  <2>4. CASE s = Head(queue)
    BY <1>0, <2>2, <2>4 DEF Evaluated, OwnedBy, TypeOK
  <2>5. CASE s # Head(queue)
    BY <1>0, <1>1, <2>1, <2>2, <2>3, <2>5 DEF Evaluated, OwnedBy, Enqueued, TypeOK
  <2> QED BY <2>4, <2>5
<1>6. ASSUME NEW w \in Workers, LosePopReply(w)
      PROVE  s \in vanished' \cup unsaved' \/ Kept
  <2>1. \A u : Queued(u) /\ u # Head(queue) => Queued(u)'
    BY <1>0, <1>6, PopEffect DEF LosePopReply, TypeOK
  <2>2. /\ UNCHANGED <<handler, store, job, unanswered, unsaved>>
        /\ vanished' = vanished \cup {Head(queue)}
    BY <1>6 DEF LosePopReply
  <2>3. \A v \in Workers : wpc[v] # "finished" => wpc'[v] # "finished"
    BY <1>0, <1>6 DEF LosePopReply, TypeOK
  <2> QED BY <2>1, <2>2, <2>3 DEF Evaluated, OwnedBy, Enqueued
<1>7. ASSUME NEW w \in Workers, Write(w)
      PROVE  \/ Evaluated(s)' \/ store'[s] \in Terminal \/ Noted(s, interrupted')
             \/ s \in unsaved' \/ Kept
  <2>0. TypeInv
    BY DEF LossInv
  <2>1. PICK status \in {"RUNNING", "FAILED", "COMPLETED"},
             state \in {"running", "finished"} :
           /\ store' \in {store, Saved(w, status)}
           /\ wpc' = [wpc EXCEPT ![w] = state]
           /\ state = "finished" => /\ status \in Terminal
                                    /\ store' = Saved(w, status) \/ job[w] \in unsaved'
    BY <1>7, <2>0, WriteEffect
  <2>2. /\ UNCHANGED <<handler, queue, job, unanswered, vanished>>
        /\ unsaved \subseteq unsaved' /\ wpc[w] \in {"got", "running"}
    BY <1>7, <2>0, WriteFrame
  <2>3. CASE job[w] = s /\ state = "running"
    BY <1>0, <2>1, <2>2, <2>3 DEF Evaluated, OwnedBy, TypeOK
  <2>4. CASE job[w] = s /\ state = "finished"
    BY <1>0, <1>1, <2>1, <2>4, InterruptedStays
       DEF Saved, Marked, Interrupted, Noted, TypeOK
  <2>5. CASE job[w] # s
    BY <1>0, <2>1, <2>2, <2>5 DEF Saved, Evaluated, OwnedBy, Queued, Enqueued, TypeOK
  <2> QED BY <2>3, <2>4, <2>5
<1>8. ASSUME NEW w \in Workers, CleanupPanics(w) PROVE Kept
  <2>1. /\ UNCHANGED <<handler, queue, unanswered, vanished, unsaved>>
        /\ store' = Saved(w, "FAILED") /\ wpc[w] = "finished"
        /\ job' = [job EXCEPT ![w] = NoJob] /\ wpc' = [wpc EXCEPT ![w] = "select"]
    BY <1>8 DEF CleanupPanics
  <2>2. store[s] \in Terminal => store'[s] \in Terminal
    BY <1>0, <2>1 DEF Saved, Terminal, TypeOK
  <2>3. \A v \in Workers : job[v] = s /\ wpc[v] # "finished" =>
                              job'[v] = s /\ wpc'[v] # "finished"
    BY <1>0, <2>1 DEF TypeOK
  <2> QED BY <2>1, <2>2, <2>3 DEF Evaluated, OwnedBy, Queued, Enqueued
<1>9. ASSUME NEW w \in Workers, Select(w) \/ DequeueEmpty(w) \/ Return(w)
      PROVE  Kept
  <2>1. UNCHANGED <<handler, queue, store, unanswered, vanished, unsaved>>
    BY <1>9 DEF Select, DequeueEmpty, Return
  <2>2. \A v \in Workers : job[v] = s /\ wpc[v] # "finished" =>
                              job'[v] = s /\ wpc'[v] # "finished"
    BY <1>0, <1>1, <1>9 DEF Select, DequeueEmpty, Return, TypeOK
  <2> QED BY <2>1, <2>2 DEF Evaluated, OwnedBy, Queued, Enqueued
<1>10. ASSUME NEW d \in Daemons, Crash(d) PROVE Kept \/ Noted(s, interrupted')
  <2>1. UNCHANGED <<handler, queue, store, unanswered, vanished, unsaved>>
    BY <1>10 DEF Crash
  <2>2. ASSUME NEW w \in Workers, job[w] = s, wpc[w] # "finished"
        PROVE  Evaluated(s)' \/ s \in Held(d)
    BY <1>0, <1>1, <1>10, <2>2
       DEF Crash, Evaluated, OwnedBy, Held, WorkersOf, TypeOK
  <2>3. s \in Held(d) => s \in interrupted'[d]
    BY <1>0, <1>10 DEF Crash, TypeOK
  <2> QED BY <2>1, <2>2, <2>3 DEF Evaluated, OwnedBy, Noted, Queued, Enqueued
<1>11. ASSUME NEW d \in Daemons, Cancel(d) \/ ShutdownStep(d) PROVE Kept
  <2>1. UNCHANGED <<handler, queue, store, job, unanswered, vanished, unsaved>>
    BY <1>11 DEF Cancel, ShutdownStep, CloseStop, Stopped, Restart
  <2>2. \A v \in Workers : wpc[v] # "finished" => wpc'[v] # "finished"
    BY <1>0, <1>11 DEF Cancel, ShutdownStep, CloseStop, Stopped, Restart, TypeOK
  <2> QED BY <2>1, <2>2 DEF Evaluated, OwnedBy, Queued, Enqueued
<1>12. CASE UNCHANGED vars
  <2>1. Kept
    BY <1>12 DEF vars, Evaluated, OwnedBy, Queued, Enqueued
  <2> QED BY <1>2, <2>1
<1> QED
  BY <1>2, <1>3, <1>4, <1>5, <1>6, <1>7, <1>8, <1>9, <1>10, <1>11, <1>12
     DEF Next, LoopStep, ProcessJobStep, Write

\* A submission that reached the list is waiting, being evaluated, finally
\* recorded, was in the hands of an interrupted daemon or in a lost reply, or is
\* one whose final record Redis refused: there is no other way to lose one, for
\* any number of workers, daemons, crashes, restarts and failing commands.
THEOREM NothingForgotten == Spec => []NoSilentLoss
<1>1. Init => LossInv
  <2>1. Init => Marked /\ Early /\ NoSilentLoss
    BY DEF Init, Marked, Early, NoSilentLoss, Enqueued
  <2> QED BY <2>1, InitTypeInv DEF LossInv
<1>2. LossInv /\ [Next]_vars => LossInv'
  BY NextTypeInv, NextMarked, NextEarly, NextNoSilentLoss DEF LossInv
<1>3. LossInv => NoSilentLoss
  BY DEF LossInv
<1> QED BY <1>1, <1>2, <1>3, PTL DEF Spec

-----------------------------------------------------------------------------
(* The queue bound.  A handler between its depth check and its LPUSH has a *)
(* claim on a place in the list, which its push makes good, once however   *)
(* often it is repeated; what CheckDepth bounds are the claims.            *)

Claims == (Waiting \cup Inflight) \ unchecked

DepthInv == TypeInv /\ Cardinality(Claims) <= MaxQueueDepth - 1 + MaxInflight

\* The waiting submissions and the handlers in flight are finitely many, the
\* former no more than the entries of the list.
LEMMA ClaimsFinite ==
    ASSUME TypeOK
    PROVE  /\ IsFiniteSet(Inflight) /\ Cardinality(Inflight) \in Nat
           /\ IsFiniteSet(Waiting) /\ Cardinality(Waiting) \in Nat
           /\ IsFiniteSet(Claims) /\ Cardinality(Claims) \in Nat
           /\ Len(queue) \in Nat /\ Cardinality(Waiting) <= Len(queue)
<1>1. /\ Inflight \in SUBSET Submissions /\ Waiting \in SUBSET Submissions
      /\ Claims \in SUBSET Submissions
  BY DEF Inflight, Waiting, Claims
<1>2. Len(queue) \in Nat /\ \A i \in 1 .. Len(queue) : queue[i] \in Submissions
  BY LenProperties, ElementOfSeq DEF TypeOK
<1> DEFINE f == [i \in 1 .. Len(queue) |-> queue[i]]
<1>3. f \in Surjection(1 .. Len(queue), Waiting)
  BY <1>2 DEF Surjection, Waiting, Queued
<1>4. IsFiniteSet(1 .. Len(queue)) /\ Cardinality(1 .. Len(queue)) = Len(queue)
  <2>1. Len(queue) - 1 + 1 = Len(queue) /\ 1 \in Int /\ Len(queue) \in Int
    BY <1>2
  <2> QED BY <1>2, <2>1, FS_Interval
<1> HIDE DEF f
<1>5. Cardinality(Waiting) <= Len(queue)
  BY <1>3, <1>4, FS_Surjection
<1> QED BY <1>1, <1>2, <1>5, FS_Subset, FS_CardinalityType

\* A step that makes no new claim keeps the bound.
LEMMA NoNewClaim ==
    ASSUME DepthInv, TypeInv', Claims' \subseteq Claims
    PROVE  DepthInv'
<1>1. TypeOK /\ TypeOK'
  BY DEF DepthInv, TypeInv
<1>2. /\ IsFiniteSet(Claims) /\ Cardinality(Claims) \in Nat
      /\ Cardinality(Claims) <= MaxQueueDepth - 1 + MaxInflight
  BY <1>1, ClaimsFinite DEF DepthInv
<1>3. Cardinality(Claims') <= Cardinality(Claims) /\ Cardinality(Claims') \in Nat
  <2>1. IsFiniteSet(Claims') /\ Cardinality(Claims') <= Cardinality(Claims)
    BY <1>2, FS_Subset
  <2> QED BY <2>1, FS_CardinalityType
<1> QED BY <1>2, <1>3 DEF DepthInv

\* A depth check lets a handler in only while there is room for its claim.
LEMMA CheckedClaim ==
    ASSUME DepthInv, TypeInv', NEW s \in Submissions, CheckDepth(s)
    PROVE  DepthInv'
<1>0. TypeOK
  BY DEF DepthInv, TypeInv
<1>1. Waiting' = Waiting /\ Inflight' = Inflight \cup {s} /\ s \notin Inflight
  BY <1>0 DEF CheckDepth, Waiting, Queued, Inflight, TypeOK
<1>2. Cardinality(Inflight) < MaxInflight /\ ~(Len(queue) >= MaxQueueDepth)
  BY DEF CheckDepth, QueueFull
<1>3. /\ IsFiniteSet(Inflight \cup {s})
      /\ Cardinality(Inflight \cup {s}) = Cardinality(Inflight) + 1
  BY <1>0, <1>1, ClaimsFinite, FS_AddElement
<1>4. /\ IsFiniteSet(Waiting \cup (Inflight \cup {s}))
      /\ Cardinality(Waiting \cup (Inflight \cup {s}))
            = Cardinality(Waiting) + Cardinality(Inflight \cup {s})
                - Cardinality(Waiting \cap (Inflight \cup {s}))
  BY <1>0, <1>3, ClaimsFinite, FS_Union, Zenon
<1>5. Cardinality(Waiting \cap (Inflight \cup {s})) \in Nat
  <2>1. IsFiniteSet(Waiting \cap (Inflight \cup {s}))
    BY <1>0, ClaimsFinite, FS_Subset
  <2> QED BY <2>1, FS_CardinalityType
<1>6. Claims' \subseteq Waiting \cup (Inflight \cup {s})
  BY <1>1 DEF Claims
<1>7. /\ Cardinality(Claims') <= Cardinality(Waiting \cup (Inflight \cup {s}))
      /\ Cardinality(Claims') \in Nat
  <2>1. /\ IsFiniteSet(Claims')
        /\ Cardinality(Claims') <= Cardinality(Waiting \cup (Inflight \cup {s}))
    BY <1>4, <1>6, FS_Subset
  <2> QED BY <2>1, FS_CardinalityType
<1>8. Cardinality(Claims') <= MaxQueueDepth - 1 + MaxInflight
  BY <1>0, <1>2, <1>3, <1>4, <1>5, <1>7, ClaimsFinite
<1> QED BY <1>8 DEF DepthInv

\* DepthInv is preserved by every step.
LEMMA NextDepthInv == DepthInv /\ [Next]_vars => DepthInv'
<1> SUFFICES ASSUME DepthInv, [Next]_vars PROVE DepthInv'
  OBVIOUS
<1>0. TypeInv' /\ TypeOK
  BY NextTypeInv DEF DepthInv, TypeInv
<1>1. ASSUME NEW s \in Submissions, CheckDepth(s) PROVE DepthInv'
  BY <1>0, <1>1, CheckedClaim
<1>2. ASSUME NEW s \in Submissions, SkipDepthCheck(s) PROVE Claims' \subseteq Claims
  BY <1>0, <1>2 DEF SkipDepthCheck, Claims, Waiting, Queued, Inflight, TypeOK
<1>3. ASSUME NEW s \in Submissions, Enqueue(s) \/ LosePushReply(s)
      PROVE  Claims' \subseteq Claims
  <2>1. Waiting' = Waiting \cup {s}
    BY <1>0, <1>3, PushEffect DEF Enqueue, LosePushReply, Waiting, TypeOK
  <2>2. s \in Inflight /\ Inflight' \subseteq Inflight /\ unchecked' = unchecked
    BY <1>0, <1>3 DEF Enqueue, LosePushReply, Inflight, TypeOK
  <2> QED BY <2>1, <2>2 DEF Claims
<1>4. ASSUME NEW s \in Submissions, ApiStep(s), ~CheckDepth(s),
             ~SkipDepthCheck(s), ~Enqueue(s)
      PROVE  Claims' \subseteq Claims
  <2>1. UNCHANGED <<queue, unchecked>>
    BY <1>4 DEF ApiStep, Reject, Throttle, SaveInitial, RequestFails, Accept
  <2>2. Inflight' \subseteq Inflight
    BY <1>0, <1>4 DEF ApiStep, Reject, Throttle, SaveInitial, RequestFails, Accept,
                      Inflight, TypeOK
  <2> QED BY <2>1, <2>2 DEF Claims, Waiting, Queued
<1>5. ASSUME NEW w \in Workers, Dequeue(w) \/ LosePopReply(w)
      PROVE  Claims' \subseteq Claims
  <2>1. Waiting' \subseteq Waiting
    BY <1>0, <1>5, PopEffect DEF Dequeue, LosePopReply, Waiting, TypeOK
  <2>2. Inflight' = Inflight /\ unchecked' = unchecked
    BY <1>5 DEF Dequeue, LosePopReply, Inflight
  <2> QED BY <2>1, <2>2 DEF Claims
<1>6. CASE UNCHANGED <<queue, handler, unchecked>>
  <2>1. Claims' = Claims
    BY <1>6 DEF Claims, Waiting, Queued, Inflight
  <2> QED BY <1>0, <2>1, NoNewClaim
<1> QED
  BY <1>0, <1>1, <1>2, <1>3, <1>4, <1>5, <1>6, NoNewClaim DEF Next, vars, LoopStep,
     ProcessJobStep, Select, DequeueEmpty, Begin, FailJob, CompleteJob,
     LoseOutcome, CleanupPanics, Return, Cancel, Crash, ShutdownStep, CloseStop,
     Stopped, Restart

\* The submissions that wait exceed MaxQueueDepth by less than the number of
\* handlers that can be between the depth check and the push, however often
\* pushes are repeated; only those let in by a failed LLEN come on top.
THEOREM DepthBound == Spec => []QueueDepthBounded
<1>1. Init => DepthInv
  <2> SUFFICES ASSUME Init PROVE DepthInv
    OBVIOUS
  <2>1. Inflight = {} /\ Len(queue) = 0
    BY EmptySeq DEF Init, Inflight
  <2>2. Claims = {}
    BY <2>1 DEF Claims, Waiting, Queued
  <2>3. Cardinality(Claims) = 0
    BY <2>2, FS_EmptySet
  <2> QED BY <2>3, InitTypeInv DEF DepthInv
<1>2. DepthInv => QueueDepthBounded
  <2> SUFFICES ASSUME DepthInv PROVE QueueDepthBounded
    OBVIOUS
  <2>1. IsFiniteSet(Claims) /\ Cardinality(Claims) \in Nat
    BY ClaimsFinite DEF DepthInv, TypeInv
  <2>2. Waiting \ unchecked \subseteq Claims
    BY DEF Claims
  <2>3. Cardinality(Waiting \ unchecked) <= Cardinality(Claims)
        /\ IsFiniteSet(Waiting \ unchecked)
    BY <2>1, <2>2, FS_Subset
  <2>4. Cardinality(Waiting \ unchecked) \in Nat
    BY <2>3, FS_CardinalityType
  <2> QED BY <2>1, <2>3, <2>4 DEF DepthInv, QueueDepthBounded
<1> QED BY <1>1, <1>2, NextDepthInv, PTL DEF Spec

-----------------------------------------------------------------------------
(* The cost of an interruption.  What a submission needs to be decided is  *)
(* a place in the list, a final record, or a worker of a live daemon that  *)
(* will still write to the store.  A submission that lost all three is     *)
(* paid for by the interruption that took the last one, and a worker that  *)
(* has a pop on the wire when its daemon is told to stop takes one more.   *)

Carries(w, s) == job[w] = s /\ wpc[w] \in {"got", "running"} /\ Alive(w)
Safe(s) ==
    \/ Queued(s)
    \/ store[s] \in Terminal
    \/ \E w \in Workers : Carries(w, s)

Exposed == {s \in Submissions \ (vanished \cup unsaved) : Enqueued(s) /\ ~Safe(s)}
Popping == {w \in Workers : wpc[w] = "dequeue" /\ ~Alive(w)}

\* The submissions and workers that n interruptions pay for.
PaidBy(E, P, n) == Cardinality(E) + Cardinality(P) <= LargestPool * n

CostInv == TypeInv /\ Early /\ PaidBy(Exposed, Popping, interrupts)

\* A set of natural numbers with an upper bound has a maximum.
LEMMA MaxOfBounded ==
    ASSUME NEW S \in SUBSET Nat, S # {}, NEW n \in Nat, \A x \in S : x <= n
    PROVE  Max(S) \in S /\ \A y \in S : y <= Max(S)
<1> DEFINE T == {n - x : x \in S}
<1>1. T \subseteq Nat /\ T # {}
  <2>1. \A x \in S : n - x \in Nat /\ n - x \in T
    OBVIOUS
  <2>2. PICK x : x \in S
    OBVIOUS
  <2> QED BY <2>1, <2>2
<1>2. PICK m \in T : \A y \in T : ~(<<y, m>> \in OpToRel(<, Nat))
  BY <1>1, NatLessThanWellFounded, WFMin
<1>3. \A y \in T : m <= y
  <2> SUFFICES ASSUME NEW y \in T, ~(m <= y) PROVE FALSE
    OBVIOUS
  <2>1. y \in Nat /\ m \in Nat
    BY <1>1
  <2> HIDE DEF T
  <2>2. y < m
    BY <2>1
  <2>3. <<y, m>> \in OpToRel(<, Nat)
    BY <2>1, <2>2 DEF OpToRel
  <2> QED BY <1>2, <2>3
<1>4. PICK x \in S : m = n - x
  OBVIOUS
<1>5. \A y \in S : x >= y
  <2> SUFFICES ASSUME NEW y \in S PROVE x >= y
    OBVIOUS
  <2>1. n - y \in T
    OBVIOUS
  <2>2. x \in Nat /\ y \in Nat
    OBVIOUS
  <2> HIDE DEF T
  <2>3. n - x <= n - y
    BY <1>3, <1>4, <2>1
  <2> QED BY <2>2, <2>3
<1> HIDE DEF T
<1>6. \E z \in S : \A y \in S : z >= y
  BY <1>5
<1>7. Max(S) \in S /\ \A y \in S : Max(S) >= y
  BY <1>6 DEF Max
<1> QED BY <1>7

\* No pool has more workers than the largest one.
LEMMA LargestPoolBounds ==
    /\ LargestPool \in Nat
    /\ \A d \in Daemons : /\ IsFiniteSet(WorkersOf(d))
                          /\ Cardinality(WorkersOf(d)) <= LargestPool
<1> DEFINE S == {Cardinality(WorkersOf(d)) : d \in Daemons}
<1>1. ASSUME NEW d \in Daemons
      PROVE  /\ IsFiniteSet(WorkersOf(d))
             /\ Cardinality(WorkersOf(d)) \in Nat
             /\ Cardinality(WorkersOf(d)) <= Cardinality(Workers)
  <2>1. WorkersOf(d) \in SUBSET Workers
    BY DEF WorkersOf
  <2> QED BY <2>1, WorkersAssumption, FS_Subset, FS_CardinalityType
<1>2. Cardinality(Workers) \in Nat
  BY WorkersAssumption, FS_CardinalityType
<1>3. S \in SUBSET Nat /\ S # {} /\ \A x \in S : x <= Cardinality(Workers)
  BY <1>1, WorkersAssumption
<1>4. LargestPool = Max(S)
  BY DEF LargestPool
<1> HIDE DEF S
<1>5. Max(S) \in S /\ \A y \in S : y <= Max(S)
  BY <1>2, <1>3, MaxOfBounded
<1>6. \A d \in Daemons : Cardinality(WorkersOf(d)) \in S
  BY DEF S
<1> QED BY <1>1, <1>3, <1>4, <1>5, <1>6

\* The two counts are of finite sets.
LEMMA CostFinite ==
    /\ IsFiniteSet(Exposed) /\ Cardinality(Exposed) \in Nat
    /\ IsFiniteSet(Popping) /\ Cardinality(Popping) \in Nat
<1>1. Exposed \in SUBSET Submissions /\ Popping \in SUBSET Workers
  BY DEF Exposed, Popping
<1> QED BY <1>1, WorkersAssumption, FS_Subset, FS_CardinalityType

\* Fewer cost no more.
LEMMA PaidLess ==
    ASSUME NEW E, NEW P, NEW F \in SUBSET E, NEW Q \in SUBSET P, NEW n \in Nat,
           IsFiniteSet(E), IsFiniteSet(P), PaidBy(E, P, n)
    PROVE  PaidBy(F, Q, n)
<1>1. /\ Cardinality(F) <= Cardinality(E) /\ Cardinality(Q) <= Cardinality(P)
      /\ IsFiniteSet(F) /\ IsFiniteSet(Q)
  BY FS_Subset
<1>2. /\ Cardinality(F) \in Nat /\ Cardinality(E) \in Nat
      /\ Cardinality(Q) \in Nat /\ Cardinality(P) \in Nat
  BY <1>1, FS_CardinalityType
<1>3. LargestPool * n \in Nat
  BY LargestPoolBounds
<1> QED BY <1>1, <1>2, <1>3 DEF PaidBy

\* A popped submission costs no more than the pop that was on the wire.
LEMMA PaidPop ==
    ASSUME NEW E, NEW P, NEW s, NEW w, NEW F, NEW Q, NEW n \in Nat,
           w \in P, F \subseteq E \cup {s}, Q \subseteq P \ {w},
           IsFiniteSet(E), IsFiniteSet(P), PaidBy(E, P, n)
    PROVE  PaidBy(F, Q, n)
<1>1. /\ IsFiniteSet(E \cup {s}) /\ Cardinality(E) \in Nat
      /\ Cardinality(E \cup {s}) <= Cardinality(E) + 1
  <2>1. Cardinality(E) \in Nat
    BY FS_CardinalityType
  <2>2. /\ IsFiniteSet(E \cup {s})
        /\ Cardinality(E \cup {s}) = IF s \in E THEN Cardinality(E) ELSE Cardinality(E) + 1
    BY FS_AddElement, Zenon
  <2> QED BY <2>1, <2>2
<1>2. /\ IsFiniteSet(P \ {w}) /\ Cardinality(P) \in Nat
      /\ Cardinality(P \ {w}) = Cardinality(P) - 1
  BY FS_RemoveElement, FS_CardinalityType
<1>3. PaidBy(E \cup {s}, P \ {w}, n)
  <2>1. Cardinality(E \cup {s}) \in Nat /\ Cardinality(P \ {w}) \in Nat
    BY <1>1, <1>2, FS_CardinalityType
  <2>2. LargestPool * n \in Nat
    BY LargestPoolBounds
  <2> QED BY <1>1, <1>2, <2>1, <2>2 DEF PaidBy
<1> QED BY <1>1, <1>2, <1>3, PaidLess

\* A union has at most as many elements as its parts.
LEMMA UnionAtMost ==
    ASSUME NEW S, NEW T, IsFiniteSet(S), IsFiniteSet(T)
    PROVE  /\ IsFiniteSet(S \cup T)
           /\ Cardinality(S \cup T) <= Cardinality(S) + Cardinality(T)
<1>1. IsFiniteSet(S \cap T)
  BY FS_Subset
<1>2. Cardinality(S) \in Nat /\ Cardinality(T) \in Nat /\ Cardinality(S \cap T) \in Nat
  BY <1>1, FS_CardinalityType
<1>3. /\ IsFiniteSet(S \cup T)
      /\ Cardinality(S \cup T) = Cardinality(S) + Cardinality(T) - Cardinality(S \cap T)
  BY FS_Union, Zenon
<1> QED BY <1>2, <1>3

\* One more interruption pays for a job or a pop of every worker of a daemon.
LEMMA PaidInterruption ==
    ASSUME TypeOK, NEW d \in Daemons, NEW E, NEW P, NEW n \in Nat,
           NEW B \in SUBSET WorkersOf(d), NEW D \in SUBSET WorkersOf(d),
           B \cap D = {},
           NEW F \in SUBSET (E \cup {job[w] : w \in B}),
           NEW Q \in SUBSET (P \cup D),
           IsFiniteSet(E), IsFiniteSet(P), PaidBy(E, P, n)
    PROVE  PaidBy(F, Q, n + 1)
<1> DEFINE J == {job[w] : w \in B}
           f == [w \in B |-> job[w]]
<1>1. /\ IsFiniteSet(WorkersOf(d)) /\ LargestPool \in Nat
      /\ Cardinality(WorkersOf(d)) <= LargestPool
  BY LargestPoolBounds
<1>2. IsFiniteSet(B) /\ IsFiniteSet(D)
  BY <1>1, FS_Subset
<1>3. IsFiniteSet(J) /\ Cardinality(J) <= Cardinality(B)
  <2>1. f \in Surjection(B, J)
    BY DEF Surjection
  <2> HIDE DEF f, J
  <2> QED BY <1>2, <2>1, FS_Surjection
<1> HIDE DEF J
<1>4. Cardinality(B) + Cardinality(D) <= LargestPool
  <2>1. Cardinality(B \cup D) = Cardinality(B) + Cardinality(D) - Cardinality(B \cap D)
    BY <1>2, FS_Union
  <2>2. Cardinality(B \cap D) = 0
    BY FS_EmptySet
  <2>3. B \cup D \in SUBSET WorkersOf(d)
    OBVIOUS
  <2>4. Cardinality(B \cup D) <= Cardinality(WorkersOf(d))
    BY <1>1, <2>3, FS_Subset
  <2>5. /\ Cardinality(B) \in Nat /\ Cardinality(D) \in Nat
        /\ Cardinality(WorkersOf(d)) \in Nat
    BY <1>1, <1>2, FS_CardinalityType
  <2> QED BY <1>1, <2>1, <2>2, <2>4, <2>5
<1>6. /\ IsFiniteSet(E \cup J) /\ Cardinality(E \cup J) <= Cardinality(E) + Cardinality(J)
      /\ IsFiniteSet(P \cup D) /\ Cardinality(P \cup D) <= Cardinality(P) + Cardinality(D)
  BY <1>2, <1>3, UnionAtMost
<1>7. PaidBy(E \cup J, P \cup D, n + 1)
  <2>1. /\ Cardinality(E \cup J) \in Nat /\ Cardinality(P \cup D) \in Nat
        /\ Cardinality(E) \in Nat /\ Cardinality(J) \in Nat
        /\ Cardinality(P) \in Nat /\ Cardinality(D) \in Nat
        /\ Cardinality(B) \in Nat
    BY <1>2, <1>3, <1>6, FS_CardinalityType
  <2>2. LargestPool * (n + 1) = LargestPool * n + LargestPool /\ LargestPool * n \in Nat
    BY <1>1
  <2>3. Cardinality(E) + Cardinality(P) <= LargestPool * n
    BY DEF PaidBy
  <2>4. Cardinality(E \cup J) + Cardinality(P \cup D) <= LargestPool * n + LargestPool
    BY <1>1, <1>3, <1>4, <1>6, <2>1, <2>2, <2>3
  <2> QED BY <2>2, <2>4 DEF PaidBy
<1>8. F \in SUBSET (E \cup J) /\ n + 1 \in Nat
  BY DEF J
<1> QED BY <1>6, <1>7, <1>8, PaidLess

\* A step that exposes nothing and starts no doomed pop costs nothing.
LEMMA NoCost ==
    ASSUME CostInv, Exposed' \subseteq Exposed, Popping' \subseteq Popping,
           interrupts' = interrupts
    PROVE  PaidBy(Exposed', Popping', interrupts')
<1>1. interrupts \in Nat /\ PaidBy(Exposed, Popping, interrupts)
  BY DEF CostInv, TypeInv, TypeOK
<1> QED BY <1>1, CostFinite, PaidLess

\* A submission that is as safe as it was, and no more enqueued than it was, is
\* as exposed as it was.
LEMMA NotExposed ==
    ASSUME vanished' = vanished, unsaved \subseteq unsaved',
           \A s \in Submissions : Enqueued(s)' /\ ~Safe(s)' => Enqueued(s) /\ ~Safe(s)
    PROVE  Exposed' \subseteq Exposed
BY DEF Exposed

\* The steps of a handler cost nothing.
LEMMA ApiCost ==
    ASSUME CostInv, NEW s \in Submissions, ApiStep(s) \/ LosePushReply(s)
    PROVE  PaidBy(Exposed', Popping', interrupts')
<1>0. TypeOK /\ Early
  BY DEF CostInv, TypeInv
<1>1. UNCHANGED <<wpc, job, daemon, interrupts, vanished, unsaved>>
  BY DEF ApiStep, Reject, Throttle, CheckDepth, SkipDepthCheck, SaveInitial, RequestFails, Enqueue,
         Accept, LosePushReply
<1>2. Popping' = Popping
  BY <1>1 DEF Popping, Alive
<1>3. \A t : (\E w \in Workers : Carries(w, t))' <=> \E w \in Workers : Carries(w, t)
  BY <1>1 DEF Carries, Alive
<1>4. ASSUME NEW t \in Submissions, Enqueued(t)', ~Safe(t)'
      PROVE  Enqueued(t) /\ ~Safe(t)
  <2>1. CASE Enqueue(s) \/ LosePushReply(s)
    <3>1. queue' = Append(queue, s) /\ store' = store
      BY <2>1 DEF Enqueue, LosePushReply
    <3>2. Queued(t)' <=> Queued(t) \/ t = s
      BY <1>0, <3>1, PushEffect DEF TypeOK
    <3>3. t # s
      BY <1>4, <3>2 DEF Safe
    <3>4. Enqueued(t)
      BY <1>0, <1>4, <2>1, <3>3 DEF Enqueue, LosePushReply, Enqueued, TypeOK
    <3> QED BY <1>3, <1>4, <3>1, <3>2, <3>4 DEF Safe
  <2>2. CASE SaveInitial(s)
    <3>1. /\ handler[s] = "checked" /\ s \notin unanswered
          /\ UNCHANGED <<queue, unanswered>>
      BY <1>0, <2>2 DEF SaveInitial, Early
    <3>2. t # s /\ Enqueued(t)
      BY <1>0, <1>4, <2>2, <3>1 DEF SaveInitial, Enqueued, TypeOK
    <3>3. store'[t] = store[t]
      BY <1>0, <2>2, <3>2 DEF SaveInitial, TypeOK
    <3> QED BY <1>3, <1>4, <3>1, <3>2, <3>3 DEF Safe, Queued
  <2>3. CASE \/ Reject(s) \/ Throttle(s) \/ CheckDepth(s) \/ SkipDepthCheck(s)
             \/ RequestFails(s) \/ Accept(s)
    <3>1. UNCHANGED <<queue, store, unanswered>>
      BY <2>3 DEF Reject, Throttle, CheckDepth, SkipDepthCheck, RequestFails, Accept
    <3>2. Enqueued(t)
      BY <1>0, <1>4, <2>3, <3>1 DEF Reject, Throttle, CheckDepth, SkipDepthCheck, RequestFails,
                                   Accept, Enqueued, TypeOK
    <3> QED BY <1>3, <1>4, <3>1, <3>2 DEF Safe, Queued
  <2> QED BY <2>1, <2>2, <2>3 DEF ApiStep
<1> QED BY <1>1, <1>2, <1>4, NotExposed, NoCost

\* A worker's move that touches neither list nor store costs nothing: it carries
\* nothing before or after.
LEMMA IdleCost ==
    ASSUME CostInv, NEW w \in Workers, Select(w) \/ DequeueEmpty(w) \/ Return(w)
    PROVE  PaidBy(Exposed', Popping', interrupts')
<1>0. TypeOK
  BY DEF CostInv, TypeInv
<1>1. UNCHANGED <<handler, queue, store, daemon, interrupts, unanswered,
                  vanished, unsaved>>
  BY DEF Select, DequeueEmpty, Return
<1>2. /\ \A v \in Workers : v # w => job'[v] = job[v] /\ wpc'[v] = wpc[v]
      /\ wpc[w] \notin {"got", "running"} /\ wpc'[w] \notin {"got", "running"}
      /\ wpc'[w] = "dequeue" => Alive(w)
  BY <1>0 DEF Select, DequeueEmpty, Return, StopRequested, Alive, TypeOK
<1>3. \A v \in Workers : Alive(v)' <=> Alive(v)
  BY <1>1 DEF Alive
<1>4. Popping' \subseteq Popping
  BY <1>2, <1>3 DEF Popping
<1>5. \A t : \A v \in Workers : Carries(v, t) => Carries(v, t)'
  BY <1>2, <1>3 DEF Carries
<1>6. \A t \in Submissions : Enqueued(t)' /\ ~Safe(t)' => Enqueued(t) /\ ~Safe(t)
  BY <1>1, <1>5 DEF Enqueued, Safe, Queued
<1> QED BY <1>1, <1>4, <1>6, NotExposed, NoCost

\* A pop for a live daemon moves the job to a worker that carries it; one for a
\* daemon that was told to stop exposes it and ends that pop.
LEMMA DequeueCost ==
    ASSUME CostInv, NEW w \in Workers, Dequeue(w)
    PROVE  PaidBy(Exposed', Popping', interrupts')
<1>0. TypeOK /\ interrupts \in Nat /\ PaidBy(Exposed, Popping, interrupts)
  BY DEF CostInv, TypeInv, TypeOK
<1>1. /\ wpc[w] = "dequeue" /\ queue # <<>> /\ queue' = Tail(queue)
      /\ job' = [job EXCEPT ![w] = Head(queue)]
      /\ wpc' = [wpc EXCEPT ![w] = "got"]
      /\ UNCHANGED <<handler, store, daemon, interrupts, unanswered, vanished,
                     unsaved>>
  BY DEF Dequeue
<1>2. \A v \in Workers : Alive(v)' <=> Alive(v)
  BY <1>1 DEF Alive
<1>3. /\ \A v \in Workers : v # w => job'[v] = job[v] /\ wpc'[v] = wpc[v]
      /\ job'[w] = Head(queue) /\ wpc'[w] = "got"
  BY <1>0, <1>1 DEF TypeOK
<1>4. \A t : \A v \in Workers : Carries(v, t) => Carries(v, t)'
  BY <1>1, <1>2, <1>3 DEF Carries
<1>5. \A t : Queued(t) /\ t # Head(queue) => Queued(t)'
  BY <1>0, <1>1, PopEffect DEF TypeOK
<1>6. ASSUME NEW t \in Submissions, t # Head(queue), Enqueued(t)', ~Safe(t)'
      PROVE  Enqueued(t) /\ ~Safe(t)
  BY <1>1, <1>4, <1>5, <1>6 DEF Enqueued, Safe
<1>7. Popping' \subseteq Popping \ {w}
  BY <1>2, <1>3 DEF Popping
<1>8. CASE Alive(w)
  <2>1. ASSUME NEW t, t = Head(queue) PROVE Carries(w, t)'
    BY <1>1, <1>2, <1>3, <1>8, <2>1 DEF Carries
  <2>2. \A t : t = Head(queue) => Safe(t)'
    BY <2>1 DEF Safe
  <2>3. \A t \in Submissions : Enqueued(t)' /\ ~Safe(t)' => Enqueued(t) /\ ~Safe(t)
    BY <1>6, <2>2
  <2> QED BY <1>1, <1>7, <2>3, NotExposed, NoCost
<1>9. CASE ~Alive(w)
  <2>1. w \in Popping
    BY <1>1, <1>9 DEF Popping
  <2>2. /\ Exposed' \subseteq Exposed \cup {Head(queue)}
        /\ Popping' \subseteq Popping \ {w}
    BY <1>1, <1>6, <1>7 DEF Exposed
  <2>3. PaidBy(Exposed', Popping', interrupts)
    BY <1>0, <2>1, <2>2, CostFinite, PaidPop, Zenon
  <2> QED BY <1>1, <2>3
<1> QED BY <1>8, <1>9

\* A job that vanishes with the reply is accounted for by vanished.
LEMMA VanishCost ==
    ASSUME CostInv, NEW w \in Workers, LosePopReply(w)
    PROVE  PaidBy(Exposed', Popping', interrupts')
<1>0. TypeOK
  BY DEF CostInv, TypeInv
<1>1. /\ queue # <<>> /\ queue' = Tail(queue)
      /\ vanished' = vanished \cup {Head(queue)}
      /\ wpc' = [wpc EXCEPT ![w] = IF @ = "dequeue" THEN "select" ELSE @]
      /\ UNCHANGED <<handler, store, job, daemon, interrupts, unanswered, unsaved>>
  BY DEF LosePopReply
<1>2. \A v \in Workers : Alive(v)' <=> Alive(v)
  BY <1>1 DEF Alive
<1>3. \A v \in Workers : \/ wpc'[v] = wpc[v]
                         \/ wpc[v] = "dequeue" /\ wpc'[v] = "select"
  BY <1>0, <1>1 DEF TypeOK
<1>4. \A t : \A v \in Workers : Carries(v, t) => Carries(v, t)'
  BY <1>1, <1>2, <1>3 DEF Carries
<1>5. \A t : Queued(t) /\ t # Head(queue) => Queued(t)'
  BY <1>0, <1>1, PopEffect DEF TypeOK
<1>6. ASSUME NEW t \in Submissions, t # Head(queue), Enqueued(t)', ~Safe(t)'
      PROVE  Enqueued(t) /\ ~Safe(t)
  BY <1>1, <1>4, <1>5, <1>6 DEF Enqueued, Safe
<1>7. Exposed' \subseteq Exposed
  BY <1>1, <1>6 DEF Exposed
<1>8. Popping' \subseteq Popping
  BY <1>2, <1>3 DEF Popping
<1> QED BY <1>1, <1>7, <1>8, NoCost

\* A step of ProcessJob costs nothing: RUNNING is written by a worker that
\* carries the job on, the final record makes it safe, and one that could not be
\* stored is accounted for by unsaved.
LEMMA WriteCost ==
    ASSUME CostInv, NEW w \in Workers, Write(w)
    PROVE  PaidBy(Exposed', Popping', interrupts')
<1>0. TypeOK /\ TypeInv
  BY DEF CostInv, TypeInv
<1>1. PICK status \in {"RUNNING", "FAILED", "COMPLETED"}, next \in {"running", "finished"} :
         /\ store' \in {store, Saved(w, status)}
         /\ wpc' = [wpc EXCEPT ![w] = next]
         /\ next = "finished" => /\ status \in Terminal
                                 /\ store' = Saved(w, status) \/ job[w] \in unsaved'
  BY <1>0, WriteEffect
<1>2. /\ wpc[w] \in {"got", "running"} /\ job[w] \in Submissions
      /\ UNCHANGED <<handler, queue, job, daemon, interrupts, unanswered, vanished>>
      /\ unsaved \subseteq unsaved'
  BY <1>0, WriteFrame
<1>3. \A v \in Workers : Alive(v)' <=> Alive(v)
  BY <1>2 DEF Alive
<1>4. /\ \A v \in Workers : v # w => wpc'[v] = wpc[v]
      /\ wpc'[w] = next
  BY <1>0, <1>1 DEF TypeOK
<1>5. Popping' \subseteq Popping
  BY <1>3, <1>4 DEF Popping
<1>6. \A t \in Submissions : t # job[w] => store'[t] = store[t]
  BY <1>0, <1>1, <1>2 DEF Saved, TypeOK
<1>7. \A t : \A v \in Workers : t # job[w] /\ Carries(v, t) => Carries(v, t)'
  BY <1>2, <1>3, <1>4 DEF Carries
<1>8. ASSUME NEW t \in Exposed' PROVE t \in Exposed
  <2>1. /\ t \in Submissions /\ t \notin vanished \cup unsaved /\ t \notin unsaved'
        /\ Enqueued(t) /\ ~Safe(t)'
    BY <1>2, <1>8 DEF Exposed, Enqueued
  <2>2. CASE t # job[w]
    BY <1>2, <1>6, <1>7, <2>1, <2>2 DEF Exposed, Safe, Queued
  <2>3. CASE t = job[w] /\ Alive(w)
    <3>1. CASE next = "finished"
      <4>1. store' = [store EXCEPT ![job[w]] = status] /\ status \in Terminal
        BY <1>1, <2>1, <2>3, <3>1 DEF Saved
      <4>2. store'[t] \in Terminal
        BY <1>0, <2>1, <2>3, <4>1 DEF TypeOK
      <4> QED BY <2>1, <4>2 DEF Safe
    <3>2. CASE next = "running"
      <4>1. Carries(w, t)'
        BY <1>2, <1>3, <1>4, <2>3, <3>2 DEF Carries
      <4> QED BY <2>1, <4>1 DEF Safe
    <3> QED BY <3>1, <3>2
  <2>4. CASE t = job[w] /\ ~Alive(w)
    <3>1. store' = store
      BY <1>1, <2>4 DEF Saved
    <3>2. \A v \in Workers : Carries(v, t) => Carries(v, t)'
      BY <1>2, <1>3, <1>4, <2>4 DEF Carries
    <3> QED BY <1>2, <2>1, <3>1, <3>2 DEF Exposed, Safe, Queued
  <2> QED BY <2>2, <2>3, <2>4
<1> QED BY <1>2, <1>5, <1>8, NoCost

\* A panic in Cleanup costs nothing: the worker carries nothing any more, and
\* FAILED is final too.
LEMMA PanicCost ==
    ASSUME CostInv, NEW w \in Workers, CleanupPanics(w)
    PROVE  PaidBy(Exposed', Popping', interrupts')
<1>0. TypeOK
  BY DEF CostInv, TypeInv
<1>1. /\ UNCHANGED <<handler, queue, daemon, interrupts, unanswered, vanished, unsaved>>
      /\ wpc[w] = "finished" /\ store' = Saved(w, "FAILED")
      /\ job' = [job EXCEPT ![w] = NoJob] /\ wpc' = [wpc EXCEPT ![w] = "select"]
  BY DEF CleanupPanics
<1>2. /\ \A v \in Workers : v # w => job'[v] = job[v] /\ wpc'[v] = wpc[v]
      /\ wpc'[w] = "select"
  BY <1>0, <1>1 DEF TypeOK
<1>3. \A v \in Workers : Alive(v)' <=> Alive(v)
  BY <1>1 DEF Alive
<1>4. Popping' \subseteq Popping
  BY <1>2, <1>3 DEF Popping
<1>5. \A t : \A v \in Workers : Carries(v, t) => Carries(v, t)'
  BY <1>1, <1>2, <1>3 DEF Carries
<1>6. \A t \in Submissions : store[t] \in Terminal => store'[t] \in Terminal
  BY <1>0, <1>1 DEF Saved, Terminal, TypeOK
<1>7. \A t \in Submissions : Enqueued(t)' /\ ~Safe(t)' => Enqueued(t) /\ ~Safe(t)
  BY <1>1, <1>5, <1>6 DEF Enqueued, Safe, Queued
<1> QED BY <1>1, <1>4, <1>7, NotExposed, NoCost

\* The signal, or the crash, exposes what the workers of a live daemon carry and
\* leaves pops on the wire; a daemon that was already told to stop is paid for.
LEMMA InterruptionCost ==
    ASSUME CostInv, NEW d \in Daemons, Cancel(d) \/ Crash(d)
    PROVE  PaidBy(Exposed', Popping', interrupts')
<1>0. TypeOK /\ interrupts \in Nat /\ PaidBy(Exposed, Popping, interrupts)
  BY DEF CostInv, TypeInv, TypeOK
<1>1. /\ UNCHANGED <<handler, queue, store, unanswered, vanished, unsaved>>
      /\ interrupts' = interrupts + 1
  BY DEF Cancel, Crash
<1> DEFINE B == {w \in WorkersOf(d) : wpc[w] \in {"got", "running"}}
           D == {w \in WorkersOf(d) : wpc[w] = "dequeue"}
<1>2. /\ \A w \in Workers : w \notin WorkersOf(d) =>
             /\ job'[w] = job[w] /\ wpc'[w] = wpc[w]
             /\ Alive(w)' <=> Alive(w)
      /\ \A w \in Workers : wpc'[w] \in {wpc[w], "exited"}
  BY <1>0 DEF Cancel, Crash, WorkersOf, Alive, TypeOK
<1>3. Popping' \subseteq Popping \cup D
  BY <1>2 DEF Popping
<1>4. ASSUME NEW t \in Exposed', t \notin Exposed PROVE t \in {job[w] : w \in B}
  <2>1. Enqueued(t)' <=> Enqueued(t)
    BY <1>1 DEF Enqueued
  <2>2. t \in Submissions \ (vanished \cup unsaved) /\ Enqueued(t) /\ ~Safe(t)' /\ Safe(t)
    BY <1>1, <1>4, <2>1 DEF Exposed
  <2>3. PICK w \in Workers : Carries(w, t) /\ ~Carries(w, t)'
    BY <1>1, <2>2 DEF Safe, Queued
  <2>4. w \in WorkersOf(d)
    BY <1>2, <2>3 DEF Carries
  <2>5. w \in B /\ job[w] = t
    BY <2>3, <2>4 DEF Carries
  <2> QED BY <2>5
<1>5. /\ Exposed' \in SUBSET (Exposed \cup {job[w] : w \in B})
      /\ Popping' \in SUBSET (Popping \cup D)
      /\ B \in SUBSET WorkersOf(d) /\ D \in SUBSET WorkersOf(d) /\ B \cap D = {}
  BY <1>3, <1>4
<1> HIDE DEF B, D
<1>6. PaidBy(Exposed', Popping', interrupts + 1)
  BY <1>0, <1>5, CostFinite, PaidInterruption
<1> QED BY <1>1, <1>6

\* The rest of a shutdown, and a restart, cost nothing: the workers of a daemon
\* that is down have exited.
LEMMA ShutdownCost ==
    ASSUME CostInv, NEW d \in Daemons, ShutdownStep(d)
    PROVE  PaidBy(Exposed', Popping', interrupts')
<1>0. TypeOK /\ Down
  BY DEF CostInv, TypeInv
<1>1. UNCHANGED <<handler, queue, store, job, interrupts, unanswered, vanished,
                  unsaved>>
  BY DEF ShutdownStep, CloseStop, Stopped, Restart
<1>2. \A w \in Workers :
         \/ wpc'[w] = wpc[w] /\ (Alive(w)' <=> Alive(w))
         \/ wpc[w] = "exited" /\ wpc'[w] = "select"
  BY <1>0 DEF ShutdownStep, CloseStop, Stopped, Restart, Alive, Down, TypeOK
<1>3. Popping' \subseteq Popping
  BY <1>2 DEF Popping
<1>4. \A t : \A v \in Workers : Carries(v, t) => Carries(v, t)'
  BY <1>1, <1>2 DEF Carries
<1>5. \A t \in Submissions : Enqueued(t)' /\ ~Safe(t)' => Enqueued(t) /\ ~Safe(t)
  BY <1>1, <1>4 DEF Enqueued, Safe, Queued
<1> QED BY <1>1, <1>3, <1>5, NotExposed, NoCost

\* CostInv is preserved by every step.
LEMMA NextCostInv == CostInv /\ [Next]_vars => CostInv'
<1> SUFFICES ASSUME CostInv, [Next]_vars PROVE CostInv'
  OBVIOUS
<1>0. TypeInv' /\ Early'
  BY NextTypeInv, NextEarly DEF CostInv
<1>1. CASE UNCHANGED vars
  <2>1. Exposed' = Exposed /\ Popping' = Popping /\ interrupts' = interrupts
    BY <1>1 DEF vars, Exposed, Popping, Safe, Carries, Alive, Enqueued, Queued
  <2> QED BY <1>0, <2>1, NoCost DEF CostInv
<1>2. CASE Next
  <2>1. PaidBy(Exposed', Popping', interrupts')
    BY <1>2, ApiCost, IdleCost, DequeueCost, VanishCost, WriteCost, PanicCost,
       InterruptionCost, ShutdownCost DEF Next, LoopStep, ProcessJobStep, Write
  <2> QED BY <1>0, <2>1 DEF CostInv
<1> QED BY <1>1, <1>2

\* However many submissions, workers and daemons there are, and however stops,
\* crashes, restarts, repeated pushes, lost replies and failing writes mix: an
\* interruption costs at most one submission per worker of a pool, a lost reply
\* and a failed final write at most one each.
THEOREM LossesBounded == Spec => []LossBounded
<1>1. Init => CostInv
  <2> SUFFICES ASSUME Init PROVE CostInv
    OBVIOUS
  <2>1. Exposed = {} /\ Popping = {} /\ interrupts = 0
    BY DEF Init, Exposed, Popping, Enqueued
  <2>2. Cardinality(Exposed) = 0 /\ Cardinality(Popping) = 0
    BY <2>1, FS_EmptySet
  <2>3. LargestPool * 0 = 0
    BY LargestPoolBounds
  <2>4. PaidBy(Exposed, Popping, interrupts)
    BY <2>1, <2>2, <2>3 DEF PaidBy
  <2>5. Early
    BY DEF Init, Early
  <2> QED BY <2>4, <2>5, InitTypeInv DEF CostInv
<1>2. CostInv => LossBounded
  <2> SUFFICES ASSUME CostInv PROVE LossBounded
    OBVIOUS
  <2>1. Lost \subseteq Exposed \cup (vanished \cup unsaved)
    BY DEF Lost, Exposed, Safe, Carries, Owned, OwnedBy
  <2>2. IsFiniteSet(vanished) /\ IsFiniteSet(unsaved) /\ interrupts \in Nat
    BY FS_Subset DEF CostInv, TypeInv, TypeOK
  <2>3. /\ IsFiniteSet(vanished \cup unsaved)
        /\ Cardinality(vanished \cup unsaved)
              <= Cardinality(vanished) + Cardinality(unsaved)
    BY <2>2, UnionAtMost
  <2>4. /\ IsFiniteSet(Exposed \cup (vanished \cup unsaved))
        /\ Cardinality(Exposed \cup (vanished \cup unsaved))
              <= Cardinality(Exposed) + Cardinality(vanished \cup unsaved)
    BY <2>3, CostFinite, UnionAtMost
  <2>5. /\ Cardinality(Lost) <= Cardinality(Exposed \cup (vanished \cup unsaved))
        /\ IsFiniteSet(Lost)
    BY <2>1, <2>4, FS_Subset
  <2>6. /\ Cardinality(Lost) \in Nat /\ Cardinality(vanished) \in Nat
        /\ Cardinality(unsaved) \in Nat /\ Cardinality(vanished \cup unsaved) \in Nat
        /\ Cardinality(Exposed \cup (vanished \cup unsaved)) \in Nat
        /\ Cardinality(Exposed) \in Nat /\ Cardinality(Popping) \in Nat
        /\ LargestPool * interrupts \in Nat
    BY <2>2, <2>3, <2>4, <2>5, CostFinite, FS_CardinalityType, LargestPoolBounds
  <2>7. Cardinality(Exposed) + Cardinality(Popping) <= LargestPool * interrupts
    BY DEF CostInv, PaidBy
  <2> QED BY <2>3, <2>4, <2>5, <2>6, <2>7 DEF LossBounded
<1> QED BY <1>1, <1>2, NextCostInv, PTL DEF Spec
=============================================================================

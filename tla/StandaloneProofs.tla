-------------------------- MODULE StandaloneProofs --------------------------
(***************************************************************************)
(* Proofs about Standalone, for any submissions, any size of the pool and  *)
(* of the channel, and any depth limit.                                    *)
(***************************************************************************)
EXTENDS Standalone, FiniteSetTheorems, SequenceTheorems, TLAPS

USE StandaloneAssumption
    DEF Goes, Moves, Running, Listening, handlers, queueVars, pool, mainVars

-----------------------------------------------------------------------------
(* The inductive invariant, in parts.                                      *)

\* A worker that evaluates holds a job, one that does not holds none.
Busy == {"got", "running", "finished"}
Holding == \A w \in Workers : job[w] # NoJob <=> wpc[w] \in Busy

\* p.activeJobs counts the workers inside ProcessJob.
Counted == {w \in Workers : wpc[w] \in {"running", "finished"}}
ActiveExact == active = Cardinality(Counted)

TypeInv == TypeOK /\ Holding /\ ActiveExact

\* A step of a worker goroutine.
WorkerStep(w) == LoopStep(w) \/ ProcessJobStep(w)

\* The order of main's calls after the signal.
Closed == {"closeBus", "closeStore", "stopPool", "wait", "exited"}
MainOrder ==
    /\ main \in {"serving", "shutdown"} => ~timedOut
    /\ closed => main \in Closed
    /\ main = "exited" => \A w \in Workers : wpc[w] = "exited"

\* Once Shutdown came back without giving up, every handler has answered.
NoHandlerLeft ==
    main \notin {"serving", "shutdown"} /\ ~timedOut =>
        \A s \in Submissions : handler[s] \in Answered \ {"panicked"}
PanicInv == MainOrder /\ NoHandlerLeft /\ PanicOnlyAfterTimeout

Owned(s) == \E w \in Workers : job[w] = s /\ wpc[w] # "finished"

\* The three places of a submission exclude one another, no submission is twice
\* in the channel or with two workers, and the enqueued ones are somewhere.
PlaceInv ==
    /\ \A i, j \in 1 .. Len(ch) : ch[i] = ch[j] => i = j
    /\ \A v, w \in Workers :
          job[v] = job[w] /\ job[v] # NoJob
              /\ wpc[v] # "finished" /\ wpc[w] # "finished" => v = w
    /\ \A s \in Submissions :
          /\ ~(Contains(ch, s) /\ Owned(s))
          /\ ~(Contains(ch, s) /\ s \in decided)
          /\ ~(Owned(s) /\ s \in decided)
          /\ Enqueued(s) <=> Contains(ch, s) \/ Owned(s) \/ s \in decided

\* The record of a decided submission, until the store is closed.
StoreInv ==
    \A s \in decided :
        store[s] \in Terminal \/ main \in {"stopPool", "wait", "exited"}

-----------------------------------------------------------------------------
(* The channel as a sequence.                                              *)

\* What Append adds to a sequence without repetitions.
LEMMA AppendFacts ==
    ASSUME NEW S, NEW q \in Seq(S), NEW e \in S
    PROVE  /\ Append(q, e) \in Seq(S) /\ Len(Append(q, e)) = Len(q) + 1
           /\ \A x : Contains(Append(q, e), x) <=> Contains(q, x) \/ x = e
           /\ ~Contains(q, e) /\ (\A i, j \in 1 .. Len(q) : q[i] = q[j] => i = j)
                => \A i, j \in 1 .. Len(Append(q, e)) :
                      Append(q, e)[i] = Append(q, e)[j] => i = j
<1>1. /\ Append(q, e) \in Seq(S) /\ Len(Append(q, e)) = Len(q) + 1
      /\ \A i \in 1 .. Len(q) : Append(q, e)[i] = q[i]
      /\ Append(q, e)[Len(q) + 1] = e
      /\ Len(q) \in Nat
  BY AppendProperties, LenProperties
<1> QED BY <1>1 DEF Contains

\* What Tail takes from a sequence without repetitions.
LEMMA TailFacts ==
    ASSUME NEW S, NEW q \in Seq(S), q # <<>>,
           \A i, j \in 1 .. Len(q) : q[i] = q[j] => i = j
    PROVE  /\ Head(q) \in S /\ Contains(q, Head(q))
           /\ Tail(q) \in Seq(S) /\ Len(Tail(q)) = Len(q) - 1
           /\ \A x : Contains(Tail(q), x) <=> Contains(q, x) /\ x # Head(q)
           /\ \A i, j \in 1 .. Len(Tail(q)) : Tail(q)[i] = Tail(q)[j] => i = j
<1>1. /\ Head(q) \in S /\ Tail(q) \in Seq(S) /\ Len(Tail(q)) = Len(q) - 1
      /\ \A i \in 1 .. Len(Tail(q)) : Tail(q)[i] = q[i + 1]
      /\ Len(q) \in Nat \ {0} /\ Head(q) = q[1]
  BY HeadTailProperties, EmptySeq
<1>2. Contains(q, Head(q))
  BY <1>1 DEF Contains
<1>3. ASSUME NEW x, Contains(Tail(q), x) PROVE Contains(q, x) /\ x # Head(q)
  BY <1>1, <1>3 DEF Contains
<1>4. ASSUME NEW x, Contains(q, x), x # Head(q) PROVE Contains(Tail(q), x)
  <2>1. PICK i \in 1 .. Len(q) : q[i] = x
    BY <1>4 DEF Contains
  <2>2. i - 1 \in 1 .. Len(Tail(q)) /\ Tail(q)[i - 1] = x
    BY <1>1, <1>4, <2>1
  <2> QED BY <2>2 DEF Contains
<1> QED BY <1>1, <1>2, <1>3, <1>4

-----------------------------------------------------------------------------
(* Type correctness.                                                       *)

\* The counter follows the set of workers inside ProcessJob.
LEMMA CountedFinite ==
    /\ IsFiniteSet(Counted) /\ Cardinality(Counted) \in 0 .. Cardinality(Workers)
    /\ Cardinality(Workers) \in Nat
<1>1. Counted \in SUBSET Workers
  BY DEF Counted
<1> QED BY <1>1, FS_Subset, FS_CardinalityType

\* TypeInv holds initially.
LEMMA InitTypeInv == Init => TypeInv
<1> SUFFICES ASSUME Init PROVE TypeInv
  OBVIOUS
<1>1. Counted = {}
  BY DEF Init, Counted
<1>2. active = 0 /\ ActiveExact
  BY <1>1, FS_EmptySet DEF Init, ActiveExact
<1>3. active \in 0 .. Cardinality(Workers)
  BY <1>2, CountedFinite
<1>4. ch \in Seq(Submissions) /\ Len(ch) <= Capacity
  BY EmptySeq DEF Init
<1>5. Holding
  BY DEF Init, Holding, Busy
<1> QED
  BY <1>2, <1>3, <1>4, <1>5
     DEF Init, TypeInv, TypeOK, HandlerStates, WorkerStates, MainStates, StoredStatus

\* TypeInv is preserved by every step.
LEMMA NextTypeInv == TypeInv /\ [Next]_vars => TypeInv'
<1> SUFFICES ASSUME TypeInv, [Next]_vars PROVE TypeInv'
  OBVIOUS
<1> USE DEF TypeInv, HandlerStates, WorkerStates, MainStates
<1>0. ASSUME UNCHANGED wpc, UNCHANGED active PROVE ActiveExact'
  BY <1>0 DEF ActiveExact, Counted
<1>1. ASSUME NEW s \in Submissions, HandlerStep(s) PROVE TypeInv'
  <2>1. UNCHANGED <<closed, pool, mainVars, decided>>
    BY <1>1 DEF HandlerStep, Arrive, Refuse, CheckDepth, SaveInitial, CheckClosed, Send,
                ClientGone, Accept
  <2>2. handler' \in [Submissions -> HandlerStates]
    <3>1. \E state \in HandlerStates : handler' = [handler EXCEPT ![s] = state]
      BY <1>1 DEF HandlerStep, Arrive, Refuse, CheckDepth, SaveInitial, CheckClosed, Send,
                  ClientGone, Accept
    <3> QED BY <3>1 DEF TypeOK
  <2>3. ch' \in Seq(Submissions) /\ Len(ch') <= Capacity
    <3>1. CASE UNCHANGED ch
      BY <3>1 DEF TypeOK
    <3>2. CASE Len(ch) < Capacity /\ ch' = Append(ch, s)
      BY <3>2, AppendFacts, LenProperties DEF TypeOK
    <3> QED
      BY <1>1, <3>1, <3>2 DEF HandlerStep, Arrive, Refuse, CheckDepth, SaveInitial,
                              CheckClosed, Send, ClientGone, Accept
  <2>4. store' \in [Submissions -> StoredStatus \cup {"ABSENT"}]
    BY <1>1 DEF HandlerStep, Arrive, Refuse, CheckDepth, SaveInitial, CheckClosed, Send,
                ClientGone, Accept, TypeOK, StoredStatus
  <2> QED BY <1>0, <2>1, <2>2, <2>3, <2>4 DEF TypeOK, Holding
<1>2. ASSUME NEW w \in Workers, WorkerStep(w) PROVE TypeInv'
  <2>1. CASE Select(w) \/ DequeueTimeout(w) \/ DequeueClosed(w)
    <3>1. /\ wpc[w] \in {"select", "dequeue"}
          /\ \E where \in {"select", "dequeue", "exited"} :
                wpc' = [wpc EXCEPT ![w] = where]
          /\ UNCHANGED <<handlers, queueVars, store, job, active, stopCh, mainVars,
                         decided>>
      BY <2>1 DEF Select, DequeueTimeout, DequeueClosed
    <3>2. Counted' = Counted
      BY <3>1 DEF Counted, TypeOK
    <3> QED BY <3>1, <3>2 DEF TypeOK, Holding, Busy, ActiveExact
  <2>2. CASE Dequeue(w)
    <3>1. /\ Head(ch) \in Submissions /\ Tail(ch) \in Seq(Submissions)
          /\ Len(Tail(ch)) <= Capacity
      BY <2>2, HeadTailProperties, EmptySeq DEF Dequeue, TypeOK
    <3>2. Counted' = Counted
      BY <2>2 DEF Dequeue, Counted, TypeOK
    <3>3. TypeOK'
      BY <2>2, <3>1 DEF Dequeue, TypeOK
    <3>4. Holding'
      BY <2>2, <3>1 DEF Dequeue, TypeOK, Holding, Busy
    <3> QED BY <2>2, <3>2, <3>3, <3>4 DEF Dequeue, ActiveExact
  <2>3. CASE Begin(w)
    <3>1. Counted' = Counted \cup {w} /\ w \notin Counted
      BY <2>3 DEF Begin, Counted, TypeOK
    <3>2. ActiveExact'
      BY <2>3, <3>1, CountedFinite, FS_AddElement DEF Begin, ActiveExact
    <3>3. active' \in 0 .. Cardinality(Workers)
      <4>1. Counted' \in SUBSET Workers
        BY DEF Counted
      <4>2. Cardinality(Counted') <= Cardinality(Workers)
        BY <4>1, FS_Subset
      <4>3. active' = active + 1 /\ active \in Nat /\ Cardinality(Workers) \in Nat
        BY <2>3, CountedFinite DEF Begin, TypeOK
      <4>4. active' = Cardinality(Counted')
        BY <3>2 DEF ActiveExact
      <4> QED BY <4>2, <4>3, <4>4
    <3>4. store' \in [Submissions -> StoredStatus \cup {"ABSENT"}]
      BY <2>3 DEF Begin, TypeOK, StoredStatus
    <3>5. Holding' /\ wpc' \in [Workers -> WorkerStates]
      BY <2>3 DEF Begin, Holding, Busy, TypeOK
    <3> QED BY <2>3, <3>2, <3>3, <3>4, <3>5 DEF Begin, TypeOK
  <2>4. CASE Finish(w)
    <3>1. Counted' = Counted
      BY <2>4 DEF Finish, Counted, TypeOK
    <3>2. job[w] \in Submissions
      BY <2>4 DEF Finish, TypeOK, Holding, Busy
    <3>3. store' \in [Submissions -> StoredStatus \cup {"ABSENT"}]
      BY <2>4 DEF Finish, TypeOK, StoredStatus
    <3>4. Holding' /\ wpc' \in [Workers -> WorkerStates]
      BY <2>4 DEF Finish, Holding, Busy, TypeOK
    <3> QED BY <2>4, <3>1, <3>2, <3>3, <3>4 DEF Finish, TypeOK, ActiveExact
  <2>5. CASE Return(w) \/ CleanupPanics(w)
    <3>1. Counted' = Counted \ {w} /\ w \in Counted
      BY <2>5 DEF Return, CleanupPanics, Counted, TypeOK
    <3>2. /\ Cardinality(Counted') = Cardinality(Counted) - 1
          /\ Cardinality(Counted') \in Nat
      BY <3>1, CountedFinite, FS_RemoveElement, FS_CardinalityType
    <3>3. ActiveExact' /\ active' \in 0 .. Cardinality(Workers)
      BY <2>5, <3>2, CountedFinite DEF Return, CleanupPanics, CountedDown, ActiveExact
    <3>4. Holding' /\ wpc' \in [Workers -> WorkerStates]
               /\ job' \in [Workers -> Submissions \cup {NoJob}]
      BY <2>5 DEF Return, CleanupPanics, Holding, Busy, TypeOK
    <3>5. store' \in [Submissions -> StoredStatus \cup {"ABSENT"}]
      BY <2>5 DEF Return, CleanupPanics, TypeOK, StoredStatus, Terminal
    <3> QED BY <2>5, <3>3, <3>4, <3>5 DEF Return, CleanupPanics, TypeOK
  <2> QED BY <1>2, <2>1, <2>2, <2>3, <2>4, <2>5 DEF WorkerStep, LoopStep, ProcessJobStep
<1>3. CASE Signal \/ MainStep
  <2>1. /\ UNCHANGED <<handlers, ch, wpc, job, active, decided>>
        /\ main' \in MainStates
    BY <1>3 DEF Signal, MainStep, ShutdownReturns, CloseQueue, CloseBus,
                CloseStore, StopPool, Exit
  <2>2. closed' \in BOOLEAN /\ stopCh' \in BOOLEAN /\ timedOut' \in BOOLEAN
    BY <1>3, Zenon DEF Signal, MainStep, ShutdownReturns, CloseQueue, CloseBus,
                CloseStore, StopPool, Exit, TypeOK, queueVars, pool, mainVars
  <2>3. store' \in [Submissions -> StoredStatus \cup {"ABSENT"}]
    BY <1>3 DEF Signal, MainStep, ShutdownReturns, CloseQueue, CloseBus,
                CloseStore, StopPool, Exit, TypeOK
  <2> QED BY <1>0, <2>1, <2>2, <2>3 DEF TypeOK, Holding
<1>4. CASE UNCHANGED vars
  BY <1>0, <1>4 DEF vars, TypeOK, Holding
<1> QED BY <1>1, <1>2, <1>3, <1>4 DEF Next, WorkerStep

\* Every variable stays in its type; in particular the counter of active jobs
\* never leaves 0 .. the number of workers, and the channel its capacity.
THEOREM TypeCorrect == Spec => []TypeOK
<1>1. Spec => []TypeInv
  BY InitTypeInv, NextTypeInv, PTL DEF Spec
<1>2. TypeInv => TypeOK
  BY DEF TypeInv
<1> QED BY <1>1, <1>2, PTL

-----------------------------------------------------------------------------
(* The shutdown.                                                           *)

\* PanicInv is preserved by every step: a handler that has not answered keeps
\* Shutdown waiting, and new requests come in only before the signal.
LEMMA NextPanicInv == TypeOK /\ PanicInv /\ [Next]_vars => PanicInv'
<1> SUFFICES ASSUME TypeOK, PanicInv, [Next]_vars PROVE PanicInv'
  OBVIOUS
<1> USE DEF PanicInv, MainOrder, NoHandlerLeft, PanicOnlyAfterTimeout, Closed,
            Answered
<1>1. ASSUME NEW s \in Submissions, HandlerStep(s) PROVE PanicInv'
  <2>1. UNCHANGED <<closed, wpc, mainVars>>
    BY <1>1 DEF HandlerStep, Arrive, Refuse, CheckDepth, SaveInitial, CheckClosed, Send,
                ClientGone, Accept
  <2>2. CASE Listening
    BY <1>1, <2>1, <2>2
       DEF HandlerStep, Arrive, Refuse, CheckDepth, SaveInitial, CheckClosed, Send,
           ClientGone, Accept, TypeOK
  <2>3. CASE ~Listening
    <3>1. handler[s] \in {"reading", "checked", "saved", "sending", "enqueued"}
      BY <1>1, <2>3
         DEF HandlerStep, Arrive, Refuse, CheckDepth, SaveInitial, CheckClosed, Send,
             ClientGone, Accept
    <3>2. main = "shutdown" \/ timedOut
      BY <2>3, <3>1 DEF TypeOK
    <3>3. /\ \A t \in Submissions : t # s => handler'[t] = handler[t]
          /\ handler'[s] = "panicked" => closed
      BY <1>1
         DEF HandlerStep, Arrive, Refuse, CheckDepth, SaveInitial, CheckClosed, Send,
             ClientGone, Accept, TypeOK
    <3> QED BY <2>1, <2>3, <3>2, <3>3 DEF TypeOK
  <2> QED BY <2>2, <2>3
<1>2. ASSUME NEW w \in Workers, WorkerStep(w) PROVE PanicInv'
  <2>1. UNCHANGED <<handler, closed, mainVars>> /\ main # "exited"
    BY <1>2 DEF WorkerStep, LoopStep, ProcessJobStep, Select,
                Dequeue, DequeueTimeout, DequeueClosed, Begin, Finish, CleanupPanics, Return
  <2> QED BY <2>1
<1>3. CASE Signal
  BY <1>3 DEF Signal
<1>4. CASE ShutdownReturns
  BY <1>4 DEF ShutdownReturns, HandlersDone, TypeOK
<1>5. CASE CloseQueue \/ CloseBus \/ CloseStore \/ StopPool \/ Exit
  BY <1>5 DEF CloseQueue, CloseBus, CloseStore, StopPool, Exit, PoolStopped
<1>6. CASE UNCHANGED vars
  BY <1>6 DEF vars
<1> QED BY <1>1, <1>2, <1>3, <1>4, <1>5, <1>6 DEF Next, WorkerStep, MainStep

\* PanicInv holds throughout.
LEMMA PanicInvHolds == Spec => []PanicInv
<1>1. Init => PanicInv
  BY DEF Init, PanicInv, MainOrder, NoHandlerLeft, PanicOnlyAfterTimeout, Closed
<1> QED BY <1>1, NextPanicInv, TypeCorrect, PTL DEF Spec

\* The send on the closed channel that Enqueue's early unlock allows happens
\* only after Shutdown has given up on a handler.
THEOREM PanicNeedsTimeout == Spec => []PanicOnlyAfterTimeout
<1>1. PanicInv => PanicOnlyAfterTimeout
  BY DEF PanicInv
<1> QED BY <1>1, PanicInvHolds, PTL

-----------------------------------------------------------------------------
(* Where a submission is.                                                  *)

\* PlaceInv depends on the channel, the workers, the decided submissions and
\* the set of enqueued ones only.
LEMMA PlaceUnchanged ==
    ASSUME PlaceInv, UNCHANGED <<ch, job, decided>>,
           \A s \in Submissions : Enqueued(s)' <=> Enqueued(s),
           \A w \in Workers : job[w] # NoJob =>
               (wpc'[w] = "finished" <=> wpc[w] = "finished")
    PROVE  PlaceInv'
<1>1. \A s \in Submissions : Owned(s)' <=> Owned(s)
  BY DEF Owned
<1> QED BY <1>1 DEF PlaceInv

\* PlaceInv and StoreInv are preserved by every step.
LEMMA NextPlaceInv ==
    TypeInv /\ PlaceInv /\ StoreInv /\ [Next]_vars => PlaceInv' /\ StoreInv'
<1> SUFFICES ASSUME TypeInv, PlaceInv, StoreInv, [Next]_vars
             PROVE  PlaceInv' /\ StoreInv'
  OBVIOUS
<1> USE DEF TypeInv
<1>0. TypeOK'
  BY NextTypeInv
<1>1. ASSUME NEW s \in Submissions, HandlerStep(s) PROVE PlaceInv' /\ StoreInv'
  <2>1. UNCHANGED <<wpc, job, main, decided>>
    BY <1>1 DEF HandlerStep, Arrive, Refuse, CheckDepth, SaveInitial, CheckClosed, Send,
                ClientGone, Accept
  <2>2. StoreInv'
    <3>1. CASE SaveInitial(s)
      <4>1. s \notin decided
        BY <3>1 DEF SaveInitial, PlaceInv, Enqueued
      <4> QED BY <2>1, <3>1, <4>1 DEF SaveInitial, StoreInv, TypeOK
    <3>2. CASE ~SaveInitial(s)
      <4>1. UNCHANGED store
        BY <1>1, <3>2 DEF HandlerStep, Arrive, Refuse, CheckDepth, CheckClosed, Send,
                          ClientGone, Accept
      <4> QED BY <2>1, <4>1 DEF StoreInv
    <3> QED BY <3>1, <3>2
  <2>3. CASE ch' # ch
    <3>1. /\ handler[s] = "sending" /\ ch' = Append(ch, s)
          /\ handler' = [handler EXCEPT ![s] = "enqueued"]
      BY <1>1, <2>3 DEF HandlerStep, Arrive, Refuse, CheckDepth, SaveInitial, CheckClosed,
                        Send, ClientGone, Accept
    <3>2. ~Enqueued(s)
      BY <3>1 DEF Enqueued
    <3>3. \A t \in Submissions : Enqueued(t)' <=> Enqueued(t) \/ t = s
      BY <3>1 DEF Enqueued, TypeOK
    <3>4. ~Contains(ch, s) /\ ~Owned(s) /\ s \notin decided
      BY <3>2 DEF PlaceInv
    <3>5. /\ \A t : Contains(ch', t) <=> Contains(ch, t) \/ t = s
          /\ \A i, j \in 1 .. Len(ch') : ch'[i] = ch'[j] => i = j
      BY <3>1, <3>4, AppendFacts DEF TypeOK, PlaceInv
    <3>6. \A t : Owned(t)' <=> Owned(t)
      BY <2>1 DEF Owned
    <3>7. PlaceInv'
      BY <2>1, <3>3, <3>4, <3>5, <3>6 DEF PlaceInv
    <3> QED BY <2>2, <3>7
  <2>4. CASE ch' = ch
    <3>1. \A t \in Submissions : Enqueued(t)' <=> Enqueued(t)
      BY <1>1, <2>4, AppendProperties
         DEF HandlerStep, Arrive, Refuse, CheckDepth, SaveInitial, CheckClosed,
             Send, ClientGone, Accept, Enqueued, TypeOK
    <3>2. PlaceInv'
      BY <2>1, <2>4, <3>1, PlaceUnchanged DEF TypeOK
    <3> QED BY <2>2, <3>2
  <2> QED BY <2>3, <2>4
<1>2. ASSUME NEW w \in Workers, WorkerStep(w) PROVE PlaceInv' /\ StoreInv'
  <2>0. UNCHANGED <<handler, main>> /\ \A t : Enqueued(t)' <=> Enqueued(t)
    BY <1>2 DEF WorkerStep, LoopStep, ProcessJobStep, Select,
                Dequeue, DequeueTimeout, DequeueClosed, Begin, Finish, CleanupPanics, Return,
                Enqueued
  <2>1. CASE Select(w) \/ DequeueTimeout(w) \/ DequeueClosed(w)
    <3>1. /\ UNCHANGED <<ch, job, store, decided>>
          /\ wpc[w] \in {"select", "dequeue"}
          /\ \E where : wpc' = [wpc EXCEPT ![w] = where]
      BY <2>1 DEF Select, DequeueTimeout, DequeueClosed
    <3>2. job[w] = NoJob
      BY <3>1 DEF Holding, Busy
    <3> QED BY <2>0, <3>1, <3>2, PlaceUnchanged DEF TypeOK, StoreInv
  <2>2. CASE Dequeue(w)
    <3> DEFINE s == Head(ch)
    <3>1. /\ s \in Submissions /\ Contains(ch, s)
          /\ \A t : Contains(ch', t) <=> Contains(ch, t) /\ t # s
          /\ \A i, j \in 1 .. Len(ch') : ch'[i] = ch'[j] => i = j
      <4>1. ch # <<>> /\ ch' = Tail(ch) /\ ch \in Seq(Submissions)
        BY <2>2 DEF Dequeue, TypeOK
      <4> QED BY <4>1, TailFacts DEF PlaceInv
    <3>2. /\ job' = [job EXCEPT ![w] = s] /\ wpc' = [wpc EXCEPT ![w] = "got"]
          /\ wpc[w] = "dequeue" /\ job[w] = NoJob
          /\ UNCHANGED <<store, decided>>
      BY <2>2 DEF Dequeue, Holding, Busy
    <3> HIDE DEF s
    <3>3. ~Owned(s) /\ s \notin decided
      BY <3>1 DEF PlaceInv
    <3>4. \A t \in Submissions : Owned(t)' <=> Owned(t) \/ t = s
      BY <3>1, <3>2 DEF Owned, TypeOK
    <3>5. \A v \in Workers : v # w => job'[v] = job[v] /\ wpc'[v] = wpc[v]
      BY <3>2 DEF TypeOK
    <3>6. job'[w] = s /\ \A v \in Workers : job[v] = s => wpc[v] = "finished"
      BY <3>2, <3>3 DEF TypeOK, Owned
    <3>7. PlaceInv'
      BY <2>0, <3>1, <3>2, <3>3, <3>4, <3>5, <3>6 DEF PlaceInv
    <3> QED BY <2>0, <3>2, <3>7 DEF StoreInv
  <2>3. CASE Begin(w)
    <3>1. job[w] \in Submissions /\ Owned(job[w])
      BY <2>3 DEF Begin, TypeOK, Holding, Busy, Owned
    <3>2. job[w] \notin decided
      BY <3>1 DEF PlaceInv
    <3>3. StoreInv'
      BY <2>0, <2>3, <3>1, <3>2 DEF Begin, StoreInv, TypeOK
    <3>4. PlaceInv'
      BY <2>0, <2>3, PlaceUnchanged DEF Begin, TypeOK
    <3> QED BY <3>3, <3>4
  <2>4. CASE Finish(w)
    <3>1. job[w] \in Submissions /\ Owned(job[w])
      BY <2>4 DEF Finish, TypeOK, Holding, Busy, Owned
    <3>2. job[w] \notin decided /\ ~Contains(ch, job[w])
      BY <3>1 DEF PlaceInv
    <3>3. StoreInv'
      BY <2>0, <2>4, <3>1 DEF Finish, StoreInv, TypeOK
    <3>4. wpc' = [wpc EXCEPT ![w] = "finished"] /\ wpc[w] = "running"
          /\ UNCHANGED <<ch, job>> /\ decided' = decided \cup {job[w]}
      BY <2>4 DEF Finish
    <3>5. \A t \in Submissions : Owned(t)' <=> Owned(t) /\ t # job[w]
      <4>1. \A v \in Workers :
               v # w /\ job[v] = job[w] => wpc[v] = "finished"
        BY <3>1, <3>4 DEF PlaceInv
      <4> QED BY <3>4, <4>1 DEF Owned, TypeOK
    <3>6. \A v, u \in Workers :
             job'[v] = job'[u] /\ job'[v] # NoJob
                 /\ wpc'[v] # "finished" /\ wpc'[u] # "finished" => v = u
      BY <3>4 DEF PlaceInv, TypeOK
    <3>7. PlaceInv'
      BY <2>0, <3>1, <3>2, <3>4, <3>5, <3>6 DEF PlaceInv
    <3> QED BY <3>3, <3>7
  <2>5. CASE Return(w) \/ CleanupPanics(w)
    <3>1. /\ wpc[w] = "finished" /\ UNCHANGED <<ch, decided>>
          /\ job' = [job EXCEPT ![w] = NoJob] /\ wpc' = [wpc EXCEPT ![w] = "select"]
      BY <2>5 DEF Return, CleanupPanics
    <3>2. \A t \in Submissions : Owned(t)' <=> Owned(t)
      BY <3>1 DEF Owned, TypeOK
    <3>3. \A v, u \in Workers :
             job'[v] = job'[u] /\ job'[v] # NoJob
                 /\ wpc'[v] # "finished" /\ wpc'[u] # "finished" => v = u
      BY <3>1 DEF PlaceInv, TypeOK
    <3>4. PlaceInv'
      BY <2>0, <3>1, <3>2, <3>3 DEF PlaceInv
    <3>5. \A t \in Submissions : store[t] \in Terminal => store'[t] \in Terminal
      BY <2>5 DEF Return, CleanupPanics, Terminal, TypeOK
    <3> QED BY <2>0, <3>1, <3>4, <3>5 DEF StoreInv, TypeOK
  <2> QED BY <1>2, <2>1, <2>2, <2>3, <2>4, <2>5 DEF WorkerStep, LoopStep, ProcessJobStep
<1>3. CASE Signal \/ MainStep \/ UNCHANGED vars
  <2>1. UNCHANGED <<handler, ch, wpc, job, decided>>
    BY <1>3 DEF Signal, MainStep, ShutdownReturns, CloseQueue, CloseBus,
                CloseStore, StopPool, Exit, vars
  <2>2. PlaceInv'
    BY <2>1, PlaceUnchanged DEF TypeOK, Enqueued
  <2>3. StoreInv'
    BY <1>3, <2>1 DEF Signal, MainStep, ShutdownReturns, CloseQueue, CloseBus,
                      CloseStore, StopPool, Exit, PoolStopped, vars, StoreInv
  <2> QED BY <2>2, <2>3
<1> QED BY <1>1, <1>2, <1>3 DEF Next, WorkerStep

\* The whole inductive invariant holds throughout.
LEMMA PlaceInvHolds == Spec => [](TypeInv /\ PlaceInv /\ StoreInv)
<1>1. Init => PlaceInv /\ StoreInv
  BY DEF Init, PlaceInv, StoreInv, Contains, Owned, Enqueued
<1> QED BY <1>1, InitTypeInv, NextTypeInv, NextPlaceInv, PTL DEF Spec

\* The positions of a submission in the channel, and its owners, are at most
\* one, and as many as there are.
LEMMA Places ==
    ASSUME TypeInv, PlaceInv, NEW s \in Submissions
    PROVE  /\ Cardinality(Waiting(s)) = IF Contains(ch, s) THEN 1 ELSE 0
           /\ Cardinality(Owners(s)) = IF Owned(s) THEN 1 ELSE 0
<1>1. ASSUME Contains(ch, s) PROVE \E i : Waiting(s) = {i}
  <2>1. PICK i \in 1 .. Len(ch) : ch[i] = s
    BY <1>1 DEF Contains
  <2>2. \A j \in 1 .. Len(ch) : ch[j] = s => j = i
    BY <2>1 DEF PlaceInv
  <2>3. Waiting(s) = {i}
    BY <2>1, <2>2, Zenon DEF Waiting
  <2> QED BY <2>3
<1>2. ASSUME ~Contains(ch, s) PROVE Waiting(s) = {}
  BY <1>2 DEF Contains, Waiting
<1>3. ASSUME Owned(s) PROVE \E w : Owners(s) = {w}
  <2>1. PICK w \in Workers : job[w] = s /\ wpc[w] # "finished"
    BY <1>3 DEF Owned
  <2>2. s # NoJob
    BY StandaloneAssumption
  <2>3. \A v \in Workers : job[v] = s /\ wpc[v] # "finished" => v = w
    BY <2>1, <2>2 DEF PlaceInv
  <2>4. Owners(s) = {w}
    BY <2>1, <2>3, Zenon DEF Owners
  <2> QED BY <2>4
<1>4. ASSUME ~Owned(s) PROVE Owners(s) = {}
  BY <1>4 DEF Owned, Owners
<1> QED BY <1>1, <1>2, <1>3, <1>4, FS_EmptySet, FS_Singleton

\* An enqueued submission is in exactly one place, in the channel, with a worker
\* or decided, and one that was answered 500 or whose handler panicked in none;
\* a decided one has its final record until the store is closed.
THEOREM OnePlace == Spec => []ExactlyOnePlace
<1>1. TypeInv /\ PlaceInv /\ StoreInv => ExactlyOnePlace
  <2> SUFFICES ASSUME TypeInv, PlaceInv, StoreInv, NEW s \in Submissions
               PROVE  /\ Cardinality(Waiting(s)) + Cardinality(Owners(s))
                            + (IF s \in decided THEN 1 ELSE 0)
                              = IF Enqueued(s) THEN 1 ELSE 0
                      /\ s \in decided => \/ store[s] \in Terminal
                                          \/ main \in {"stopPool", "wait", "exited"}
    BY DEF ExactlyOnePlace
  <2>1. /\ ~(Contains(ch, s) /\ Owned(s))
        /\ ~(Contains(ch, s) /\ s \in decided)
        /\ ~(Owned(s) /\ s \in decided)
        /\ Enqueued(s) <=> Contains(ch, s) \/ Owned(s) \/ s \in decided
    BY DEF PlaceInv
  <2> QED BY <2>1, Places DEF StoreInv
<1> QED BY <1>1, PlaceInvHolds, PTL

\* When the process ends every job a worker took is decided, although queue, bus
\* and store were closed first, and the counter of active jobs is back at 0.
THEOREM InFlightDone == Spec => []InFlightCompletes
<1>1. TypeInv /\ PlaceInv /\ PanicInv => InFlightCompletes
  <2> SUFFICES ASSUME TypeInv, PlaceInv, PanicInv, main = "exited"
               PROVE  /\ \A s \in Submissions :
                            Enqueued(s) => s \in decided \/ Contains(ch, s)
                      /\ active = 0
    BY DEF InFlightCompletes
  <2>1. \A w \in Workers : wpc[w] = "exited" /\ job[w] = NoJob
    BY DEF PanicInv, MainOrder, TypeInv, Holding, Busy
  <2>2. Counted = {}
    BY <2>1 DEF Counted
  <2>3. active = 0
    BY <2>2, FS_EmptySet DEF TypeInv, ActiveExact
  <2>4. \A s \in Submissions : ~Owned(s)
    BY <2>1 DEF Owned
  <2> QED BY <2>3, <2>4 DEF PlaceInv
<1> QED BY <1>1, PlaceInvHolds, PanicInvHolds, PTL

-----------------------------------------------------------------------------
(* The queue.                                                              *)

\* Every step of the gateway is a step of the FIFO queue or leaves it alone:
\* only a handler appends, only to the open channel, only a worker takes, from
\* the head, and only main closes.
THEOREM QueueRefined == Spec => ImplementsQueue
<1>1. Init => Queue!Init
  BY DEF Init, Queue!Init
<1>2. TypeOK /\ [Next]_vars => [Queue!Next]_<<ch, ~closed>>
  <2> SUFFICES ASSUME TypeOK, [Next]_vars PROVE [Queue!Next]_<<ch, ~closed>>
    OBVIOUS
  <2>1. ASSUME NEW s \in Submissions, HandlerStep(s)
        PROVE  Queue!Enqueue(s) \/ UNCHANGED <<ch, closed>>
    BY <2>1 DEF HandlerStep, Arrive, Refuse, CheckDepth, SaveInitial, CheckClosed, Send,
                ClientGone, Accept, Queue!Enqueue
  <2>2. ASSUME NEW w \in Workers, WorkerStep(w)
        PROVE  Queue!Dequeue \/ UNCHANGED <<ch, closed>>
    BY <2>2 DEF WorkerStep, LoopStep, ProcessJobStep, Select,
                Dequeue, DequeueTimeout, DequeueClosed, Begin, Finish, CleanupPanics, Return,
                Queue!Dequeue
  <2>3. ASSUME Signal \/ MainStep \/ UNCHANGED vars
        PROVE  Queue!Close \/ UNCHANGED <<ch, closed>>
    BY <2>3 DEF Signal, MainStep, ShutdownReturns, CloseQueue, CloseBus,
                CloseStore, StopPool, Exit, vars, Queue!Close
  <2> QED BY <2>1, <2>2, <2>3 DEF Next, WorkerStep, Queue!Next
<1> QED BY <1>1, <1>2, TypeCorrect, PTL DEF Spec, ImplementsQueue, Queue!Spec
=============================================================================

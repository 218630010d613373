-------------------------- MODULE ProcessJobProofs --------------------------
(***************************************************************************)
(* Proofs about ProcessJob, for any number of test cases, any set of       *)
(* verdicts and both backends.                                             *)
(***************************************************************************)
EXTENDS ProcessJob, FiniteSetTheorems, SequenceTheorems, TLAPS

USE DEF Goto, locals

\* A discarded SaveState error leaves the record as it was.
LEMMA SaveStateEffect ==
    ASSUME NEW record, SaveState(record)
    PROVE  stored' = record \/ stored' = stored
BY DEF SaveState

\* A Publish appends its event, or nothing when the bus fails.
LEMMA PublishEffect ==
    ASSUME NEW status, NEW test, NEW verdict, Publish(status, test, verdict)
    PROVE  \/ published' = published
           \/ published' = Append(published, [status |-> status, test |-> test,
                                              verdict |-> verdict])
BY DEF Publish

\* The log of events keeps its type when it grows by an event, or does not.
LEMMA EventLogType ==
    ASSUME NEW e \in Event, published \in Seq(Event),
           published' = published \/ published' = Append(published, e)
    PROVE  published' \in Seq(Event)
OBVIOUS

\* Publish keeps the type of the log.
LEMMA PublishType ==
    ASSUME NEW status \in EventStatus, NEW test \in Nat,
           NEW verdict \in Verdict \cup {""},
           published \in Seq(Event), Publish(status, test, verdict)
    PROVE  published' \in Seq(Event)
<1>1. [status |-> status, test |-> test, verdict |-> verdict] \in Event
  BY DEF Event
<1> QED BY <1>1, PublishEffect, EventLogType, Zenon

\* The metrics log keeps its type.
LEMMA RecordMetricsType ==
    ASSUME NEW status, NEW verdict \in Verdict,
           recorded \in Seq([verdict : Verdict, violation : Violations]),
           RecordMetrics(status, verdict)
    PROVE  recorded' \in Seq([verdict : Verdict, violation : Violations])
<1> DEFINE m == [verdict |-> verdict, violation |-> Violation(status, verdict)]
<1>1. m \in [verdict : Verdict, violation : Violations]
  BY DEF Violation, Violations
<1>2. recorded' = Append(recorded, m)
  BY DEF RecordMetrics
<1> HIDE DEF m
<1> QED BY <1>1, <1>2, AppendProperties

\* The records the worker stores are records.
LEMMA RecordTypes ==
    ASSUME TypeOK
    PROVE  /\ \A status \in StoredStatus, verdict \in Verdict, count \in Nat :
                LoopRecord(status, verdict, count) \in Record
           /\ \A verdict \in Verdict : FailedRecord(verdict) \in Record
<1>1. Total \in Nat
  BY DEF TypeOK, Total
<1>2. <<>> \in Seq(Result)
  OBVIOUS
<1> QED
  BY <1>1, <1>2 DEF TypeOK, LoopRecord, FailedRecord, Record, StoredStatus,
                    Terminal

\* Padding keeps the flags a sequence of Booleans, and leaves at least one.
LEMMA PadTestsType ==
    ASSUME NEW tests \in Seq(BOOLEAN)
    PROVE  PadTests(tests) \in Seq(BOOLEAN) /\ PadTests(tests) # <<>>
<1>1. <<FALSE>> \in Seq(BOOLEAN) /\ <<FALSE>> # <<>>
  OBVIOUS
<1> QED BY <1>1, Zenon DEF PadTests

\* A report has a result to report on; types are not inductive without it.
TypeInv == TypeOK /\ (pc = "report" => results # <<>>)

\* TypeInv holds initially.
LEMMA InitTypeInv == Init => TypeInv
  <2> SUFFICES ASSUME Init PROVE TypeInv
    OBVIOUS
  <2>1. hidden \in Seq(BOOLEAN)
    BY MaxTestsAssumption DEF Init
  <2>2. stored \in Record
    BY <2>1 DEF Init, Record, StoredStatus, Verdict
  <2>3. /\ results \in Seq(Result)
        /\ published \in Seq(Event)
        /\ recorded \in Seq([verdict : Verdict, violation : Violations])
    BY EmptySeq DEF Init
  <2>4. pc \in Pcs /\ passed \in Nat /\ overall \in Verdict
    BY DEF Init, Pcs, Verdict
  <2> QED BY <2>1, <2>2, <2>3, <2>4 DEF Init, TypeOK, TypeInv

\* TypeInv is preserved by every step.
LEMMA NextTypeInv == TypeInv /\ [Next]_vars => TypeInv'
  <2> SUFFICES ASSUME TypeInv, [Next]_vars PROVE TypeInv'
    OBVIOUS
  <2> USE DEF TypeInv
  <2>1. CASE Start
    <3>1. hidden' \in Seq(BOOLEAN)
      BY <2>1, PadTestsType DEF Start, TypeOK
    <3> QED BY <2>1, <3>1 DEF Start, TypeOK, Pcs
  <2>2. CASE Resolve
    BY <2>2 DEF Resolve, FailWith, TypeOK, Pcs, Verdict
  <2>3. CASE Prepare
    BY <2>3 DEF Prepare, FailWith, TypeOK, Pcs, Verdict
  <2>4. CASE PublishCompiling
    <3>1. published' \in Seq(Event)
      BY <2>4, PublishType DEF PublishCompiling, TypeOK, EventStatus
    <3> QED BY <2>4, <3>1 DEF PublishCompiling, TypeOK, Pcs
  <2>5. CASE Compile
    BY <2>5 DEF Compile, SandboxReturns, FailWith, TypeOK, Pcs, Verdict
  <2>6. CASE PublishRunning
    <3>1. published' \in Seq(Event)
      BY <2>6, PublishType DEF PublishRunning, TypeOK, EventStatus
    <3> QED BY <2>6, <3>1 DEF PublishRunning, TypeOK, Pcs
  <2>7. CASE SaveRunning
    <3>1. LoopRecord("RUNNING", "ACCEPTED", 0) \in Record
      BY RecordTypes DEF StoredStatus, Verdict
    <3>2. stored' \in Record
      BY <2>7, <3>1, SaveStateEffect DEF SaveRunning, TypeOK
    <3> QED BY <2>7, <3>2 DEF SaveRunning, TypeOK, Pcs
  <2>8. CASE StartTest
    <3>0. Len(results) + 1 \in Nat
      BY DEF TypeOK
    <3>1. published' \in Seq(Event)
      BY <2>8, <3>0, PublishType DEF StartTest, TypeOK, EventStatus
    <3> QED BY <2>8, <3>1 DEF StartTest, TypeOK, Pcs
  <2>9. CASE Execute
    <3>1. PICK verdict \in TestVerdicts :
             /\ results' = Append(results,
                    [verdict |-> verdict,
                     shown |-> ShowsOutput(hidden[Len(results) + 1], verdict)])
             /\ passed' = IF verdict = "ACCEPTED" THEN passed + 1 ELSE passed
             /\ overall' = OverallVerdict(overall, verdict)
      BY <2>9 DEF Execute
    <3>2. ShowsOutput(hidden[Len(results) + 1], verdict) \in BOOLEAN
      BY DEF ShowsOutput
    <3>3. results' \in Seq(Result) /\ results' # <<>>
      BY <3>1, <3>2, AppendProperties DEF TypeOK, Result
    <3>4. passed' \in Nat /\ overall' \in Verdict
      BY <3>1, TestVerdictsAssumption DEF TypeOK, OverallVerdict
    <3> QED BY <2>9, <3>3, <3>4 DEF Execute, SandboxReturns, TypeOK, Pcs
  <2>10. CASE Report
    <3>a. results \in Seq(Result) /\ results # <<>>
      BY <2>10 DEF Report, TypeOK
    <3>0. Len(results) \in Nat /\ Len(results) \in 1 .. Len(results)
      BY <3>a
    <3>b. results[Len(results)] \in Result
      BY <3>a, <3>0, ElementOfSeq
    <3>1. results[Len(results)].verdict \in Verdict
      BY <3>b, TestVerdictsAssumption DEF Result
    <3>2. published' \in Seq(Event)
      BY <2>10, <3>0, <3>1, PublishType DEF Report, TypeOK, EventStatus
    <3> QED BY <2>10, <3>2 DEF Report, TypeOK, Pcs
  <2>11. CASE LoopEnds
    BY <2>11 DEF LoopEnds, TypeOK, Pcs
  <2>12. CASE SaveCompleted
    <3>1. LoopRecord("COMPLETED", overall, passed) \in Record
      BY RecordTypes DEF StoredStatus, Terminal, TypeOK
    <3>2. stored' \in Record
      BY <2>12, <3>1, SaveStateEffect DEF SaveCompleted, TypeOK
    <3> QED BY <2>12, <3>2 DEF SaveCompleted, TypeOK, Pcs
  <2>13. CASE RecordCompleted
    <3>1. recorded' \in Seq([verdict : Verdict, violation : Violations])
      BY <2>13, RecordMetricsType DEF RecordCompleted, TypeOK
    <3> QED BY <2>13, <3>1 DEF RecordCompleted, TypeOK, Pcs
  <2>14. CASE PublishCompleted
    <3>0. Total \in Nat
      BY DEF TypeOK, Total
    <3>1. published' \in Seq(Event)
      BY <2>14, <3>0, PublishType DEF PublishCompleted, TypeOK, EventStatus
    <3> QED BY <2>14, <3>1 DEF PublishCompleted, TypeOK, Pcs
  <2>15. CASE FailSave
    <3>1. stored' \in Record
      BY <2>15, RecordTypes, SaveStateEffect DEF FailSave, TypeOK
    <3>2. recorded' \in Seq([verdict : Verdict, violation : Violations])
      BY <2>15, RecordMetricsType DEF FailSave, TypeOK
    <3> QED BY <2>15, <3>1, <3>2 DEF FailSave, TypeOK, Pcs
  <2>16. CASE FailPublish
    <3>1. published' \in Seq(Event)
      BY <2>16, PublishType DEF FailPublish, TypeOK, EventStatus
    <3> QED BY <2>16, <3>1 DEF FailPublish, TypeOK, Pcs
  <2>17. CASE Cleanup
    BY <2>17 DEF Cleanup, AfterCleanup, TypeOK, Pcs
  <2>18. CASE RecoverSave
    <3>1. stored' \in Record
      BY <2>18, RecordTypes, SaveStateEffect DEF RecoverSave, TypeOK, Verdict
    <3> QED BY <2>18, <3>1 DEF RecoverSave, TypeOK, Pcs
  <2>19. CASE RecoverPublish
    <3>1. published' \in Seq(Event)
      BY <2>19, PublishType DEF RecoverPublish, TypeOK, EventStatus, Verdict
    <3> QED BY <2>19, <3>1 DEF RecoverPublish, TypeOK, Pcs
  <2>20. CASE Panic \/ CleanupPanics
    BY <2>20 DEF Panic, CleanupPanics, SandboxCalls, TypeOK, Pcs
  <2>21. CASE Cancel
    BY <2>21 DEF Cancel, TypeOK
  <2>22. CASE UNCHANGED vars
    BY <2>22 DEF vars, TypeOK
  <2> QED
    BY <2>1, <2>2, <2>3, <2>4, <2>5, <2>6, <2>7, <2>8, <2>9, <2>10, <2>11,
       <2>12, <2>13, <2>14, <2>15, <2>16, <2>17, <2>18, <2>19, <2>20, <2>21,
       <2>22 DEF Next, Step, Done

\* Type correctness: every step of ProcessJob, whatever fails around it, keeps
\* every variable in its type.
THEOREM TypeCorrect == Spec => []TypeOK
<1>1. TypeInv => TypeOK
  BY DEF TypeInv
<1> QED BY <1>1, InitTypeInv, NextTypeInv, PTL DEF Spec

-----------------------------------------------------------------------------
(* The verdict of a completed submission.                                  *)

\* The passing tests among the first results.
AcceptedIn(rs) == {i \in 1 .. Len(rs) : rs[i].verdict = "ACCEPTED"}

\* One more result moves the verdict on as OverallVerdict says.
LEMMA DecidesAppend ==
    ASSUME NEW rs \in Seq(Result), NEW r \in Result, NEW v,
           Decides(v, rs)
    PROVE  Decides(OverallVerdict(v, r.verdict), Append(rs, r))
<1> DEFINE w == OverallVerdict(v, r.verdict)
           ts == Append(rs, r)
           n == Len(rs)
<1>1. /\ Len(ts) = n + 1
      /\ \A i \in 1 .. n : ts[i] = rs[i]
      /\ ts[n + 1] = r
      /\ n \in Nat
  BY AppendProperties, LenProperties
<1> HIDE DEF ts, n
<1>2. CASE v = "ACCEPTED" /\ \A i \in 1 .. n : rs[i].verdict = "ACCEPTED"
  <2>1. w = r.verdict
    BY <1>2 DEF OverallVerdict
  <2>2. CASE r.verdict = "ACCEPTED"
    <3>1. \A i \in 1 .. n + 1 : ts[i].verdict = "ACCEPTED"
      BY <1>1, <1>2, <2>2
    <3> QED BY <1>1, <2>1, <2>2, <3>1 DEF Decides, ts
  <2>3. CASE r.verdict # "ACCEPTED"
    <3>1. n + 1 \in 1 .. n + 1 /\ ts[n + 1].verdict = w
      BY <1>1, <2>1
    <3>2. \A j \in 1 .. (n + 1) - 1 : ts[j].verdict = "ACCEPTED"
      BY <1>1, <1>2
    <3> QED BY <1>1, <2>1, <2>3, <3>1, <3>2 DEF Decides, ts
  <2> QED BY <2>2, <2>3
<1>3. CASE \E i \in 1 .. n :
              /\ rs[i].verdict = v
              /\ v # "ACCEPTED"
              /\ \A j \in 1 .. i - 1 : rs[j].verdict = "ACCEPTED"
  <2>1. PICK i \in 1 .. n : /\ rs[i].verdict = v
                            /\ v # "ACCEPTED"
                            /\ \A j \in 1 .. i - 1 : rs[j].verdict = "ACCEPTED"
    BY <1>3
  <2>2. w = v
    BY <2>1 DEF OverallVerdict
  <2>3. i \in 1 .. n + 1 /\ ts[i].verdict = v
    BY <1>1, <2>1
  <2>4. \A j \in 1 .. i - 1 : ts[j].verdict = "ACCEPTED"
    BY <1>1, <2>1
  <2> QED BY <1>1, <2>1, <2>2, <2>3, <2>4 DEF Decides, ts
<1> QED BY <1>2, <1>3 DEF Decides, n

\* One more result moves the count on by one if it passed.
LEMMA CountAppend ==
    ASSUME NEW rs \in Seq(Result), NEW r \in Result
    PROVE  /\ Cardinality(AcceptedIn(rs)) \in Nat
           /\ Cardinality(AcceptedIn(Append(rs, r))) =
                IF r.verdict = "ACCEPTED" THEN Cardinality(AcceptedIn(rs)) + 1
                                          ELSE Cardinality(AcceptedIn(rs))
<1> DEFINE ts == Append(rs, r)
           n == Len(rs)
<1>1. /\ Len(ts) = n + 1
      /\ \A i \in 1 .. n : ts[i] = rs[i]
      /\ ts[n + 1] = r
      /\ n \in Nat
  BY AppendProperties, LenProperties
<1>2. IsFiniteSet(1 .. n)
  BY <1>1, FS_Interval
<1>3. IsFiniteSet(AcceptedIn(rs))
  BY <1>2, FS_Subset DEF AcceptedIn
<1> HIDE DEF ts, n
<1>4. n + 1 \notin AcceptedIn(rs)
  BY <1>1 DEF AcceptedIn, n
<1>5. CASE r.verdict = "ACCEPTED"
  <2>1. AcceptedIn(ts) = AcceptedIn(rs) \cup {n + 1}
    BY <1>1, <1>5 DEF AcceptedIn, n
  <2> QED BY <1>3, <1>4, <1>5, <2>1, FS_AddElement, FS_CardinalityType DEF ts
<1>6. CASE r.verdict # "ACCEPTED"
  <2>1. AcceptedIn(ts) = AcceptedIn(rs)
    BY <1>1, <1>6 DEF AcceptedIn, n
  <2> QED BY <1>3, <1>6, <2>1, FS_CardinalityType DEF ts
<1> QED BY <1>5, <1>6

\* The steps before the loop, those that build the report, and those that may
\* still store a final record.
EarlyPcs == {"start", "resolve", "prepare", "publishCompiling", "compile",
             "publishRunning", "saveRunning"}
EvaluationPcs == EarlyPcs \cup {"loop", "execute", "report", "saveCompleted"}
OpenPcs == EvaluationPcs \cup {"failSave"}

\* A panic cut the evaluation short.
Cut == "call" \in panics

\* The locals of the loop account for the results so far.
Accounted ==
    /\ pc \in EvaluationPcs =>
          /\ passed = Cardinality(AcceptedIn(results))
          /\ Decides(overall, results)
    /\ pc = "saveCompleted" => Len(results) = Total

\* As long as the step that stores the evaluation's final record lies ahead, none
\* is stored.  A panic in Cleanup is the one that comes after it.
OpenWhileAhead ==
    /\ pc \in OpenPcs \/ (pc \in {"cleanup", "recoverSave"} /\ Cut)
          => stored.status \notin Terminal
    /\ panics # {} => pc \in {"cleanup", "recoverSave", "recoverPublish", "done"}
    /\ pc = "recoverSave" => panics # {}

\* The inductive invariant behind VerdictSound and OverwrittenByCleanupOnly.
ReportInv == TypeInv /\ Accounted /\ OpenWhileAhead /\ VerdictSound

\* ReportInv holds initially: nothing has been counted or stored.
LEMMA InitReportInv == Init => ReportInv
<1> SUFFICES ASSUME Init PROVE ReportInv
  OBVIOUS
<1>1. AcceptedIn(results) = {} /\ Len(results) = 0
  BY DEF Init, AcceptedIn
<1>2. passed = Cardinality(AcceptedIn(results))
  BY <1>1, FS_EmptySet DEF Init
<1>3. Decides(overall, results)
  BY <1>1 DEF Init, Decides
<1>4. Accounted
  BY <1>2, <1>3 DEF Init, Accounted
<1> QED
  BY <1>4, InitTypeInv DEF Init, ReportInv, OpenWhileAhead, VerdictSound, Terminal

\* A step that leaves the report alone keeps what is said about it.
LEMMA ReportUntouched ==
    ASSUME ReportInv, UNCHANGED <<hidden, stored>>
    PROVE  VerdictSound'
BY DEF ReportInv, VerdictSound, Total, Tests, Decides

\* ReportInv is preserved by every step.
LEMMA NextReportInv == ReportInv /\ [Next]_vars => ReportInv'
<1> SUFFICES ASSUME ReportInv, [Next]_vars PROVE ReportInv'
  OBVIOUS
<1>0. TypeInv'
  BY NextTypeInv DEF ReportInv
<1> USE DEF ReportInv, EarlyPcs, EvaluationPcs, OpenPcs
<1>1. CASE Start
  <2>1. Accounted' /\ OpenWhileAhead'
    BY <1>1 DEF Start, Accounted, OpenWhileAhead
  <2>2. VerdictSound'
    BY <1>1 DEF Start, OpenWhileAhead, VerdictSound, Terminal
  <2> QED BY <1>0, <2>1, <2>2
<1>2. CASE \/ Resolve \/ Prepare \/ PublishCompiling \/ Compile
           \/ PublishRunning \/ StartTest \/ Report \/ Cancel \/ Panic
           \/ CleanupPanics
  <2>1. UNCHANGED <<hidden, stored, results, passed>>
    BY <1>2 DEF Resolve, Prepare, PublishCompiling, Compile, PublishRunning,
                StartTest, Report, Cancel, Panic, CleanupPanics
  <2>2. OpenWhileAhead'
    <3>1. CASE Panic
      BY <2>1, <3>1 DEF Panic, SandboxCalls, OpenWhileAhead, Cut
    <3>4. CASE CleanupPanics
      BY <2>1, <3>4 DEF CleanupPanics, OpenWhileAhead, Cut
    <3>2. CASE Cancel
      BY <2>1, <3>2 DEF Cancel, OpenWhileAhead, Cut
    <3>3. CASE ~Panic /\ ~Cancel /\ ~CleanupPanics
      <4>1. /\ pc \in OpenPcs /\ panics' = panics /\ panics = {}
            /\ pc' \notin {"cleanup", "recoverSave"}
        BY <1>2, <3>3 DEF Resolve, Prepare, PublishCompiling, Compile,
                          PublishRunning, StartTest, Report, OpenWhileAhead,
                          FailWith
      <4> QED BY <2>1, <4>1 DEF OpenWhileAhead, Cut
    <3> QED BY <3>1, <3>2, <3>3, <3>4
  <2>3. pc' \in EvaluationPcs => pc \in EvaluationPcs /\ overall' = overall
    BY <1>2 DEF Resolve, Prepare, PublishCompiling, Compile, PublishRunning,
                StartTest, Report, Cancel, Panic, CleanupPanics, FailWith
  <2>4. pc' = "saveCompleted" => pc = "saveCompleted"
    BY <1>2 DEF Resolve, Prepare, PublishCompiling, Compile, PublishRunning,
                StartTest, Report, Cancel, Panic, CleanupPanics, FailWith
  <2>5. Accounted'
    BY <2>1, <2>3, <2>4 DEF Accounted, AcceptedIn, Decides, Total
  <2> QED BY <1>0, <2>1, <2>2, <2>5, ReportUntouched
<1>3. CASE SaveRunning
  <2>1. stored'.status # "COMPLETED" /\ stored'.status \notin Terminal
    BY <1>3, SaveStateEffect DEF SaveRunning, LoopRecord, OpenWhileAhead, Terminal
  <2>2. Accounted' /\ OpenWhileAhead'
    BY <1>3, <2>1 DEF SaveRunning, Accounted, OpenWhileAhead, Total, Cut
  <2> QED BY <1>0, <2>1, <2>2 DEF VerdictSound
<1>4. CASE Execute
  <2>1. PICK verdict \in TestVerdicts :
           /\ results' = Append(results,
                  [verdict |-> verdict,
                   shown |-> ShowsOutput(hidden[Len(results) + 1], verdict)])
           /\ passed' = IF verdict = "ACCEPTED" THEN passed + 1 ELSE passed
           /\ overall' = OverallVerdict(overall, verdict)
    BY <1>4 DEF Execute
  <2> DEFINE r == [verdict |-> verdict,
                   shown |-> ShowsOutput(hidden[Len(results) + 1], verdict)]
  <2>2. r \in Result /\ r.verdict = verdict
    BY DEF Result, ShowsOutput
  <2>3. results \in Seq(Result)
    BY DEF TypeInv, TypeOK
  <2> HIDE DEF r
  <2>4. results' = Append(results, r)
    BY <2>1 DEF r
  <2>5. passed = Cardinality(AcceptedIn(results)) /\ Decides(overall, results)
    BY <1>4 DEF Execute, Accounted
  <2>6. passed' = Cardinality(AcceptedIn(results'))
    BY <2>1, <2>2, <2>3, <2>4, <2>5, CountAppend
  <2>7. Decides(overall', results')
    BY <2>1, <2>2, <2>3, <2>4, <2>5, DecidesAppend
  <2>8. AcceptedIn(results)' = AcceptedIn(results')
    BY DEF AcceptedIn
  <2>9. Accounted'
    BY <1>4, <2>6, <2>7, <2>8 DEF Execute, Accounted, Decides
  <2>10. OpenWhileAhead'
    BY <1>4 DEF Execute, OpenWhileAhead
  <2> QED BY <1>0, <1>4, <2>9, <2>10, ReportUntouched DEF Execute
<1>5. CASE LoopEnds
  BY <1>0, <1>5, ReportUntouched
     DEF LoopEnds, Accounted, OpenWhileAhead, Total
<1>6. CASE SaveCompleted
  <2>1. Accounted' /\ OpenWhileAhead'
    BY <1>6 DEF SaveCompleted, Accounted, OpenWhileAhead
  <2>2. CASE stored' = stored
    BY <1>0, <1>6, <2>1, <2>2, ReportUntouched DEF SaveCompleted
  <2>3. CASE stored' = LoopRecord("COMPLETED", overall, passed)
    <3>1. /\ stored'.results = results
          /\ stored'.total = Total
          /\ stored'.passed = passed
          /\ stored'.verdict = overall
      BY <2>3 DEF LoopRecord
    <3>2. hidden' = hidden /\ Len(results) = Total
      BY <1>6 DEF SaveCompleted, Accounted
    <3>3. passed = Cardinality(AcceptedIn(results)) /\ Decides(overall, results)
      BY <1>6 DEF SaveCompleted, Accounted
    <3>4. AcceptedIn(results) =
             {i \in 1 .. Len(hidden) : stored'.results[i].verdict = "ACCEPTED"}
      BY <3>1, <3>2 DEF AcceptedIn, Total
    <3> QED
      BY <1>0, <2>1, <3>1, <3>2, <3>3, <3>4 DEF VerdictSound, Total, Tests, Decides
  <2> QED BY <1>6, <2>2, <2>3, SaveStateEffect DEF SaveCompleted
<1>7. CASE \/ RecordCompleted \/ PublishCompleted \/ FailPublish \/ Cleanup
           \/ RecoverPublish
  <2>1. UNCHANGED <<hidden, stored>>
    BY <1>7 DEF RecordCompleted, PublishCompleted, FailPublish, Cleanup,
                RecoverPublish
  <2>2. Accounted' /\ OpenWhileAhead'
    BY <1>7 DEF RecordCompleted, PublishCompleted, FailPublish, Cleanup,
                RecoverPublish, Accounted, OpenWhileAhead, Cut
  <2> QED BY <1>0, <2>1, <2>2, ReportUntouched
<1>8. CASE FailSave \/ RecoverSave
  <2>1. stored'.status = "FAILED" \/ UNCHANGED <<hidden, stored>>
    BY <1>8, SaveStateEffect DEF FailSave, RecoverSave, FailedRecord
  <2>2. Accounted' /\ OpenWhileAhead'
    BY <1>8 DEF FailSave, RecoverSave, Accounted, OpenWhileAhead
  <2>3. VerdictSound'
    BY <2>1, ReportUntouched DEF VerdictSound
  <2> QED BY <1>0, <2>2, <2>3
<1>9. CASE UNCHANGED vars
  BY <1>0, <1>9, ReportUntouched
     DEF vars, Accounted, OpenWhileAhead, Total, AcceptedIn, Decides, Cut
<1> QED
  BY <1>1, <1>2, <1>3, <1>4, <1>5, <1>6, <1>7, <1>8, <1>9 DEF Next, Step, Done

\* The report of a completed submission is sound: it has a result for every
\* test case, counts the passing ones and is decided by the first failure,
\* whatever Redis commands fail and whenever the context is cancelled.
THEOREM ReportSound == Spec => []VerdictSound
<1>1. ReportInv => VerdictSound
  BY DEF ReportInv
<1> QED BY <1>1, InitReportInv, NextReportInv, PTL DEF Spec

\* A final record, once stored, is overwritten by one step only: the handler
\* that recovers a panic of the deferred Cleanup, which turns it into FAILED with
\* SYSTEM_ERROR.  A panic of any other call finds no final record.
THEOREM FinalRecordStays == Spec => OverwrittenByCleanupOnly
<1> DEFINE Allowed ==
      stored.status \in Terminal /\ stored' # stored =>
          /\ panics = {"cleanup"}
          /\ stored'.status = "FAILED"
          /\ stored'.verdict = "SYSTEM_ERROR"
<1>1. ReportInv /\ [Next]_vars => [Allowed]_vars
  <2> SUFFICES ASSUME ReportInv, Next, stored.status \in Terminal, stored' # stored
               PROVE  /\ panics = {"cleanup"}
                      /\ stored'.status = "FAILED"
                      /\ stored'.verdict = "SYSTEM_ERROR"
    BY DEF vars
  <2>1. pc \notin OpenPcs /\ ~(pc \in {"cleanup", "recoverSave"} /\ Cut)
    BY DEF ReportInv, OpenWhileAhead
  <2>2. RecoverSave
    BY <2>1 DEF OpenPcs, EvaluationPcs, EarlyPcs, Next, Step, Done, vars, Start,
       Resolve, Prepare, PublishCompiling, Compile, PublishRunning, SaveRunning,
       StartTest, Execute, Report, LoopEnds, SaveCompleted, RecordCompleted,
       PublishCompleted, FailSave, FailPublish, Cleanup, RecoverPublish, Panic,
       CleanupPanics, Cancel
  <2>3. panics # {} /\ "call" \notin panics /\ panics \subseteq {"call", "cleanup"}
    BY <2>1, <2>2 DEF RecoverSave, ReportInv, OpenWhileAhead, Cut, TypeInv, TypeOK
  <2>4. panics = {"cleanup"}
    BY <2>3
  <2>5. stored' = FailedRecord("SYSTEM_ERROR")
    BY <2>2, SaveStateEffect DEF RecoverSave
  <2> QED BY <2>4, <2>5 DEF FailedRecord
<1> QED BY <1>1, InitReportInv, NextReportInv, PTL DEF Spec, OverwrittenByCleanupOnly

-----------------------------------------------------------------------------
(* NoVerdictFromCancelledRun: a result is only tainted under a cancelled   *)
(* context, and under that context no write reaches Redis.                 *)

CancelInv ==
    /\ TypeOK
    /\ tainted => ctxDone
    /\ backend = "redis" => ~stored.tainted

\* On a cancelled context SaveState has no effect on Redis; on a live one it
\* stores nothing tainted.
LEMMA SaveUntainted ==
    ASSUME CancelInv, backend = "redis",
           NEW record, record.tainted = tainted, SaveState(record)
    PROVE  ~stored'.tainted
<1>1. CASE ctxDone
  <2>1. WriteOutcomes = {FALSE}
    BY <1>1, backend # "memory" DEF WriteOutcomes
  <2> QED BY <2>1 DEF SaveState, CancelInv
<1>2. CASE ~ctxDone
  BY <1>2, SaveStateEffect DEF CancelInv
<1> QED BY <1>1, <1>2

\* CancelInv is preserved by every step.
LEMMA NextCancelInv == TypeInv /\ CancelInv /\ [Next]_vars => CancelInv'
<1> SUFFICES ASSUME TypeInv, CancelInv, [Next]_vars PROVE CancelInv'
  OBVIOUS
<1>1. TypeOK'
  BY NextTypeInv DEF TypeInv
<1>2. tainted' => ctxDone'
  BY DEF CancelInv, Next, Step, Done, vars, Start, Resolve, Prepare,
         PublishCompiling, Compile, PublishRunning, SaveRunning, StartTest,
         Execute, Report, LoopEnds, SaveCompleted, RecordCompleted,
         PublishCompleted, FailSave, FailPublish, Cleanup, RecoverSave,
         RecoverPublish, Panic, CleanupPanics, Cancel, SandboxReturns
<1>3. backend' = backend
  BY DEF Next, Step, Done, vars, locals, Start, Resolve, Prepare,
         PublishCompiling, Compile, PublishRunning, SaveRunning, StartTest,
         Execute, Report, LoopEnds, SaveCompleted, RecordCompleted,
         PublishCompleted, FailSave, FailPublish, Cleanup, RecoverSave,
         RecoverPublish, Panic, CleanupPanics, Cancel
<1>4. ASSUME backend = "redis" PROVE ~stored'.tainted
  <2>1. CASE SaveRunning
    BY <1>4, <2>1, SaveUntainted DEF SaveRunning, LoopRecord
  <2>2. CASE SaveCompleted
    BY <1>4, <2>2, SaveUntainted DEF SaveCompleted, LoopRecord
  <2>3. CASE FailSave
    BY <1>4, <2>3, SaveUntainted DEF FailSave, FailedRecord
  <2>4. CASE RecoverSave
    BY <1>4, <2>4, SaveUntainted DEF RecoverSave, FailedRecord
  <2>5. CASE ~(SaveRunning \/ SaveCompleted \/ FailSave \/ RecoverSave)
    <3>1. stored' = stored
      BY <2>5 DEF Next, Step, Done, vars, Start, Resolve, Prepare,
         PublishCompiling, Compile, PublishRunning, StartTest, Execute, Report,
         LoopEnds, RecordCompleted, PublishCompleted, FailPublish, Cleanup,
         RecoverPublish, Panic, CleanupPanics, Cancel
    <3> QED BY <1>4, <3>1 DEF CancelInv
  <2> QED BY <2>1, <2>2, <2>3, <2>4, <2>5
<1> QED BY <1>1, <1>2, <1>3, <1>4 DEF CancelInv

\* With Redis, no verdict that a cancelled evaluation made up is ever stored
\* as final, although ProcessJob walks on to its final SaveState.
THEOREM CancelledRunStoresNothing == Spec => []NoVerdictFromCancelledRun
<1>1. Init => CancelInv
  BY InitTypeInv DEF Init, CancelInv, TypeInv
<1>2. CancelInv => NoVerdictFromCancelledRun
  BY DEF CancelInv, NoVerdictFromCancelledRun
<1> QED BY <1>1, <1>2, InitTypeInv, NextTypeInv, NextCancelInv, PTL DEF Spec

-----------------------------------------------------------------------------
(* EndsCleanly: what is counted and released by the time of each step.     *)

\* Before RecordSubmissionMetrics nothing is counted, and a panic of a call skips
\* it; after it the one record has the verdict of the evaluation, and a panic in
\* Cleanup does not change that.  Cleanup, if registered, has run before the panic
\* handler and before the return.
EndInv ==
    /\ panics # {} => pc \in {"cleanup", "recoverSave", "recoverPublish", "done"}
    /\ pc \in {"recoverSave", "recoverPublish"} => panics # {}
    /\ pc = "cleanup" => "cleanup" \notin panics
    /\ pc \in EvaluationPcs \cup {"recordMetrics", "failSave"} \/ Cut
          => recorded = <<>>
    /\ pc \in {"publishCompleted", "failPublish", "cleanup", "recoverSave",
              "recoverPublish", "done"} /\ ~Cut
          => Len(recorded) = 1 /\ recorded[1].verdict = overall
    /\ pc \in {"recoverSave", "recoverPublish", "done"} /\ deferred
          => ~workspace \/ "cleanup" \in panics

\* The first metrics record is the only one.
LEMMA FirstRecord ==
    ASSUME NEW status, NEW verdict, recorded = <<>>, RecordMetrics(status, verdict)
    PROVE  Len(recorded') = 1 /\ recorded'[1].verdict = verdict
<1> DEFINE m == [verdict |-> verdict, violation |-> Violation(status, verdict)]
<1>1. recorded' = Append(<<>>, m) /\ m.verdict = verdict
  BY DEF RecordMetrics
<1> HIDE DEF m
<1> QED BY <1>1

\* EndInv is preserved by every step.
LEMMA NextEndInv == TypeInv /\ EndInv /\ [Next]_vars => EndInv'
<1> SUFFICES ASSUME TypeInv, EndInv, [Next]_vars PROVE EndInv'
  OBVIOUS
<1> USE DEF EarlyPcs, EvaluationPcs, Cut
<1>1. CASE \/ Start \/ Resolve \/ Prepare \/ PublishCompiling \/ Compile
           \/ PublishRunning \/ SaveRunning \/ StartTest \/ Execute \/ Report
           \/ LoopEnds \/ SaveCompleted
  <2>1. /\ pc \in EvaluationPcs
        /\ pc' \in EvaluationPcs \cup {"recordMetrics", "failSave"}
        /\ UNCHANGED <<recorded, panics>>
    BY <1>1 DEF Start, Resolve, Prepare, PublishCompiling, Compile,
                PublishRunning, SaveRunning, StartTest, Execute, Report,
                LoopEnds, SaveCompleted, FailWith
  <2> QED BY <2>1 DEF EndInv
<1>2. CASE RecordCompleted
  <2>1. /\ pc = "recordMetrics" /\ pc' = "publishCompleted"
        /\ UNCHANGED <<overall, panics>>
        /\ RecordMetrics("COMPLETED", overall)
    BY <1>2 DEF RecordCompleted
  <2>2. recorded = <<>> /\ panics = {}
    BY <2>1 DEF EndInv
  <2>3. Len(recorded') = 1 /\ recorded'[1].verdict = overall
    BY <2>1, <2>2, FirstRecord
  <2> QED BY <2>1, <2>2, <2>3 DEF EndInv
<1>3. CASE FailSave
  <2>1. /\ pc = "failSave" /\ pc' = "failPublish"
        /\ UNCHANGED <<overall, panics>>
        /\ RecordMetrics("FAILED", overall)
    BY <1>3 DEF FailSave
  <2>2. recorded = <<>> /\ panics = {}
    BY <2>1 DEF EndInv
  <2>3. Len(recorded') = 1 /\ recorded'[1].verdict = overall
    BY <2>1, <2>2, FirstRecord
  <2> QED BY <2>1, <2>2, <2>3 DEF EndInv
<1>4. CASE PublishCompleted \/ FailPublish
  <2>1. /\ pc \in {"publishCompleted", "failPublish"} /\ pc' = "cleanup"
        /\ UNCHANGED <<overall, recorded, panics>>
    BY <1>4 DEF PublishCompleted, FailPublish
  <2> QED BY <2>1 DEF EndInv
<1>5. CASE Cleanup
  <2>1. /\ pc = "cleanup" /\ pc' = IF panics = {} THEN "done" ELSE "recoverSave"
        /\ UNCHANGED <<overall, recorded, panics, deferred>>
        /\ deferred => ~workspace'
    BY <1>5 DEF Cleanup, AfterCleanup
  <2>2. CASE panics # {}
    BY <2>1, <2>2 DEF EndInv
  <2>3. CASE panics = {}
    BY <2>1, <2>3 DEF EndInv
  <2> QED BY <2>2, <2>3
<1>6. CASE Panic
  <2>1. /\ pc \in EvaluationPcs /\ pc' = "cleanup" /\ panics' = {"call"}
        /\ UNCHANGED recorded
    BY <1>6 DEF Panic, SandboxCalls
  <2> QED BY <2>1 DEF EndInv
<1>9. CASE CleanupPanics
  <2>1. /\ pc = "cleanup" /\ pc' = "recoverSave"
        /\ panics' = panics \cup {"cleanup"}
        /\ UNCHANGED <<overall, recorded>>
    BY <1>9 DEF CleanupPanics
  <2> QED BY <2>1 DEF EndInv
<1>7. CASE RecoverSave \/ RecoverPublish
  <2>1. /\ pc \in {"recoverSave", "recoverPublish"}
        /\ pc' \in {"recoverPublish", "done"}
        /\ UNCHANGED <<recorded, panics, deferred, workspace, overall>>
    BY <1>7 DEF RecoverSave, RecoverPublish
  <2> QED BY <2>1 DEF EndInv
<1>8. CASE Cancel \/ UNCHANGED vars
  <2>1. UNCHANGED <<pc, overall, recorded, panics, deferred, workspace>>
    BY <1>8 DEF Cancel, vars
  <2> QED BY <2>1 DEF EndInv
<1> QED
  BY <1>1, <1>2, <1>3, <1>4, <1>5, <1>6, <1>7, <1>8, <1>9 DEF Next, Step, Done

\* However ProcessJob returns (success, failSubmission, a panic at any sandbox
\* call, a cancelled context), the workspace it prepared is gone unless Cleanup
\* itself panicked, and it was counted exactly once with its verdict, or not at
\* all when a panic cut the evaluation short.
THEOREM EveryExitIsClean == Spec => []EndsCleanly
<1>1. Init => EndInv
  BY DEF Init, EndInv, Cut, EvaluationPcs, EarlyPcs
<1>2. EndInv => EndsCleanly
  BY DEF EndInv, EndsCleanly, WorkspaceReleased, CountedOnce, Cut
<1> QED BY <1>1, <1>2, InitTypeInv, NextTypeInv, NextEndInv, PTL DEF Spec

-----------------------------------------------------------------------------
(* StreamOrdered: how far the stream of events may have come.              *)

\* Position, with the number of test cases as a parameter.
Place(e, total) ==
    CASE e.status = "COMPILING" -> 0
      [] e.status = "RUNNING" -> 1
      [] e.status = "TESTCASE_START" -> 2 * e.test
      [] e.status \in {"TESTCASE_PASSED", "TESTCASE_FAILED"} -> 2 * e.test + 1
      [] OTHER -> 2 * total + 2

Sorted(events, total) ==
    \A i, j \in 1 .. Len(events) :
        i < j => Place(events[i], total) < Place(events[j], total)

Under(events, total, bound) ==
    \A i \in 1 .. Len(events) : Place(events[i], total) < bound

\* The stream is sorted, and every event published so far lies below the ones
\* the steps ahead may still publish; the event of a panic in Cleanup may come on
\* a level with the last.
StreamInv ==
    /\ IF pc = "done" THEN StreamOrdered ELSE Sorted(published, Total)
    /\ pc \in {"start", "resolve", "prepare", "publishCompiling"}
          => published = <<>>
    /\ pc \in {"compile", "publishRunning"} => Under(published, Total, 1)
    /\ pc = "saveRunning" => Under(published, Total, 2)
    /\ pc \in EarlyPcs => results = <<>>
    /\ pc = "loop" => /\ Len(results) <= Total
                      /\ Under(published, Total, 2 * Len(results) + 2)
    /\ pc = "execute" => /\ Len(results) < Total
                         /\ Under(published, Total, 2 * Len(results) + 3)
    /\ pc = "report" => /\ Len(results) <= Total
                        /\ Under(published, Total, 2 * Len(results) + 1)
    /\ pc \in {"saveCompleted", "recordMetrics", "publishCompleted", "failSave",
              "failPublish"}
          => Under(published, Total, 2 * Total + 2)
    /\ pc \in {"cleanup", "recoverSave", "recoverPublish"}
          => Under(published, Total, IF Cut THEN 2 * Total + 2 ELSE 2 * Total + 3)

\* The place of an event is a natural number.
LEMMA PlaceType ==
    ASSUME NEW e \in Event, NEW total \in Nat
    PROVE  Place(e, total) \in Nat
<1>1. e.test \in Nat
  BY DEF Event
<1> QED BY <1>1 DEF Place

\* A bound may be raised.
LEMMA UnderWeaker ==
    ASSUME NEW events \in Seq(Event), NEW total \in Nat, NEW a \in Nat, NEW b \in Nat,
           a <= b, Under(events, total, a)
    PROVE  Under(events, total, b)
<1>1. \A i \in 1 .. Len(events) : Place(events[i], total) \in Nat
  BY PlaceType, ElementOfSeq
<1> QED BY <1>1 DEF Under

\* An event at or above the bound of the stream, published or lost, keeps it
\* sorted and below any bound that is above the event.
LEMMA PublishNext ==
    ASSUME NEW events \in Seq(Event), NEW total \in Nat, NEW b \in Nat, NEW c \in Nat,
           NEW e \in Event, NEW after,
           Sorted(events, total), Under(events, total, b),
           b <= Place(e, total), b <= c,
           after = events \/ after = Append(events, e)
    PROVE  /\ Sorted(after, total)
           /\ Place(e, total) < c => Under(after, total, c)
<1>1. CASE after = events
  BY <1>1, UnderWeaker
<1>2. CASE after = Append(events, e)
  <2> DEFINE n == Len(events)
  <2>1. /\ n \in Nat
        /\ Len(after) = n + 1
        /\ \A i \in 1 .. n : after[i] = events[i]
        /\ after[n + 1] = e
    BY <1>2, AppendProperties, LenProperties
  <2>2. /\ Place(e, total) \in Nat
        /\ \A i \in 1 .. n : Place(events[i], total) \in Nat
    BY PlaceType, ElementOfSeq
  <2>3. \A i \in 1 .. n : Place(after[i], total) < Place(e, total)
    BY <2>1, <2>2 DEF Under
  <2>4. Sorted(after, total)
    <3> SUFFICES ASSUME NEW i \in 1 .. n + 1, NEW j \in 1 .. n + 1, i < j
                 PROVE  Place(after[i], total) < Place(after[j], total)
      BY <2>1 DEF Sorted
    <3>1. CASE j = n + 1
      BY <2>1, <2>3, <3>1
    <3>2. CASE j # n + 1
      BY <2>1, <3>2 DEF Sorted
    <3> QED BY <3>1, <3>2
  <2>5. ASSUME Place(e, total) < c PROVE Under(after, total, c)
    <3> SUFFICES ASSUME NEW i \in 1 .. n + 1 PROVE Place(after[i], total) < c
      BY <2>1 DEF Under
    <3>1. CASE i = n + 1
      BY <2>1, <2>5, <3>1
    <3>2. CASE i # n + 1
      BY <2>1, <2>2, <2>3, <2>5, <3>2
    <3> QED BY <3>1, <3>2
  <2> QED BY <2>4, <2>5
<1> QED BY <1>1, <1>2

\* The same, for a call of Publish.
LEMMA PublishSorted ==
    ASSUME TypeOK, NEW b \in Nat, NEW c \in Nat,
           NEW status \in EventStatus, NEW test \in Nat,
           NEW verdict \in Verdict \cup {""}, NEW place \in Nat,
           Place([status |-> status, test |-> test, verdict |-> verdict], Total) = place,
           Sorted(published, Total), Under(published, Total, b),
           b <= place, b <= c,
           Publish(status, test, verdict)
    PROVE  /\ Sorted(published', Total)
           /\ place < c => Under(published', Total, c)
<1> DEFINE e == [status |-> status, test |-> test, verdict |-> verdict]
<1>1. e \in Event
  BY DEF Event
<1>2. published \in Seq(Event) /\ Total \in Nat
  <2>1. published \in Seq(Event) /\ hidden \in Seq(BOOLEAN)
    BY Zenon DEF TypeOK
  <2> QED BY <2>1, LenProperties DEF Total
<1>3. published' = published \/ published' = Append(published, e)
  BY PublishEffect, Zenon
<1>4. Place(e, Total) = place /\ b <= Place(e, Total)
  OBVIOUS
<1> HIDE DEF e
<1>5. Sorted(published', Total)
  BY <1>1, <1>2, <1>3, <1>4, PublishNext, Zenon
<1>6. Place(e, Total) < c => Under(published', Total, c)
  BY <1>1, <1>2, <1>3, <1>4, PublishNext, Zenon
<1> QED BY <1>4, <1>5, <1>6

\* StreamInv is preserved by every step.
LEMMA NextStreamInv == TypeInv /\ EndInv /\ StreamInv /\ [Next]_vars => StreamInv'
<1> SUFFICES ASSUME TypeInv, EndInv, StreamInv, [Next]_vars PROVE StreamInv'
  OBVIOUS
<1>t. /\ TypeOK
      /\ published \in Seq(Event)
      /\ Total \in Nat
      /\ Len(results) \in Nat
      /\ results \in Seq(Result)
  BY DEF TypeInv, TypeOK, Total
<1>e. \A total, bound : Sorted(<<>>, total) /\ Under(<<>>, total, bound)
  BY DEF Sorted, Under
<1>n. /\ 0 \in Nat /\ 1 \in Nat /\ 2 \in Nat
      /\ 0 <= 1 /\ 0 < 1 /\ 1 <= 2 /\ 1 < 2
      /\ Len(results) + 1 \in Nat
      /\ 2 * Len(results) + 1 \in Nat
      /\ 2 * Len(results) + 2 \in Nat
      /\ 2 * Len(results) + 3 \in Nat
      /\ 2 * Total + 2 \in Nat /\ 2 * Total + 3 \in Nat
      /\ 2 * Total + 2 < 2 * Total + 3 /\ 2 * Total + 2 <= 2 * Total + 3
      /\ \A k \in Nat : k <= k
      /\ 2 * Len(results) + 1 < 2 * Len(results) + 2
      /\ 2 * Len(results) + 1 <= 2 * Len(results) + 2
      /\ 2 * Len(results) + 2 < 2 * Len(results) + 3
      /\ 2 * Len(results) + 2 <= 2 * Len(results) + 3
  BY <1>t
<1>w. \A a, b \in Nat : a <= b /\ Under(published, Total, a) => Under(published, Total, b)
  BY <1>t, UnderWeaker
<1>o. Sorted(published', Total) /\ Total' = Total => StreamOrdered'
  BY DEF StreamOrdered, Sorted, Position, Place, Total
<1> USE DEF EarlyPcs
<1>1. CASE Start
  <2>1. /\ pc = "start" /\ pc' = "resolve"
        /\ UNCHANGED <<published, results>>
    BY <1>1 DEF Start
  <2>2. published = <<>> /\ results = <<>>
    BY <2>1 DEF StreamInv
  <2>3. Sorted(published', Total')
    BY <1>e, <2>1, <2>2
  <2> QED BY <2>1, <2>2, <2>3 DEF StreamInv
<1>2. CASE Resolve \/ Prepare
  <2>1. /\ pc \in {"resolve", "prepare"}
        /\ pc' \in {"prepare", "publishCompiling", "publishRunning", "failSave"}
        /\ UNCHANGED <<published, results, Total>>
    BY <1>2 DEF Resolve, Prepare, FailWith, Total
  <2>2. published = <<>> /\ results = <<>>
    BY <2>1 DEF StreamInv
  <2>3. \A bound : Under(published', Total', bound)
    BY <1>e, <2>1, <2>2
  <2> QED BY <2>1, <2>2, <2>3 DEF StreamInv
<1>3. CASE PublishCompiling
  <2>1. /\ pc = "publishCompiling" /\ pc' = "compile"
        /\ UNCHANGED <<results, Total>>
        /\ Publish("COMPILING", 0, "")
    BY <1>3 DEF PublishCompiling, Total
  <2>2. Under(published, Total, 0) /\ Sorted(published, Total)
    BY <1>e, <2>1 DEF StreamInv
  <2>3. Place([status |-> "COMPILING", test |-> 0, verdict |-> ""], Total) = 0
    BY DEF Place
  <2>4. "COMPILING" \in EventStatus
    BY DEF EventStatus
  <2>5. Sorted(published', Total) /\ Under(published', Total, 1)
    BY <1>t, <2>1, <2>2, <2>3, <2>4, <1>n, PublishSorted, Zenon
  <2> QED BY <2>1, <2>5 DEF StreamInv
<1>4. CASE Compile
  <2>1. /\ pc = "compile" /\ pc' \in {"publishRunning", "failSave"}
        /\ UNCHANGED <<published, results, Total>>
    BY <1>4 DEF Compile, FailWith, Total
  <2>2. Under(published, Total, 1) /\ Under(published, Total, 2 * Total + 2)
    BY <1>t, <1>w, <2>1 DEF StreamInv
  <2> QED BY <2>1, <2>2 DEF StreamInv
<1>5. CASE PublishRunning
  <2>1. /\ pc = "publishRunning" /\ pc' = "saveRunning"
        /\ UNCHANGED <<results, Total>>
        /\ Publish("RUNNING", 0, "")
    BY <1>5 DEF PublishRunning, Total
  <2>2. Under(published, Total, 1) /\ Sorted(published, Total)
    BY <2>1 DEF StreamInv
  <2>3. Place([status |-> "RUNNING", test |-> 0, verdict |-> ""], Total) = 1
    BY DEF Place
  <2>4. "RUNNING" \in EventStatus
    BY DEF EventStatus
  <2>5. Sorted(published', Total) /\ Under(published', Total, 2)
    BY <1>t, <2>1, <2>2, <2>3, <2>4, <1>n, PublishSorted, Zenon
  <2> QED BY <2>1, <2>5 DEF StreamInv
<1>6. CASE SaveRunning
  <2>1. /\ pc = "saveRunning" /\ pc' = "loop"
        /\ UNCHANGED <<published, results, Total>>
    BY <1>6 DEF SaveRunning, Total
  <2>2. results = <<>> /\ Under(published, Total, 2)
    BY <2>1 DEF StreamInv
  <2>3. Len(results) = 0
    BY <2>2
  <2>4. 2 * Len(results) + 2 = 2 /\ Len(results) <= Total
    BY <1>t, <2>3
  <2> QED BY <2>1, <2>2, <2>4 DEF StreamInv
<1>7. CASE StartTest
  <2>1. /\ pc = "loop" /\ pc' = "execute"
        /\ Len(results) < Total
        /\ UNCHANGED <<results, Total>>
        /\ Publish("TESTCASE_START", Len(results) + 1, "")
    BY <1>7 DEF StartTest, Total
  <2>2. Under(published, Total, 2 * Len(results) + 2) /\ Sorted(published, Total)
    BY <2>1 DEF StreamInv
  <2>3. Place([status |-> "TESTCASE_START", test |-> Len(results) + 1,
               verdict |-> ""], Total) = 2 * Len(results) + 2
    BY <1>t DEF Place
  <2>4. "TESTCASE_START" \in EventStatus
    BY DEF EventStatus
  <2>5. Sorted(published', Total) /\ Under(published', Total, 2 * Len(results) + 3)
    BY <1>t, <2>1, <2>2, <2>3, <2>4, <1>n, PublishSorted, Zenon
  <2> QED BY <2>1, <2>5 DEF StreamInv
<1>8. CASE Execute
  <2>1. /\ pc = "execute" /\ pc' = "report"
        /\ UNCHANGED <<published, Total>>
        /\ Len(results') = Len(results) + 1
    <3>1. PICK r : results' = Append(results, r)
      BY <1>8 DEF Execute
    <3>2. Len(results') = Len(results) + 1
      BY <1>t, <3>1
    <3> QED BY <1>8, <3>2 DEF Execute, Total
  <2>2. Under(published, Total, 2 * Len(results) + 3) /\ Len(results) < Total
    BY <2>1 DEF StreamInv
  <2>3. /\ 2 * Len(results') + 1 = 2 * Len(results) + 3
        /\ Len(results') <= Total
    BY <1>t, <2>1, <2>2
  <2> QED BY <2>1, <2>2, <2>3 DEF StreamInv
<1>9. CASE Report
  <2> DEFINE v == results[Len(results)].verdict
  <2>1. /\ pc = "report" /\ pc' = "loop"
        /\ UNCHANGED <<results, Total>>
        /\ IF v = "ACCEPTED"
           THEN Publish("TESTCASE_PASSED", Len(results), "")
           ELSE Publish("TESTCASE_FAILED", Len(results), v)
    BY <1>9 DEF Report, Total
  <2>2. /\ Under(published, Total, 2 * Len(results) + 1)
        /\ Sorted(published, Total)
        /\ Len(results) <= Total
    BY <2>1 DEF StreamInv
  <2>a. results # <<>>
    BY <2>1 DEF TypeInv
  <2>b. Len(results) \in 1 .. Len(results)
    BY <1>t, <2>a
  <2>c. results[Len(results)] \in Result
    BY <1>t, <2>b, ElementOfSeq
  <2>3. v \in Verdict
    BY <2>c, TestVerdictsAssumption DEF Result
  <2> HIDE DEF v
  <2>4. PICK status \in {"TESTCASE_PASSED", "TESTCASE_FAILED"},
             verdict \in Verdict \cup {""} : Publish(status, Len(results), verdict)
    BY <2>1, <2>3, Zenon
  <2>5. Place([status |-> status, test |-> Len(results),
               verdict |-> verdict], Total) = 2 * Len(results) + 1
    BY <1>t DEF Place
  <2>6. status \in EventStatus
    BY DEF EventStatus
  <2>7. Sorted(published', Total) /\ Under(published', Total, 2 * Len(results) + 2)
    BY <1>t, <2>2, <2>4, <2>5, <2>6, <1>n, PublishSorted, Zenon
  <2> QED BY <2>1, <2>2, <2>7 DEF StreamInv
<1>10. CASE LoopEnds
  <2>1. /\ pc = "loop" /\ pc' = "saveCompleted"
        /\ Len(results) = Total
        /\ UNCHANGED <<published, results, Total>>
    BY <1>10 DEF LoopEnds, Total
  <2>2. Under(published, Total, 2 * Total + 2)
    BY <2>1 DEF StreamInv
  <2> QED BY <2>1, <2>2 DEF StreamInv
<1>11. CASE SaveCompleted \/ RecordCompleted \/ FailSave
  <2>1. /\ pc \in {"saveCompleted", "recordMetrics", "failSave"}
        /\ pc' \in {"recordMetrics", "publishCompleted", "failPublish"}
        /\ UNCHANGED <<published, results, Total>>
    BY <1>11 DEF SaveCompleted, RecordCompleted, FailSave, Total
  <2>2. Under(published, Total, 2 * Total + 2)
    BY <2>1 DEF StreamInv
  <2> QED BY <2>1, <2>2 DEF StreamInv
<1>12. CASE PublishCompleted \/ FailPublish
  <2>1. /\ pc \in {"publishCompleted", "failPublish"}
        /\ pc' = "cleanup" /\ panics' = panics
        /\ UNCHANGED <<results, Total>>
    BY <1>12 DEF PublishCompleted, FailPublish, Total
  <2>2. ~Cut'
    BY <2>1 DEF EndInv, Cut
  <2>3. /\ Under(published, Total, 2 * Total + 2)
        /\ Sorted(published, Total)
    BY <2>1 DEF StreamInv
  <2>4. PICK status \in {"COMPLETED", "FAILED"}, test \in Nat, verdict \in Verdict :
           Publish(status, test, verdict)
    BY <1>12, <1>t DEF PublishCompleted, FailPublish, TypeOK, Verdict
  <2>5. Place([status |-> status, test |-> test, verdict |-> verdict], Total)
           = 2 * Total + 2
    BY DEF Place
  <2>6. status \in EventStatus
    BY DEF EventStatus
  <2>7. Sorted(published', Total) /\ Under(published', Total, 2 * Total + 3)
    BY <1>t, <2>3, <2>4, <2>5, <2>6, <1>n, PublishSorted, Zenon
  <2> QED BY <2>1, <2>2, <2>7 DEF StreamInv
<1>13. CASE Cleanup
  <2>1. /\ pc = "cleanup"
        /\ pc' = "recoverSave" \/ pc' = "done"
        /\ UNCHANGED <<published, results, Total, panics>>
    BY <1>13 DEF Cleanup, Total
  <2>2. /\ Under(published, Total, IF Cut THEN 2 * Total + 2 ELSE 2 * Total + 3)
        /\ Sorted(published, Total)
    BY <2>1 DEF StreamInv
  <2>3. StreamOrdered'
    BY <1>o, <2>1, <2>2
  <2> QED BY <2>1, <2>2, <2>3 DEF StreamInv, Cut
<1>16. CASE RecoverSave \/ CleanupPanics
  <2>1. /\ pc \in {"cleanup", "recoverSave"}
        /\ pc' \in {"recoverSave", "recoverPublish"}
        /\ UNCHANGED <<published, results, Total>>
        /\ Cut' <=> Cut
    BY <1>16 DEF RecoverSave, CleanupPanics, Total, Cut
  <2>2. /\ Under(published, Total, IF Cut THEN 2 * Total + 2 ELSE 2 * Total + 3)
        /\ Sorted(published, Total)
    BY <2>1 DEF StreamInv
  <2> QED BY <2>1, <2>2 DEF StreamInv
<1>17. CASE RecoverPublish
  <2>1. /\ pc = "recoverPublish" /\ pc' = "done"
        /\ UNCHANGED <<results, Total, panics>>
        /\ Publish("FAILED", 0, "SYSTEM_ERROR")
    BY <1>17 DEF RecoverPublish, Total
  <2>2. /\ Under(published, Total, IF Cut THEN 2 * Total + 2 ELSE 2 * Total + 3)
        /\ Sorted(published, Total)
    BY <2>1 DEF StreamInv
  <2> DEFINE e == [status |-> "FAILED", test |-> 0, verdict |-> "SYSTEM_ERROR"]
  <2>3. e \in Event /\ Place(e, Total) = 2 * Total + 2
    BY DEF Event, EventStatus, Verdict, Place
  <2>4. StreamOrdered'
    <3>1. CASE Cut
      <4>1. "FAILED" \in EventStatus /\ "SYSTEM_ERROR" \in Verdict
        BY DEF EventStatus, Verdict
      <4>2. Sorted(published', Total)
        BY <1>t, <1>n, <2>1, <2>2, <2>3, <3>1, <4>1, PublishSorted, Zenon
      <4> QED BY <1>o, <2>1, <4>2
    <3>2. CASE published' = published
      BY <1>o, <2>1, <2>2, <3>2
    <3>3. CASE ~Cut /\ published' = Append(published, e)
      <4> DEFINE n == Len(published)
      <4>1. /\ n \in Nat
            /\ Len(published') = n + 1
            /\ \A i \in 1 .. n : published'[i] = published[i]
            /\ published'[n + 1] = e
        BY <1>t, <2>3, <3>3, AppendProperties, LenProperties
      <4>2. "cleanup" \in panics'
        BY <2>1, <3>3 DEF EndInv, Cut, TypeInv, TypeOK
      <4>3. \A i \in 1 .. n : /\ Place(published[i], Total) \in Nat
                             /\ Place(published[i], Total) < 2 * Total + 3
        BY <1>t, <2>2, <3>3, PlaceType, ElementOfSeq DEF Under
      <4> HIDE DEF e
      <4> SUFFICES ASSUME NEW i \in 1 .. n + 1, NEW j \in 1 .. n + 1, i < j
                   PROVE  \/ Place(published'[i], Total) < Place(published'[j], Total)
                          \/ /\ Place(published'[i], Total) = Place(published'[j], Total)
                             /\ j = n + 1
        BY <2>1, <4>1, <4>2 DEF StreamOrdered, Overturning, Position, Place, Total, e
      <4>4. CASE j = n + 1
        <5>1. i \in 1 .. n
          BY <4>1, <4>4
        <5>2. Place(published'[i], Total) \in Nat
              /\ Place(published'[i], Total) < 2 * Total + 3
          BY <4>1, <4>3, <5>1
        <5>3. Place(published'[j], Total) = 2 * Total + 2
          BY <2>3, <4>1, <4>4
        <5> QED BY <1>t, <4>4, <5>2, <5>3
      <4>5. CASE j # n + 1
        BY <2>2, <4>1, <4>5 DEF Sorted
      <4> QED BY <4>4, <4>5
    <3> QED BY <2>1, <3>1, <3>2, <3>3, PublishEffect, Zenon
  <2> QED BY <2>1, <2>4 DEF StreamInv
<1>14. CASE Panic
  <2>1. /\ pc \in {"resolve", "prepare", "compile", "execute"}
        /\ pc' = "cleanup" /\ Cut'
        /\ UNCHANGED <<published, results, Total>>
    BY <1>14 DEF Panic, SandboxCalls, Total, Cut
  <2>2. \E a \in Nat : a <= 2 * Total + 2 /\ Under(published, Total, a)
    <3>1. CASE pc \in {"resolve", "prepare"}
      BY <1>t, <1>e, <3>1 DEF StreamInv
    <3>2. CASE pc = "compile"
      BY <1>t, <3>2 DEF StreamInv
    <3>3. CASE pc = "execute"
      <4>1. Len(results) < Total /\ Under(published, Total, 2 * Len(results) + 3)
        BY <3>3 DEF StreamInv
      <4> QED BY <1>t, <4>1
    <3> QED BY <2>1, <3>1, <3>2, <3>3
  <2>3. Under(published, Total, 2 * Total + 2)
    BY <1>t, <1>w, <2>2
  <2> QED BY <2>1, <2>3 DEF StreamInv
<1>15. CASE Cancel \/ UNCHANGED vars
  <2>1. UNCHANGED <<pc, published, results, Total, panics>>
    BY <1>15 DEF Cancel, vars, Total
  <2>2. StreamOrdered' <=> StreamOrdered
    BY <2>1 DEF StreamOrdered, Overturning, Position, Total
  <2> QED BY <2>1, <2>2 DEF StreamInv, Cut
<1> QED
  BY <1>1, <1>2, <1>3, <1>4, <1>5, <1>6, <1>7, <1>8, <1>9, <1>10, <1>11, <1>12,
     <1>13, <1>14, <1>15, <1>16, <1>17 DEF Next, Step, Done

\* For any number of test cases and whatever the bus loses, the events of one
\* evaluation come in the order of its life, without repetition, and nothing
\* follows the final one, also when a panic replaces the rest of the loop; only a
\* panic in Cleanup adds a second final event.
THEOREM StreamInOrder == Spec => []StreamOrdered
<1>1. Init => EndInv
  BY DEF Init, EndInv, Cut, EvaluationPcs, EarlyPcs
<1>2. Init => StreamInv
  BY DEF Init, StreamInv, Sorted, Under
<1>3. StreamInv => StreamOrdered
  BY DEF StreamInv, StreamOrdered, Sorted, Place, Position
<1> QED
  BY <1>1, <1>2, <1>3, InitTypeInv, NextTypeInv, NextEndInv, NextStreamInv, PTL
     DEF Spec

-----------------------------------------------------------------------------
(* The contract of module Job: what the store holds at each step, and that *)
(* a final event is published by the last step only.                       *)

\* The final events of a stream, as the refinement mapping collects them.
Announced(events) ==
    {<<events[i].status, events[i].verdict>> :
        i \in {j \in 1 .. Len(events) : events[j].status \in Terminal}}

\* The final record that the steps up to the final event stand for: if one is
\* stored it is this one, and the in-memory store holds it.
Final(status, verdict) ==
    /\ stored.status \in Terminal => stored.status = status /\ stored.verdict = verdict
    /\ backend = "memory" => stored.status \in Terminal

\* The evaluation ran to its end and its final event was published; what is left
\* is the deferred Cleanup, and the recovery if that panics.
Decided == pc \in {"cleanup", "recoverSave", "recoverPublish"} /\ ~Cut

ContractInv ==
    /\ pc # "done" /\ ~Decided => Announced(published) = {}
    /\ Decided /\ backend = "memory" => Announced(published) # {}
    /\ pc \in EarlyPcs \cup {"failSave"} => stored.status = "QUEUED"
    /\ pc \in EarlyPcs => stored.verdict = "ACCEPTED"
    /\ pc \in {"loop", "execute", "report", "saveCompleted"} =>
          stored.status = "RUNNING" \/ (backend # "memory" /\ stored.status = "QUEUED")
    /\ pc \in EvaluationPcs => overall \in Verdict \ {"COMPILATION_ERROR"}
    /\ pc \in {"recordMetrics", "publishCompleted"} => Final("COMPLETED", overall)
    /\ pc \in {"failSave", "failPublish"} => overall \in FailureVerdict
    /\ pc = "failPublish" => Final("FAILED", overall)
    /\ pc = "recoverPublish" /\ Cut => Final("FAILED", "SYSTEM_ERROR")
    /\ pc = "recoverPublish" /\ ~Cut /\ backend = "memory" =>
          stored.status = "FAILED" /\ stored.verdict = "SYSTEM_ERROR"

\* One more event announces itself if it is a final one.
LEMMA AnnouncedAppend ==
    ASSUME NEW events \in Seq(Event), NEW e \in Event
    PROVE  Announced(Append(events, e)) =
             IF e.status \in Terminal
             THEN Announced(events) \cup {<<e.status, e.verdict>>}
             ELSE Announced(events)
<1> DEFINE n == Len(events)
           after == Append(events, e)
<1>1. /\ n \in Nat /\ Len(after) = n + 1
      /\ \A i \in 1 .. n : after[i] = events[i]
      /\ after[n + 1] = e
  BY AppendProperties, LenProperties
<1>2. \A i : i \in 1 .. n + 1 <=> i \in 1 .. n \/ i = n + 1
  BY <1>1
<1>3. n + 1 \notin 1 .. n
  BY <1>1
<1> HIDE DEF n, after
<1>4. CASE e.status \in Terminal
  <2>1. Announced(after) = Announced(events) \cup {<<e.status, e.verdict>>}
    BY <1>1, <1>2, <1>3, <1>4, Zenon DEF Announced, n
  <2> QED BY <1>4, <2>1 DEF after
<1>5. CASE e.status \notin Terminal
  <2>1. Announced(after) = Announced(events)
    BY <1>1, <1>2, <1>3, <1>5, Zenon DEF Announced, n
  <2> QED BY <1>5, <2>1 DEF after
<1> QED BY <1>4, <1>5

\* Publishing an event that is not final announces nothing.
LEMMA PublishQuiet ==
    ASSUME TypeOK, NEW status \in EventStatus \ Terminal, NEW test \in Nat,
           NEW verdict \in Verdict \cup {""}, Publish(status, test, verdict)
    PROVE  Announced(published') = Announced(published)
<1> DEFINE e == [status |-> status, test |-> test, verdict |-> verdict]
<1>1. e \in Event /\ e.status \notin Terminal
  BY DEF Event
<1>2. published' = published \/ published' = Append(published, e)
  BY PublishEffect, Zenon
<1>3. published \in Seq(Event)
  BY Zenon DEF TypeOK
<1> HIDE DEF e
<1> QED BY <1>1, <1>2, <1>3, AnnouncedAppend

\* Publishing a final event announces it; the in-memory bus takes it for sure.
LEMMA PublishFinal ==
    ASSUME TypeOK, NEW status \in Terminal, NEW test \in Nat,
           NEW verdict \in Verdict, Publish(status, test, verdict),
           Announced(published) = {}
    PROVE  \/ published' = published /\ backend # "memory"
           \/ Announced(published') = {<<status, verdict>>}
<1> DEFINE e == [status |-> status, test |-> test, verdict |-> verdict]
<1>1. e \in Event /\ e.status = status /\ e.verdict = verdict
  BY DEF Event, Terminal, EventStatus
<1>2. PICK ok \in WriteOutcomes :
         published' = IF ok THEN Append(published, e) ELSE published
  BY Zenon DEF Publish
<1>3. published \in Seq(Event)
  BY Zenon DEF TypeOK
<1> HIDE DEF e
<1>4. CASE ok
  <2>1. published' = Append(published, e)
    BY <1>2, <1>4
  <2> QED BY <1>1, <1>3, <2>1, AnnouncedAppend
<1>5. CASE ~ok
  <2>1. published' = published
    BY <1>2, <1>5
  <2>2. backend # "memory"
    BY <1>5, Zenon DEF WriteOutcomes
  <2> QED BY <2>1, <2>2
<1> QED BY <1>4, <1>5

\* The in-memory store takes every write.
LEMMA SaveOutcome ==
    ASSUME NEW record, SaveState(record)
    PROVE  stored' = record \/ (stored' = stored /\ backend # "memory")
<1>1. PICK ok \in WriteOutcomes : stored' = IF ok THEN record ELSE stored
  BY DEF SaveState
<1>2. CASE ok
  BY <1>1, <1>2
<1>3. CASE ~ok
  <2>1. backend # "memory"
    BY <1>3, Zenon DEF WriteOutcomes
  <2> QED BY <1>1, <1>3, <2>1
<1> QED BY <1>2, <1>3

\* The contract's variables, through the mapping.
LEMMA MappedVars ==
    Contract!jobVars = <<backend = "memory", stored.status, stored.verdict,
                         Announced(published), "cleanup" \in panics>>
BY DEF Contract!jobVars, Announced

\* A step that stores and announces nothing leaves the contract alone.
LEMMA MapsToStutter ==
    ASSUME backend' = backend, stored' = stored,
           panics' = panics \/ ("cleanup" \notin panics /\ "cleanup" \notin panics'),
           Announced(published') = Announced(published)
    PROVE  UNCHANGED Contract!jobVars
<1>1. Announced(published)' = Announced(published')
  BY DEF Announced
<1> QED BY <1>1, MappedVars DEF Contract!jobVars, Announced

\* A step that changes the record is one of the three that write it.
LEMMA MapsToWrite ==
    ASSUME backend' = backend, published' = published, panics' = panics,
           Announced(published) = {},
           \/ /\ stored.status = "QUEUED"
              /\ stored'.status = "RUNNING" /\ stored'.verdict = stored.verdict
           \/ /\ \/ stored.status = "RUNNING"
                 \/ backend # "memory" /\ stored.status = "QUEUED"
              /\ stored'.status = "COMPLETED"
              /\ stored'.verdict \in Verdict \ {"COMPILATION_ERROR"}
           \/ /\ stored.status \notin Terminal
              /\ stored'.status = "FAILED" /\ stored'.verdict \in FailureVerdict
              /\ stored'.verdict = "COMPILATION_ERROR" => stored.status = "QUEUED"
    PROVE  Contract!Next
BY DEF Contract!Next, Contract!Decide, Contract!Begin, Contract!Complete, Contract!Fail,
       Contract!Verdict, Contract!Terminal, Contract!FailureVerdict, Verdict,
       FailureVerdict, Terminal, Announced

\* A step that announces is the announcement, of the stored record if that is
\* final.
LEMMA MapsToAnnounce ==
    ASSUME backend' = backend, stored' = stored, panics' = panics,
           Announced(published) = {}, NEW status \in Terminal, NEW verdict \in Verdict,
           Announced(published') = {<<status, verdict>>},
           Final(status, verdict)
    PROVE  Contract!Next
<1>1. CASE stored.status \in Terminal
  BY <1>1 DEF Contract!Next, Contract!Decide, Contract!Announce, Contract!Terminal, Terminal,
              Announced, Final
<1>2. CASE stored.status \notin Terminal
  <2>1. backend # "memory"
    BY <1>2 DEF Final
  <2> QED BY <1>2, <2>1 DEF Contract!Next, Contract!Decide, Contract!Announce, Contract!Terminal,
                            Contract!Verdict, Verdict, Terminal, Announced
<1> QED BY <1>1, <1>2

\* Every step keeps ContractInv and is a step of the contract or none.
LEMMA NextContract ==
    ASSUME ReportInv, EndInv, ContractInv, [Next]_vars
    PROVE  ContractInv' /\ [Contract!Next]_(Contract!jobVars)
<1>t. TypeInv /\ TypeOK /\ OpenWhileAhead
  BY DEF ReportInv, TypeInv
<1>b. backend' = backend
  BY DEF Next, Step, Done, vars, Start, Resolve, Prepare, PublishCompiling, Compile,
         PublishRunning, SaveRunning, StartTest, Execute, Report, LoopEnds,
         SaveCompleted, RecordCompleted, PublishCompleted, FailSave, FailPublish,
         Cleanup, RecoverSave, RecoverPublish, Panic, CleanupPanics, Cancel
<1>a. Announced(published)' = Announced(published')
  BY DEF Announced
<1> USE DEF EarlyPcs, EvaluationPcs
<1>1. CASE \/ Start \/ Resolve \/ Prepare \/ PublishCompiling \/ Compile
           \/ PublishRunning
  <2>1. /\ pc \in EarlyPcs \ {"saveRunning"}
        /\ stored' = stored /\ panics' = panics
        /\ \/ pc' \in EarlyPcs /\ overall' = overall
           \/ pc' = "failSave" /\ overall' \in FailureVerdict
    BY <1>1 DEF Start, Resolve, Prepare, PublishCompiling, Compile, PublishRunning,
                FailWith, FailureVerdict
  <2>2. Announced(published') = Announced(published)
    <3>1. CASE PublishCompiling
      BY <1>t, <3>1, PublishQuiet DEF PublishCompiling, EventStatus, Terminal
    <3>2. CASE PublishRunning
      BY <1>t, <3>2, PublishQuiet DEF PublishRunning, EventStatus, Terminal
    <3>3. CASE Start \/ Resolve \/ Prepare \/ Compile
      <4>1. published' = published
        BY <3>3 DEF Start, Resolve, Prepare, Compile
      <4> QED BY <4>1
    <3> QED BY <1>1, <3>1, <3>2, <3>3
  <2>3. ContractInv'
    BY <1>a, <2>1, <2>2 DEF ContractInv, Decided
  <2> QED BY <1>b, <2>1, <2>2, <2>3, MapsToStutter
<1>2. CASE SaveRunning
  <2>1. /\ pc = "saveRunning" /\ pc' = "loop"
        /\ UNCHANGED <<overall, published, panics>>
        /\ SaveState(LoopRecord("RUNNING", "ACCEPTED", 0))
    BY <1>2 DEF SaveRunning
  <2>2. /\ Announced(published) = {}
        /\ stored.status = "QUEUED" /\ stored.verdict = "ACCEPTED"
        /\ overall \in Verdict \ {"COMPILATION_ERROR"}
    BY <2>1 DEF ContractInv, Decided
  <2>3. CASE stored' = LoopRecord("RUNNING", "ACCEPTED", 0)
    <3>1. stored'.status = "RUNNING" /\ stored'.verdict = "ACCEPTED"
      BY <2>3 DEF LoopRecord
    <3>2. ContractInv'
      BY <1>a, <2>1, <2>2, <3>1 DEF ContractInv, Decided
    <3> QED BY <1>b, <2>1, <2>2, <3>1, <3>2, MapsToWrite
  <2>4. CASE stored' = stored /\ backend # "memory"
    <3>1. ContractInv'
      BY <1>a, <1>b, <2>1, <2>2, <2>4 DEF ContractInv, Decided
    <3> QED BY <1>b, <2>1, <2>4, <3>1, MapsToStutter
  <2> QED BY <2>1, <2>3, <2>4, SaveOutcome
<1>3. CASE StartTest \/ Execute \/ Report \/ LoopEnds
  <2>1. /\ pc \in {"loop", "execute", "report"}
        /\ pc' \in {"loop", "execute", "report", "saveCompleted"}
        /\ stored' = stored /\ panics' = panics
    BY <1>3 DEF StartTest, Execute, Report, LoopEnds
  <2>2. overall' \in Verdict \ {"COMPILATION_ERROR"}
    <3>1. overall \in Verdict \ {"COMPILATION_ERROR"}
      BY <2>1 DEF ContractInv, Decided
    <3>2. CASE Execute
      BY <3>1, <3>2, TestVerdictsAssumption DEF Execute, OverallVerdict
    <3>3. CASE ~Execute
      BY <1>3, <3>1, <3>3 DEF StartTest, Report, LoopEnds
    <3> QED BY <3>2, <3>3
  <2>3. Announced(published') = Announced(published)
    <3>0. Len(results) \in Nat /\ Len(results) + 1 \in Nat /\ results \in Seq(Result)
      BY <1>t DEF TypeOK
    <3>1. CASE StartTest
      BY <1>t, <3>0, <3>1, PublishQuiet DEF StartTest, EventStatus, Terminal
    <3>2. CASE Report
      <4> DEFINE v == results[Len(results)].verdict
      <4>1. IF v = "ACCEPTED" THEN Publish("TESTCASE_PASSED", Len(results), "")
                              ELSE Publish("TESTCASE_FAILED", Len(results), v)
        BY <3>2 DEF Report
      <4>2. results # <<>>
        BY <1>t, <3>2 DEF Report, TypeInv
      <4>3. Len(results) \in 1 .. Len(results)
        BY <3>0, <4>2
      <4>4. results[Len(results)] \in Result
        BY <3>0, <4>3, ElementOfSeq
      <4>5. v \in Verdict
        BY <4>4, TestVerdictsAssumption DEF Result
      <4>6. /\ "TESTCASE_PASSED" \in EventStatus \ Terminal
            /\ "TESTCASE_FAILED" \in EventStatus \ Terminal
        BY DEF EventStatus, Terminal
      <4> HIDE DEF v
      <4> QED BY <1>t, <3>0, <4>1, <4>5, <4>6, PublishQuiet
    <3>3. CASE Execute \/ LoopEnds
      <4>1. published' = published
        BY <3>3 DEF Execute, LoopEnds
      <4> QED BY <4>1
    <3> QED BY <1>3, <3>1, <3>2, <3>3
  <2>4. ContractInv'
    BY <1>a, <1>b, <2>1, <2>2, <2>3 DEF ContractInv, Decided
  <2> QED BY <1>b, <2>1, <2>3, <2>4, MapsToStutter
<1>4. CASE SaveCompleted
  <2>1. /\ pc = "saveCompleted" /\ pc' = "recordMetrics"
        /\ UNCHANGED <<overall, published, panics>>
        /\ SaveState(LoopRecord("COMPLETED", overall, passed))
    BY <1>4 DEF SaveCompleted
  <2>2. /\ Announced(published) = {}
        /\ stored.status = "RUNNING" \/ (backend # "memory" /\ stored.status = "QUEUED")
        /\ overall \in Verdict \ {"COMPILATION_ERROR"}
    BY <2>1 DEF ContractInv, Decided
  <2>3. CASE stored' = LoopRecord("COMPLETED", overall, passed)
    <3>1. stored'.status = "COMPLETED" /\ stored'.verdict = overall
      BY <2>3 DEF LoopRecord
    <3>2. ContractInv'
      BY <1>a, <2>1, <2>2, <3>1 DEF ContractInv, Decided, Final, Terminal
    <3> QED BY <1>b, <2>1, <2>2, <3>1, <3>2, MapsToWrite
  <2>4. CASE stored' = stored /\ backend # "memory"
    <3>1. stored.status \notin Terminal
      BY <2>2 DEF Terminal
    <3>2. ContractInv'
      BY <1>a, <1>b, <2>1, <2>2, <2>4, <3>1 DEF ContractInv, Decided, Final
    <3> QED BY <1>b, <2>1, <2>4, <3>2, MapsToStutter
  <2> QED BY <2>1, <2>3, <2>4, SaveOutcome
<1>5. CASE FailSave
  <2>1. /\ pc = "failSave" /\ pc' = "failPublish"
        /\ UNCHANGED <<overall, published, panics>>
        /\ SaveState(FailedRecord(overall))
    BY <1>5 DEF FailSave
  <2>2. /\ Announced(published) = {} /\ stored.status = "QUEUED"
        /\ overall \in FailureVerdict
    BY <2>1 DEF ContractInv, Decided
  <2>3. CASE stored' = FailedRecord(overall)
    <3>1. stored'.status = "FAILED" /\ stored'.verdict = overall
      BY <2>3 DEF FailedRecord
    <3>2. ContractInv'
      BY <1>a, <2>1, <2>2, <3>1 DEF ContractInv, Decided, Final, Terminal
    <3>3. stored.status \notin Terminal
      BY <2>2 DEF Terminal
    <3> QED BY <1>b, <2>1, <2>2, <3>1, <3>2, <3>3, MapsToWrite
  <2>4. CASE stored' = stored /\ backend # "memory"
    <3>1. stored.status \notin Terminal
      BY <2>2 DEF Terminal
    <3>2. ContractInv'
      BY <1>a, <1>b, <2>1, <2>2, <2>4, <3>1 DEF ContractInv, Decided, Final
    <3> QED BY <1>b, <2>1, <2>4, <3>2, MapsToStutter
  <2> QED BY <2>1, <2>3, <2>4, SaveOutcome
<1>6. CASE RecoverSave
  <2>1. /\ pc = "recoverSave" /\ pc' = "recoverPublish"
        /\ UNCHANGED <<overall, published, panics>>
        /\ SaveState(FailedRecord("SYSTEM_ERROR"))
    BY <1>6 DEF RecoverSave
  <2>c. Cut' = Cut
    BY <2>1 DEF Cut
  <2>s. FailedRecord("SYSTEM_ERROR").status = "FAILED"
        /\ FailedRecord("SYSTEM_ERROR").verdict = "SYSTEM_ERROR"
    BY DEF FailedRecord
  <2>2. CASE Cut
    <3>1. Announced(published) = {} /\ stored.status \notin Terminal
      BY <1>t, <2>1, <2>2 DEF ContractInv, OpenWhileAhead, Decided
    <3>2. CASE stored' = FailedRecord("SYSTEM_ERROR")
      <4>1. stored'.status = "FAILED" /\ stored'.verdict = "SYSTEM_ERROR"
        BY <2>s, <3>2
      <4>2. ContractInv'
        BY <1>a, <2>1, <2>2, <2>c, <3>1, <4>1 DEF ContractInv, Decided, Final, Terminal
      <4> QED BY <1>b, <2>1, <3>1, <4>1, <4>2, MapsToWrite DEF FailureVerdict
    <3>3. CASE stored' = stored /\ backend # "memory"
      <4>1. ContractInv'
        BY <1>a, <1>b, <2>1, <2>2, <2>c, <3>1, <3>3 DEF ContractInv, Decided, Final
      <4> QED BY <1>b, <2>1, <3>3, <4>1, MapsToStutter
    <3> QED BY <2>1, <3>2, <3>3, SaveOutcome
  <2>3. CASE ~Cut
    <3>1. /\ backend = "memory" => Announced(published) # {}
          /\ "cleanup" \in panics
      BY <1>t, <2>1, <2>3 DEF ContractInv, Decided, EndInv, Cut, TypeOK
    <3>2. CASE stored' = FailedRecord("SYSTEM_ERROR")
      <4>1. stored'.status = "FAILED" /\ stored'.verdict = "SYSTEM_ERROR"
        BY <2>s, <3>2
      <4>2. ContractInv'
        BY <1>a, <1>b, <2>1, <2>3, <2>c, <3>1, <4>1 DEF ContractInv, Decided
      <4>3. Contract!Overturn
        BY <1>b, <2>1, <3>1, <4>1 DEF Contract!Overturn, Announced
      <4> QED BY <4>2, <4>3 DEF Contract!Next
    <3>3. CASE stored' = stored /\ backend # "memory"
      <4>1. ContractInv'
        BY <1>a, <1>b, <2>1, <2>3, <2>c, <3>3 DEF ContractInv, Decided
      <4> QED BY <1>b, <2>1, <3>3, <4>1, MapsToStutter
    <3> QED BY <2>1, <3>2, <3>3, SaveOutcome
  <2> QED BY <2>2, <2>3
<1>7. CASE \/ PublishCompleted \/ FailPublish
           \/ RecoverPublish /\ Cut
  <2>1. /\ stored' = stored /\ overall' = overall /\ panics' = panics
        /\ \/ pc \in {"publishCompleted", "failPublish"} /\ pc' = "cleanup"
           \/ pc = "recoverPublish" /\ pc' = "done" /\ Cut
    BY <1>7 DEF PublishCompleted, FailPublish, RecoverPublish
  <2>2. Announced(published) = {}
    BY <2>1 DEF ContractInv, Decided
  <2>3. PICK status \in Terminal, test \in Nat, verdict \in Verdict :
           /\ Publish(status, test, verdict)
           /\ Final(status, verdict)
    <3>1. Total \in Nat /\ overall \in Verdict
      BY <1>t DEF TypeOK, Total
    <3>2. CASE PublishCompleted
      <4>1. Publish("COMPLETED", Total, overall) /\ Final("COMPLETED", overall)
        BY <3>2 DEF PublishCompleted, ContractInv
      <4> QED BY <3>1, <4>1 DEF Terminal
    <3>3. CASE FailPublish
      <4>1. Publish("FAILED", 0, overall) /\ Final("FAILED", overall)
        BY <3>3 DEF FailPublish, ContractInv
      <4> QED BY <3>1, <4>1 DEF Terminal
    <3>4. CASE RecoverPublish /\ Cut
      <4>1. Publish("FAILED", 0, "SYSTEM_ERROR") /\ Final("FAILED", "SYSTEM_ERROR")
        BY <3>4 DEF RecoverPublish, ContractInv
      <4> QED BY <4>1 DEF Terminal, Verdict
    <3> QED BY <1>7, <3>2, <3>3, <3>4
  <2>4. \/ published' = published /\ backend # "memory"
        \/ Announced(published') = {<<status, verdict>>}
    BY <1>t, <2>2, <2>3, PublishFinal
  <2>5. pc' = "done" \/ (pc' = "cleanup" /\ ~Cut')
    BY <2>1 DEF EndInv, Cut
  <2>6. ContractInv'
    BY <1>a, <1>b, <2>4, <2>5 DEF ContractInv, Decided
  <2>7. CASE published' = published
    BY <1>b, <2>1, <2>6, <2>7, MapsToStutter
  <2>8. CASE Announced(published') = {<<status, verdict>>}
    BY <1>b, <2>1, <2>2, <2>3, <2>6, <2>8, MapsToAnnounce
  <2> QED BY <2>4, <2>7, <2>8
<1>10. CASE RecoverPublish /\ ~Cut
  <2>1. /\ stored' = stored /\ panics' = panics
        /\ pc = "recoverPublish" /\ pc' = "done"
        /\ Publish("FAILED", 0, "SYSTEM_ERROR")
    BY <1>10 DEF RecoverPublish
  <2>2. /\ backend = "memory" => stored.status = "FAILED" /\ stored.verdict = "SYSTEM_ERROR"
        /\ "cleanup" \in panics
    BY <1>t, <1>10, <2>1 DEF ContractInv, EndInv, Cut, TypeOK
  <2>3. ContractInv'
    BY <2>1 DEF ContractInv, Decided
  <2> DEFINE e == [status |-> "FAILED", test |-> 0, verdict |-> "SYSTEM_ERROR"]
  <2>4. e \in Event /\ e.status = "FAILED" /\ e.verdict = "SYSTEM_ERROR"
    BY DEF Event, EventStatus, Verdict
  <2>5. published' = published \/ published' = Append(published, e)
    BY <2>1, PublishEffect, Zenon
  <2> HIDE DEF e
  <2>6. CASE published' = published
    BY <1>b, <2>1, <2>3, <2>6, MapsToStutter
  <2>7. CASE published' = Append(published, e)
    <3>1. published \in Seq(Event)
      BY <1>t DEF TypeOK
    <3>2. Announced(published') = Announced(published) \cup {<<"FAILED", "SYSTEM_ERROR">>}
      BY <2>4, <2>7, <3>1, AnnouncedAppend DEF Terminal
    <3>3. Contract!AnnounceAgain
      BY <1>b, <2>1, <2>2, <3>2 DEF Contract!AnnounceAgain, Announced
    <3> QED BY <2>3, <3>3 DEF Contract!Next
  <2> QED BY <2>5, <2>6, <2>7
<1>8. CASE RecordCompleted \/ Cleanup \/ Panic
  <2>1. /\ UNCHANGED <<stored, published, overall>>
        /\ \/ pc = "recordMetrics" /\ pc' = "publishCompleted" /\ panics' = panics
           \/ /\ pc = "cleanup" /\ pc' \in {"done", "recoverSave"} /\ panics' = panics
           \/ /\ pc \in EvaluationPcs /\ pc' = "cleanup" /\ panics' = {"call"}
    BY <1>8 DEF RecordCompleted, Cleanup, Panic, SandboxCalls
  <2>a. Announced(published') = Announced(published)
    BY <2>1
  <2>b. panics' = panics \/ ("cleanup" \notin panics /\ "cleanup" \notin panics')
    BY <2>1 DEF EndInv
  <2>2. ContractInv'
    <3>1. CASE pc = "recordMetrics" /\ pc' = "publishCompleted"
      <4>1. Final("COMPLETED", overall) /\ Announced(published) = {}
        BY <3>1 DEF ContractInv, Decided
      <4>2. Final("COMPLETED", overall)'
        BY <1>b, <2>1, <4>1 DEF Final
      <4> QED BY <1>a, <2>1, <2>a, <3>1, <4>1, <4>2 DEF ContractInv, Decided
    <3>2. CASE pc = "cleanup" /\ pc' \in {"done", "recoverSave"} /\ panics' = panics
      BY <1>a, <1>b, <2>a, <3>2 DEF ContractInv, Decided, Cut
    <3>4. CASE pc \in EvaluationPcs /\ pc' = "cleanup" /\ panics' = {"call"}
      BY <1>a, <2>a, <3>4 DEF ContractInv, Decided, Cut
    <3> QED BY <2>1, <3>1, <3>2, <3>4
  <2> QED BY <1>b, <2>1, <2>2, <2>b, MapsToStutter
<1>11. CASE CleanupPanics
  <2>1. /\ UNCHANGED <<stored, published, overall>>
        /\ pc = "cleanup" /\ pc' = "recoverSave"
        /\ panics' = panics \cup {"cleanup"}
    BY <1>11 DEF CleanupPanics
  <2>2. ContractInv'
    BY <1>a, <1>b, <2>1 DEF ContractInv, Decided, Cut
  <2>3. Contract!Break
    BY <1>b, <2>1 DEF Contract!Break, Announced
  <2> QED BY <2>2, <2>3 DEF Contract!Next
<1>9. CASE Cancel \/ UNCHANGED vars
  <2>1. UNCHANGED <<stored, published, overall, pc, panics>>
    BY <1>9 DEF Cancel, vars
  <2>a. Announced(published)' = Announced(published)
    BY <1>a, <2>1
  <2>b. /\ Final("COMPLETED", overall) => Final("COMPLETED", overall)'
        /\ Final("FAILED", overall) => Final("FAILED", overall)'
        /\ Final("FAILED", "SYSTEM_ERROR") => Final("FAILED", "SYSTEM_ERROR")'
    BY <1>b, <2>1 DEF Final
  <2>c. Decided' = Decided /\ Cut' = Cut
    BY <2>1 DEF Decided, Cut
  <2>2. ContractInv'
    BY <1>b, <2>1, <2>a, <2>b, <2>c DEF ContractInv
  <2> QED BY <1>b, <2>1, <2>2, MapsToStutter
<1> QED
  BY <1>1, <1>2, <1>3, <1>4, <1>5, <1>6, <1>7, <1>8, <1>9, <1>10, <1>11
     DEF Next, Step, Done

\* ProcessJob keeps the contract of module Job on both backends, for any number
\* of test cases: the stored record only moves QUEUED, RUNNING, final; the final
\* event comes last, once, and repeats the final record if there is one; on the
\* in-memory backend there is one, on the panic path too; and only a panic in
\* Cleanup overturns a decision, to FAILED with SYSTEM_ERROR.
THEOREM ContractKept == Spec => Contract!Safety
<1>1. Init => EndInv /\ ContractInv /\ Contract!Init
  <2> SUFFICES ASSUME Init PROVE EndInv /\ ContractInv /\ Contract!Init
    OBVIOUS
  <2>1. published = <<>> /\ Announced(published) = {}
    BY DEF Init, Announced
  <2>2. EndInv
    BY DEF Init, EndInv, Cut, EvaluationPcs, EarlyPcs
  <2>3. ContractInv
    BY <2>1 DEF Init, ContractInv, Decided, EarlyPcs, EvaluationPcs, Verdict
  <2>4. Contract!Init
    BY <2>1 DEF Init, Contract!Init, Announced
  <2> QED BY <2>2, <2>3, <2>4
<1>2. ReportInv /\ EndInv /\ [Next]_vars => EndInv'
  BY NextEndInv DEF ReportInv
<1>3. ReportInv /\ EndInv /\ ContractInv /\ [Next]_vars
         => ContractInv' /\ [Contract!Next]_(Contract!jobVars)
  BY NextContract
<1> QED
  BY <1>1, <1>2, <1>3, InitReportInv, NextReportInv, PTL DEF Spec, Contract!Safety
=============================================================================

----------------------------- MODULE Vocabulary -----------------------------
(***************************************************************************)
(* The words the components share: the verdicts of pkg/models/verdicts.go  *)
(* and the statuses of pkg/events/events.go.  An event carries any status; *)
(* the state store only ever holds the four statuses of StoredStatus.      *)
(***************************************************************************)

Verdict ==
    {"ACCEPTED", "WRONG_ANSWER", "TIME_LIMIT_EXCEEDED",
     "MEMORY_LIMIT_EXCEEDED", "COMPILATION_ERROR", "RUNTIME_ERROR",
     "OUTPUT_LIMIT_EXCEEDED", "SYSTEM_ERROR"}

EventStatus ==
    {"QUEUED", "COMPILING", "RUNNING", "TESTCASE_START", "TESTCASE_PASSED",
     "TESTCASE_FAILED", "COMPLETED", "FAILED"}

\* The statuses after which nobody writes or announces a submission again:
\* the WebSocket gateway closes the stream on these two.
Terminal == {"COMPLETED", "FAILED"}

\* The statuses SaveState is called with: QUEUED by the API server, the other
\* three by the worker.
StoredStatus == {"QUEUED", "RUNNING"} \cup Terminal

\* The verdicts failSubmission and the panic handler report.
FailureVerdict == {"SYSTEM_ERROR", "COMPILATION_ERROR"}
=============================================================================

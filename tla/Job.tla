-------------------------------- MODULE Job ---------------------------------
(***************************************************************************)
(* What the worker promises about one submission, seen from the state      *)
(* store and the event bus: the stored record moves QUEUED -> RUNNING ->   *)
(* final, the final record is written once and never touched again, and    *)
(* the final event repeats it, after it has been stored and only once.     *)
(* On a store and a bus that may lose writes, RUNNING may be missing, the  *)
(* final event may announce a record that was not stored, and no more than *)
(* that: it never contradicts a final record and nothing is written after  *)
(* it.  A clean-up that breaks once the submission is decided overturns    *)
(* the decision: the record becomes FAILED with SYSTEM_ERROR and a second  *)
(* final event says so.                                                    *)
(***************************************************************************)
EXTENDS Vocabulary

VARIABLES
    reliable,    \* the store and the bus lose nothing
    status,      \* status of the stored record
    verdict,     \* verdict of the stored record
    announced,   \* the <<status, verdict>> of every final event
    broken       \* the clean-up after the evaluation broke

jobVars == <<reliable, status, verdict, announced, broken>>

Init ==
    /\ reliable \in BOOLEAN
    /\ status = "QUEUED"
    /\ verdict = "ACCEPTED"    \* the API server's initial record says so
    /\ announced = {}
    /\ broken = FALSE

Begin ==
    /\ status = "QUEUED"
    /\ announced = {}
    /\ status' = "RUNNING"
    /\ UNCHANGED <<reliable, verdict, announced, broken>>

\* All test cases were run; the first failing one decides the verdict.
Complete ==
    /\ status = "RUNNING" \/ (~reliable /\ status = "QUEUED")
    /\ announced = {}
    /\ status' = "COMPLETED"
    /\ verdict' \in Verdict \ {"COMPILATION_ERROR"}
    /\ UNCHANGED <<reliable, announced, broken>>

\* A failure before the first test case, or a panic anywhere.
Fail ==
    /\ status \notin Terminal
    /\ announced = {}
    /\ status' = "FAILED"
    /\ verdict' \in FailureVerdict
    /\ verdict' = "COMPILATION_ERROR" => status = "QUEUED"
    /\ UNCHANGED <<reliable, announced, broken>>

Announce ==
    /\ announced = {}
    /\ \/ /\ status \in Terminal
          /\ announced' = {<<status, verdict>>}
       \/ /\ ~reliable
          /\ status \notin Terminal
          /\ \E final \in Terminal, v \in Verdict : announced' = {<<final, v>>}
    /\ UNCHANGED <<reliable, status, verdict, broken>>

\* The clean-up breaks, and the decision is overturned: stored first, then
\* announced, unless the store or the bus loses it.
Break ==
    /\ broken' = TRUE
    /\ UNCHANGED <<reliable, status, verdict, announced>>

Overturn ==
    /\ broken
    /\ reliable => announced # {}
    /\ status' = "FAILED"
    /\ verdict' = "SYSTEM_ERROR"
    /\ UNCHANGED <<reliable, announced, broken>>

AnnounceAgain ==
    /\ broken
    /\ reliable => status = "FAILED" /\ verdict = "SYSTEM_ERROR"
    /\ announced' = announced \cup {<<"FAILED", "SYSTEM_ERROR">>}
    /\ UNCHANGED <<reliable, status, verdict, broken>>

Decide == Begin \/ Complete \/ Fail \/ Announce

Next == Decide \/ Break \/ Overturn \/ AnnounceAgain

\* What may be stored and announced, and in which order.
Safety == Init /\ [][Next]_jobVars

\* Where nothing is lost, the submission is also decided and announced.
Liveness == WF_jobVars(reliable /\ Decide)

Spec == Safety /\ Liveness
=============================================================================

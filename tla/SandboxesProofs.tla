-------------------------- MODULE SandboxesProofs ---------------------------
(***************************************************************************)
(* Proofs about Sandboxes, for any time and memory limit, any exit codes,  *)
(* any number of test cases and any behaviour of the programs.             *)
(***************************************************************************)
EXTENDS Sandboxes, SequenceTheorems, TLAPS

Judgement == [run : Behaviours, verdict : [Backends -> Verdict]]

-----------------------------------------------------------------------------
(* The cascades, one observation at a time.                                *)

\* What the orders of questions come down to: each backend accepts a clean run
\* within memory that the context did not disturb, and nothing unclean.
LEMMA CascadeFacts ==
    ASSUME NEW b \in Backends, NEW o \in Observation
    PROVE  /\ VerdictOf(b, o) \in Verdict
           /\ VerdictOf(b, o) = "ACCEPTED" =>
                  Clean(o) /\ (b # "dev_process" => ~o.oom)
           /\ Clean(o) /\ Undisturbed(o) /\ ~o.oom /\ Observable(o) =>
                  VerdictOf(b, o) = "ACCEPTED"
<1> USE TimeLimitAssumption, ExitCodesAssumption
    DEF Observation, Verdict, Clean, Undisturbed, WrongOutput
<1>1. CASE b = "native_cgroupv2"
  <2>1. VerdictOf(b, o) = NativeVerdict(o)
    BY <1>1 DEF VerdictOf
  <2> QED  BY <1>1, <2>1 DEF NativeVerdict
<1>2. CASE b = "docker"
  <2>1. VerdictOf(b, o) = DockerVerdict(o)
    BY <1>2 DEF VerdictOf
  <2> QED  BY <1>2, <2>1 DEF DockerVerdict, DockerTimedOut
<1>3. CASE b = "dev_process"
  <2>1. VerdictOf(b, o) = DevVerdict(o)
    BY <1>3 DEF VerdictOf
  <2> QED  BY <1>3, <2>1 DEF DevVerdict
<1> QED  BY <1>1, <1>2, <1>3 DEF Backends

Usage == [peak : 0 .. MemoryLimit, cpu : Nat, oom : BOOLEAN]

\* What a backend sees of a run is an observation that differs in the
\* out-of-memory flag only, which the native one takes from the cgroup.
LEMMA SeenFacts ==
    ASSUME NEW b \in Backends, NEW r \in Behaviours, NEW usage \in Usage
    PROVE  /\ Seen(b, usage, r) \in Observation
           /\ Clean(Seen(b, usage, r)) <=> Clean(r.obs)
           /\ Undisturbed(Seen(b, usage, r)) <=> Undisturbed(r.obs)
           /\ Observable(Seen(b, usage, r))
           /\ b = "native_cgroupv2" =>
                  (Seen(b, usage, r).oom <=> "memory.events" \notin r.unread /\ usage.oom)
           /\ b = "docker" =>
                  (Seen(b, usage, r).oom <=> "docker inspect" \notin r.unread /\ r.obs.oom)
           /\ b = "dev_process" => Seen(b, usage, r) = r.obs
           /\ Seen(b, usage, r).oom = r.obs.oom => Seen(b, usage, r) = r.obs
<1>1. r \in Run /\ r.obs \in Observation /\ Observable(r.obs)
  BY BehavioursAssumption DEF Run
<1>2. OutOfMemory(Reading(usage, r)) <=> "memory.events" \notin r.unread /\ usage.oom
  <2>1. /\ Reading(usage, r).peak = IF "memory.peak" \in r.unread THEN 0 ELSE usage.peak
        /\ Reading(usage, r).oom = ("memory.events" \notin r.unread /\ usage.oom)
    BY DEF Reading
  <2>2. ~(Reading(usage, r).peak > MemoryLimit)
    BY <2>1, MemoryLimitAssumption DEF Usage
  <2> QED  BY <2>1, <2>2 DEF OutOfMemory
<1>3. OutOfMemory(Reading(usage, r)) \in BOOLEAN
  BY DEF OutOfMemory, Reading
<1>4. \A f \in BOOLEAN : LET o == [r.obs EXCEPT !.oom = f] IN
          /\ o \in Observation /\ o.oom = f
          /\ Clean(o) <=> Clean(r.obs)
          /\ Undisturbed(o) <=> Undisturbed(r.obs)
          /\ Observable(o)
          /\ f = r.obs.oom => o = r.obs
  BY <1>1 DEF Observation, Clean, Undisturbed, Observable
<1>5. CASE b = "native_cgroupv2"
  <2>1. Seen(b, usage, r) = [r.obs EXCEPT !.oom = OutOfMemory(Reading(usage, r))]
    BY <1>5 DEF Seen
  <2> QED  BY <1>2, <1>3, <1>4, <1>5, <2>1
<1>6. CASE b = "docker"
  <2>1. r.obs.oom \in BOOLEAN
    BY <1>1 DEF Observation
  <2>2. Seen(b, usage, r)
            = [r.obs EXCEPT !.oom = r.obs.oom /\ "docker inspect" \notin r.unread]
    BY <1>1, <1>6 DEF Seen, Observation
  <2> QED  BY <1>4, <1>6, <2>1, <2>2
<1>7. CASE b = "dev_process"
  <2>1. Seen(b, usage, r) = r.obs
    BY <1>7 DEF Seen
  <2> QED  BY <1>1, <1>7, <2>1
<1> QED  BY <1>5, <1>6, <1>7 DEF Backends

\* What a verdict says of the run, when the cgroup's flag covers a run that was
\* started in it.
LEMMA JudgeFacts ==
    ASSUME NEW b \in Backends, NEW r \in Behaviours, NEW usage \in Usage,
           ~r.error /\ r.obs.oom => usage.oom
    PROVE  /\ Judge(b, usage, r) \in Verdict
           /\ Judge(b, usage, r) = "ACCEPTED" =>
                  Clean(r.obs) /\ (Told(b, r) => ~r.obs.oom)
           /\ ~r.error /\ Clean(r.obs) /\ Undisturbed(r.obs) /\ ~r.obs.oom /\ ~usage.oom =>
                  Judge(b, usage, r) = "ACCEPTED"
<1> DEFINE o == Seen(b, usage, r)
<1>1. /\ o \in Observation /\ Observable(o)
      /\ Clean(o) <=> Clean(r.obs)
      /\ Undisturbed(o) <=> Undisturbed(r.obs)
      /\ b = "native_cgroupv2" => (o.oom <=> "memory.events" \notin r.unread /\ usage.oom)
      /\ b = "docker" => (o.oom <=> "docker inspect" \notin r.unread /\ r.obs.oom)
      /\ b = "dev_process" => o = r.obs
  BY SeenFacts
<1>2. Judge(b, usage, r)
          = IF b = "native_cgroupv2" /\ r.error THEN "SYSTEM_ERROR" ELSE VerdictOf(b, o)
  BY DEF Judge
<1> HIDE DEF o
<1>3. /\ VerdictOf(b, o) \in Verdict
      /\ VerdictOf(b, o) = "ACCEPTED" => Clean(o) /\ (b # "dev_process" => ~o.oom)
      /\ Clean(o) /\ Undisturbed(o) /\ ~o.oom /\ Observable(o) => VerdictOf(b, o) = "ACCEPTED"
  BY <1>1, CascadeFacts
<1>4. "SYSTEM_ERROR" \in Verdict /\ "SYSTEM_ERROR" # "ACCEPTED"
  BY DEF Verdict
<1>5. CASE b = "native_cgroupv2"
  <2>1. Told(b, r) <=> "memory.events" \notin r.unread
    BY <1>5 DEF Told
  <2> QED  BY <1>1, <1>2, <1>3, <1>4, <1>5, <2>1
<1>6. CASE b = "docker"
  <2>1. Told(b, r) <=> "docker inspect" \notin r.unread
    BY <1>6 DEF Told
  <2> QED  BY <1>1, <1>2, <1>3, <1>6, <2>1
<1>7. CASE b = "dev_process"
  <2>1. ~Told(b, r)
    BY <1>7 DEF Told
  <2> QED  BY <1>1, <1>2, <1>3, <1>7, <2>1
<1> QED  BY <1>5, <1>6, <1>7 DEF Backends

\* The native backend judges a run by what it did when the flag of the cgroup is
\* the run's own and it was told of it.
LEMMA NativeJudge ==
    ASSUME NEW r \in Behaviours, NEW usage \in Usage, ~r.error,
           usage.oom <=> r.obs.oom, r.obs.oom => Told("native_cgroupv2", r)
    PROVE  Judge("native_cgroupv2", usage, r) = NativeVerdict(r.obs)
<1>1. "native_cgroupv2" \in Backends
  BY DEF Backends
<1>2. r.obs.oom \in BOOLEAN
  BY BehavioursAssumption DEF Run, Observation
<1>3. Told("native_cgroupv2", r) <=> "memory.events" \notin r.unread
  BY DEF Told
<1>4. /\ Seen("native_cgroupv2", usage, r) \in Observation
      /\ Seen("native_cgroupv2", usage, r).oom <=> r.obs.oom
      /\ Seen("native_cgroupv2", usage, r).oom = r.obs.oom =>
             Seen("native_cgroupv2", usage, r) = r.obs
  BY <1>1, <1>3, SeenFacts
<1>5. Seen("native_cgroupv2", usage, r).oom \in BOOLEAN
  BY <1>4 DEF Observation
<1>6. Seen("native_cgroupv2", usage, r) = r.obs
  BY <1>2, <1>4, <1>5
<1> QED  BY <1>6 DEF Judge, VerdictOf

-----------------------------------------------------------------------------
(* The inductive invariant.                                                *)

\* The cgroup's flag was raised by one of the tests it has seen.
OomTraced == cgroup.oom => \E j \in Judged : Obs(j).oom

\* While the cgroup exists its peak is the highest of the tests that ran in it,
\* and ProcessJob's maximum is not above it.
PeakShared ==
    /\ phase = "new" => totals.peak = 0 /\ tests = <<>>
    /\ phase = "ready" =>
          /\ totals.peak <= cgroup.peak
          /\ \A j \in Judged : Ran(j) => tests[j].run.peak <= cgroup.peak
          /\ \/ cgroup.peak = 0
             \/ \E i \in Judged : Ran(i) /\ tests[i].run.peak = cgroup.peak

\* Up to and including the first test that runs out of memory, the native
\* backend judges every test as if it had a cgroup of its own.
NativeExact ==
    \A i \in Judged :
        /\ \A j \in 1 .. i - 1 : ~Obs(j).oom
        /\ Obs(i).oom => Told("native_cgroupv2", tests[i].run)
        => tests[i].verdict["native_cgroupv2"] = OwnVerdict(i)

Inv == TypeOK /\ OomTraced /\ PeakShared /\ PeakExact /\ AcceptedIsClean
           /\ CleanIsAccepted /\ NativeExact

\* A step that leaves the tests alone leaves what is said of them alone.
LEMMA SameTests ==
    ASSUME Inv, UNCHANGED tests, totals'.peak = totals.peak
    PROVE  PeakExact' /\ AcceptedIsClean' /\ CleanIsAccepted' /\ NativeExact'
<1>1. PeakExact'
  BY DEF Inv, PeakExact, PeakRead, Ran, Judged
<1>2. AcceptedIsClean' /\ CleanIsAccepted' /\ NativeExact'
  BY DEF Inv, AcceptedIsClean, CleanIsAccepted, NativeExact, OwnVerdict, Ran, Judged, Obs
<1> QED  BY <1>1, <1>2

\* The kernel's counters after one more process.
LEMMA CountersAfter ==
    ASSUME Inv, NEW r \in Behaviours, Execute(r)
    PROVE  /\ cgroup' \in Usage /\ r.peak \in 0 .. MemoryLimit
           /\ r.error => cgroup' = cgroup /\ totals' = totals
           /\ ~r.error => /\ cgroup'.oom <=> cgroup.oom \/ r.obs.oom
                          /\ cgroup'.peak = Larger(cgroup.peak, r.peak)
           /\ totals' \in [peak : 0 .. MemoryLimit, cpu : Nat]
           /\ totals'.peak \in {totals.peak, cgroup'.peak}
           /\ ~r.error /\ "memory.peak" \notin r.unread => totals'.peak = cgroup'.peak
           /\ totals'.peak # totals.peak => ~r.error /\ "memory.peak" \notin r.unread
           /\ totals.peak <= totals'.peak /\ totals'.peak <= cgroup'.peak
           /\ cgroup.peak <= cgroup'.peak
<1>1. /\ cgroup \in Usage
      /\ totals \in [peak : 0 .. MemoryLimit, cpu : Nat]
      /\ totals.peak <= cgroup.peak
  BY DEF Inv, TypeOK, PeakShared, Execute, Usage
<1>2. r.peak \in 0 .. MemoryLimit /\ r.cpu \in Nat /\ r.obs.oom \in BOOLEAN
  BY BehavioursAssumption, MemoryLimitAssumption DEF Run, Observation
<1>3. CASE r.error
  <2>1. cgroup' = cgroup /\ totals' = totals
    BY <1>3 DEF Execute
  <2> QED  BY <1>1, <1>2, <1>3, <2>1, MemoryLimitAssumption DEF Usage
<1>4. CASE ~r.error
  <2>1. cgroup' = [peak |-> Larger(cgroup.peak, r.peak), cpu |-> cgroup.cpu + r.cpu,
                   oom |-> cgroup.oom \/ r.obs.oom]
    BY <1>4 DEF Execute, Account
  <2>2. Larger(cgroup.peak, r.peak) \in 0 .. MemoryLimit /\ cgroup.cpu + r.cpu \in Nat
        /\ cgroup.peak <= Larger(cgroup.peak, r.peak)
    BY <1>1, <1>2, MemoryLimitAssumption DEF Larger, Usage
  <2>3. cgroup' \in Usage /\ cgroup.peak <= cgroup'.peak
    BY <1>1, <1>2, <2>1, <2>2 DEF Usage
  <2> DEFINE p == IF "memory.peak" \in r.unread THEN 0 ELSE cgroup'.peak
             c == IF "cpu.stat" \in r.unread THEN r.cpu ELSE cgroup'.cpu
  <2>4. totals' = [peak |-> Larger(totals.peak, p), cpu |-> totals.cpu + c]
    BY <1>4 DEF Execute, AddUp, Reading
  <2>5. p \in 0 .. MemoryLimit /\ c \in Nat
    BY <1>2, <2>3, MemoryLimitAssumption DEF Usage
  <2>6. /\ Larger(totals.peak, p) \in {totals.peak, cgroup'.peak}
        /\ "memory.peak" \notin r.unread => Larger(totals.peak, p) = cgroup'.peak
        /\ "memory.peak" \in r.unread => Larger(totals.peak, p) = totals.peak
        /\ totals.peak <= Larger(totals.peak, p) /\ Larger(totals.peak, p) <= cgroup'.peak
        /\ Larger(totals.peak, p) \in 0 .. MemoryLimit
    BY <1>1, <2>3, <2>5, MemoryLimitAssumption DEF Larger, Usage
  <2>7. totals' \in [peak : 0 .. MemoryLimit, cpu : Nat] /\ totals'.peak = Larger(totals.peak, p)
    BY <1>1, <2>4, <2>5, <2>6
  <2> QED  BY <1>2, <1>4, <2>1, <2>3, <2>6, <2>7
<1> QED  BY <1>3, <1>4

\* One more test: the earlier ones stay, the last one is the new one.
LEMMA OneMoreTest ==
    ASSUME Inv, NEW r \in Behaviours, Execute(r)
    PROVE  \E n \in Nat \ {0} :
           /\ Judged = 1 .. n - 1
           /\ Judged' = 1 .. n
           /\ Len(tests') = n
           /\ tests'[n].run = r
           /\ \A b \in Backends : tests'[n].verdict[b] = Judge(b, cgroup', r)
           /\ \A i \in 1 .. n - 1 : tests'[i] = tests[i]
           /\ tests' \in Seq(Judgement)
<1> DEFINE v == [b \in Backends |-> Judge(b, cgroup', r)]
<1> DEFINE new == [run |-> r, verdict |-> v]
<1>1. tests \in Seq(Judgement) /\ cgroup' \in Usage
  BY CountersAfter DEF Inv, TypeOK, Judgement
<1>2. ~r.error /\ r.obs.oom => cgroup'.oom
  BY CountersAfter
<1>3. tests' = Append(tests, new)
  BY DEF Execute
<1>5. v \in [Backends -> Verdict]
  BY <1>1, <1>2, JudgeFacts
<1>6. new \in Judgement
  BY <1>5 DEF Judgement
<1>7. /\ tests' \in Seq(Judgement)
      /\ Len(tests') = Len(tests) + 1
      /\ tests'[Len(tests) + 1] = new
      /\ \A i \in 1 .. Len(tests) : tests'[i] = tests[i]
  <2> HIDE DEF new, v, Judgement
  <2> QED  BY <1>1, <1>3, <1>6, AppendProperties
<1>8. Len(tests) \in Nat
  BY <1>1
<1> QED
  <2> WITNESS Len(tests) + 1 \in Nat \ {0}
  <2> QED  BY <1>7, <1>8 DEF Judged

-----------------------------------------------------------------------------
(* Preservation.                                                           *)

\* Before Prepare there is nothing to be wrong.
LEMMA InitInv == Init => Inv
BY MemoryLimitAssumption
   DEF Init, Inv, TypeOK, OomTraced, PeakShared, PeakExact, AcceptedIsClean,
       CleanIsAccepted, NativeExact, NoUsage, Judged, Ran, PeakRead

\* One more test case keeps the invariant, one conjunct at a time.
LEMMA ExecuteInv ==
    ASSUME Inv, NEW r \in Behaviours, Execute(r)
    PROVE  Inv'
<1>1. PICK n \in Nat \ {0} :
      /\ Judged = 1 .. n - 1 /\ Judged' = 1 .. n /\ Len(tests') = n
      /\ tests'[n].run = r
      /\ \A b \in Backends : tests'[n].verdict[b] = Judge(b, cgroup', r)
      /\ \A i \in 1 .. n - 1 : tests'[i] = tests[i]
      /\ tests' \in Seq(Judgement)
  BY OneMoreTest
<1>2. /\ Obs(n)' = r.obs /\ (Ran(n)' <=> ~r.error)
      /\ \A i \in Judged : Obs(i)' = Obs(i) /\ (Ran(i)' <=> Ran(i))
                            /\ tests'[i] = tests[i] /\ (PeakRead(i)' <=> PeakRead(i))
      /\ PeakRead(n)' <=> ~r.error /\ "memory.peak" \notin r.unread
  BY <1>1 DEF Obs, Ran, PeakRead
<1>3. r.obs \in Observation /\ Observable(r.obs) /\ r.obs.oom \in BOOLEAN
  BY BehavioursAssumption DEF Run, Observation
<1>4. /\ cgroup' \in Usage /\ (~r.error /\ r.obs.oom => cgroup'.oom)
      /\ cgroup'.oom => cgroup.oom \/ (~r.error /\ r.obs.oom)
  BY CountersAfter
<1>5. /\ n \in Judged' /\ \A i \in Judged' : i \in Judged \/ i = n
      /\ Judged \subseteq Judged' /\ \A i \in Judged : 1 .. i \subseteq Judged
      /\ 1 .. n - 1 = Judged
  BY <1>1
<1>6. TypeOK'
  BY <1>1, CountersAfter DEF Inv, TypeOK, Judgement, Execute, Usage
<1>7. OomTraced'
  <2>1. CASE r.obs.oom
    BY <2>1, <1>2, <1>5 DEF OomTraced
  <2>2. CASE ~r.obs.oom
    BY <2>2, <1>2, <1>4, <1>5 DEF OomTraced, Inv
  <2> QED  BY <2>1, <2>2
<1> DEFINE peak(i) == tests[i].run.peak
<1>8. /\ \A i \in Judged : peak(i) \in Nat /\ tests'[i].run.peak = peak(i)
      /\ tests'[n].run.peak = r.peak /\ r.peak \in Nat
      /\ totals.peak \in Nat /\ totals'.peak \in Nat /\ cgroup.peak \in Nat /\ cgroup'.peak \in Nat
  <2>1. ASSUME NEW i \in Judged PROVE peak(i) \in Nat
    <3>1. tests \in Seq(Judgement)
      BY DEF Inv, TypeOK, Judgement
    <3>2. tests[i] \in Judgement
      BY <3>1, ElementOfSeq DEF Judged
    <3>3. tests[i].run \in Run
      BY <3>2, BehavioursAssumption DEF Judgement
    <3> QED  BY <3>3 DEF Run
  <2>2. r.peak \in Nat /\ totals.peak \in Nat /\ totals'.peak \in Nat /\ cgroup.peak \in Nat
        /\ cgroup'.peak \in Nat
    BY CountersAfter, MemoryLimitAssumption DEF Inv, TypeOK, Usage
  <2> QED  BY <1>1, <1>2, <2>1, <2>2
<1> HIDE DEF peak
<1>9. /\ \A j \in Judged : Ran(j) => peak(j) <= cgroup.peak
      /\ cgroup.peak = 0 \/ \E i \in Judged : Ran(i) /\ peak(i) = cgroup.peak
      /\ phase = "ready" /\ phase' = "ready"
  BY DEF Inv, PeakShared, Execute, peak
<1>10. /\ \A j \in Judged' : Ran(j)' => tests'[j].run.peak <= cgroup'.peak
       /\ cgroup'.peak = 0 \/ \E i \in Judged' : Ran(i)' /\ tests'[i].run.peak = cgroup'.peak
  <2>1. CASE r.error
    <3>1. cgroup' = cgroup
      BY <2>1, CountersAfter
    <3> QED  BY <1>2, <1>5, <1>8, <1>9, <2>1, <3>1
  <2>2. CASE ~r.error
    <3>1. cgroup'.peak = Larger(cgroup.peak, r.peak) /\ cgroup.peak <= cgroup'.peak
      BY <2>2, CountersAfter
    <3>2. r.peak <= cgroup'.peak /\ cgroup'.peak \in {cgroup.peak, r.peak}
      BY <1>8, <3>1 DEF Larger
    <3>3. ASSUME NEW j \in Judged', Ran(j)' PROVE tests'[j].run.peak <= cgroup'.peak
      BY <1>2, <1>5, <1>8, <1>9, <3>1, <3>2, <3>3
    <3>4. cgroup'.peak = 0 \/ \E i \in Judged' : Ran(i)' /\ tests'[i].run.peak = cgroup'.peak
      <4>1. CASE cgroup'.peak = r.peak
        BY <1>2, <1>5, <1>8, <2>2, <4>1
      <4>2. CASE cgroup'.peak = cgroup.peak
        BY <1>2, <1>5, <1>8, <1>9, <4>2
      <4> QED  BY <3>2, <4>1, <4>2
    <3> QED  BY <3>3, <3>4
  <2> QED  BY <2>1, <2>2
<1>11. PeakShared'
  BY <1>9, <1>10, CountersAfter DEF PeakShared
<1>12. PeakExact'
  <2>1. ASSUME NEW i \in Judged', PeakRead(i)', NEW j \in 1 .. i, Ran(j)'
        PROVE  tests'[j].run.peak <= totals'.peak
    <3>1. CASE i = n
      <4>1. totals'.peak = cgroup'.peak
        BY <1>2, <2>1, <3>1, CountersAfter
      <4>2. j \in Judged'
        BY <1>1, <2>1, <3>1
      <4> QED  BY <1>10, <2>1, <4>1, <4>2
    <3>2. CASE i \in Judged
      <4>1. j \in Judged
        BY <1>5, <2>1, <3>2
      <4>2. PeakRead(i) /\ Ran(j)
        BY <1>2, <2>1, <3>2, <4>1
      <4>3. peak(j) <= totals.peak
        BY <2>1, <3>2, <4>2 DEF Inv, PeakExact, peak
      <4>4. totals.peak <= totals'.peak
        BY CountersAfter
      <4> QED  BY <1>8, <4>1, <4>3, <4>4
    <3> QED  BY <1>5, <3>1, <3>2
  <2>2. totals'.peak = 0 \/ \E i \in Judged' : /\ Ran(i)' /\ tests'[i].run.peak = totals'.peak
                                              /\ \E k \in i .. Len(tests') : PeakRead(k)'
    <3>1. CASE totals'.peak = totals.peak
      <4>1. SUFFICES ASSUME totals.peak # 0
                     PROVE  \E i \in Judged' : /\ Ran(i)' /\ tests'[i].run.peak = totals'.peak
                                               /\ \E k \in i .. Len(tests') : PeakRead(k)'
        BY <3>1
      <4>2. PICK i \in Judged : /\ Ran(i) /\ peak(i) = totals.peak
                                /\ \E k \in i .. Len(tests) : PeakRead(k)
        BY <4>1 DEF Inv, PeakExact, peak
      <4>3. PICK k \in i .. Len(tests) : PeakRead(k)
        BY <4>2
      <4>4. k \in Judged /\ k \in i .. n
        <5>1. Len(tests) \in Nat /\ i \in 1 .. Len(tests)
          BY DEF Inv, TypeOK, Judged
        <5>2. Len(tests) = n - 1
          BY <1>1, <5>1 DEF Judged
        <5> QED  BY <5>1, <5>2 DEF Judged
      <4> QED  BY <1>1, <1>2, <1>5, <1>8, <3>1, <4>2, <4>3, <4>4
    <3>2. CASE totals'.peak # totals.peak
      <4>1. PeakRead(n)' /\ totals'.peak = cgroup'.peak
        BY <1>2, <3>2, CountersAfter
      <4>2. \A i \in Judged' : n \in i .. Len(tests')
        BY <1>1
      <4> QED  BY <1>10, <4>1, <4>2
    <3> QED  BY <3>1, <3>2
  <2> QED  BY <2>1, <2>2 DEF PeakExact
<1>13. AcceptedIsClean'
  <2> SUFFICES ASSUME NEW i \in Judged', NEW b \in Backends,
                      tests'[i].verdict[b] = "ACCEPTED"
               PROVE  Clean(Obs(i)') /\ (Told(b, tests'[i].run) => ~Obs(i)'.oom)
    BY DEF AcceptedIsClean, Told, Clean
  <2>1. CASE i \in Judged
    BY <2>1, <1>2 DEF Inv, AcceptedIsClean
  <2>2. CASE i = n
    <3>1. Judge(b, cgroup', r) = "ACCEPTED"
      BY <2>2, <1>1
    <3>2. Clean(r.obs) /\ (Told(b, r) => ~r.obs.oom)
      BY <3>1, <1>4, JudgeFacts
    <3> QED  BY <2>2, <1>1, <1>2, <3>2
  <2> QED  BY <2>1, <2>2, <1>5
<1>14. CleanIsAccepted'
  <2> SUFFICES ASSUME NEW i \in Judged', NEW b \in Backends,
                      Ran(i)', Clean(Obs(i)'), Undisturbed(Obs(i)'),
                      \A j \in 1 .. i : ~Obs(j)'.oom
               PROVE  tests'[i].verdict[b] = "ACCEPTED"
    BY DEF CleanIsAccepted, Clean, Undisturbed
  <2>1. CASE i \in Judged
    <3>1. \A j \in 1 .. i : j \in Judged
      BY <2>1, <1>5
    <3>2. Ran(i) /\ Clean(Obs(i)) /\ Undisturbed(Obs(i)) /\ \A j \in 1 .. i : ~Obs(j).oom
      BY <2>1, <3>1, <1>2
    <3> QED  BY <2>1, <3>2, <1>2 DEF Inv, CleanIsAccepted
  <2>2. CASE i = n
    <3>1. ~r.obs.oom /\ ~r.error /\ \A j \in Judged : ~Obs(j).oom
      BY <2>2, <1>1, <1>2
    <3>2. ~cgroup'.oom
      BY <3>1, <1>4 DEF Inv, OomTraced
    <3>3. Judge(b, cgroup', r) = "ACCEPTED"
      BY <2>2, <1>2, <1>4, <3>1, <3>2, JudgeFacts
    <3> QED  BY <2>2, <3>3, <1>1
  <2> QED  BY <2>1, <2>2, <1>5
<1>15. NativeExact'
  <2> DEFINE own(i) == IF Ran(i)' THEN NativeVerdict(Obs(i)') ELSE "SYSTEM_ERROR"
  <2> SUFFICES ASSUME NEW i \in Judged', \A j \in 1 .. i - 1 : ~Obs(j)'.oom,
                      Obs(i)'.oom => Told("native_cgroupv2", tests'[i].run)
               PROVE  tests'[i].verdict["native_cgroupv2"] = own(i)
    BY DEF NativeExact, OwnVerdict, NativeVerdict, WrongOutput, Told
  <2>1. CASE i \in Judged
    <3>1. \A j \in 1 .. i - 1 : j \in Judged
      BY <2>1, <1>1
    <3>2. /\ \A j \in 1 .. i - 1 : ~Obs(j).oom
          /\ Obs(i).oom => Told("native_cgroupv2", tests[i].run)
      BY <2>1, <3>1, <1>2
    <3>3. tests[i].verdict["native_cgroupv2"] = OwnVerdict(i)
      BY <2>1, <3>2 DEF Inv, NativeExact
    <3> QED  BY <2>1, <3>3, <1>2 DEF OwnVerdict
  <2>2. CASE i = n
    <3>1. \A j \in Judged : ~Obs(j).oom
      BY <2>2, <1>2, <1>5
    <3>2. cgroup.oom = FALSE
      BY <3>1 DEF Inv, OomTraced, TypeOK
    <3>3. "native_cgroupv2" \in Backends
      BY DEF Backends
    <3>4. tests'[n].verdict["native_cgroupv2"] = Judge("native_cgroupv2", cgroup', r)
      BY <1>1, <3>3
    <3>5. CASE r.error
      BY <1>2, <2>2, <3>4, <3>5 DEF Judge
    <3>6. CASE ~r.error
      <4>1. cgroup'.oom <=> r.obs.oom
        BY <1>4, <3>2, <3>6
      <4>2. r.obs.oom => Told("native_cgroupv2", r)
        BY <1>1, <1>2, <2>2
      <4> QED  BY <1>2, <1>4, <2>2, <3>4, <3>6, <4>1, <4>2, NativeJudge
    <3> QED  BY <3>5, <3>6
  <2> QED  BY <2>1, <2>2, <1>5
<1> QED  BY <1>6, <1>7, <1>11, <1>12, <1>13, <1>14, <1>15 DEF Inv

\* Every step keeps the invariant.
LEMMA NextInv == Inv /\ [Next]_vars => Inv'
<1> SUFFICES ASSUME Inv, [Next]_vars PROVE Inv'
  OBVIOUS
<1>1. CASE Prepare
  <2>1. PeakExact' /\ AcceptedIsClean' /\ CleanIsAccepted' /\ NativeExact'
    BY <1>1, SameTests DEF Prepare
  <2>2. TypeOK' /\ OomTraced' /\ PeakShared'
    BY <1>1, MemoryLimitAssumption
       DEF Prepare, Inv, TypeOK, OomTraced, PeakShared, NoUsage, Judged
  <2> QED  BY <2>1, <2>2 DEF Inv
<1>2. CASE \E r \in Behaviours : Execute(r)
  BY <1>2, ExecuteInv
<1>3. CASE Cleanup
  <2>1. PeakExact' /\ AcceptedIsClean' /\ CleanIsAccepted' /\ NativeExact'
    BY <1>3, SameTests DEF Cleanup
  <2>2. TypeOK' /\ OomTraced' /\ PeakShared'
    BY <1>3, MemoryLimitAssumption
       DEF Cleanup, Inv, TypeOK, OomTraced, PeakShared, NoUsage
  <2> QED  BY <2>1, <2>2 DEF Inv
<1>4. CASE UNCHANGED vars
  <2>1. PeakExact' /\ AcceptedIsClean' /\ CleanIsAccepted' /\ NativeExact'
    BY <1>4, SameTests DEF vars
  <2>2. TypeOK' /\ OomTraced' /\ PeakShared'
    BY <1>4 DEF vars, Inv, TypeOK, OomTraced, PeakShared, Judged, Obs, Ran
  <2> QED  BY <2>1, <2>2 DEF Inv
<1> QED  BY <1>1, <1>2, <1>3, <1>4 DEF Next

\* The invariant holds throughout.
LEMMA Invariance == Spec => []Inv
BY InitInv, NextInv, PTL DEF Spec

-----------------------------------------------------------------------------
(* The results.                                                            *)

\* The variables keep their types; no reported peak exceeds memory.max.
THEOREM TypeCorrect == Spec => []TypeOK
<1>1. Inv => TypeOK
  BY DEF Inv
<1> QED  BY <1>1, Invariance, PTL

\* No backend accepts an unclean run, or one that lacked memory when the backend
\* was told.
THEOREM OnlyCleanAccepted == Spec => []AcceptedIsClean
<1>1. Inv => AcceptedIsClean
  BY DEF Inv
<1> QED  BY <1>1, Invariance, PTL

\* Every backend accepts a clean, undisturbed run that was started, unless it or an
\* earlier one in the submission's cgroup ran out of memory.
THEOREM CleanAccepted == Spec => []CleanIsAccepted
<1>1. Inv => CleanIsAccepted
  BY DEF Inv
<1> QED  BY <1>1, Invariance, PTL

\* The shared cgroup does not change the verdict of a submission, when the native
\* backend could read memory.events after every test that ran out of memory.
THEOREM SubmissionVerdictUnaffected == Spec => []SubmissionVerdictExact
<1>1. ASSUME Inv PROVE SubmissionVerdictExact
  <2> SUFFICES ASSUME \A i \in Judged : Obs(i).oom => Told("native_cgroupv2", tests[i].run)
               PROVE  \A v \in Verdict :
                          FirstFailure(v, [i \in Judged |-> tests[i].verdict["native_cgroupv2"]])
                              <=> FirstFailure(v, [i \in Judged |-> OwnVerdict(i)])
    BY DEF SubmissionVerdictExact
  <2> DEFINE shared == [i \in Judged |-> tests[i].verdict["native_cgroupv2"]]
             own == [i \in Judged |-> OwnVerdict(i)]
  <2>1. "native_cgroupv2" \in Backends
    BY DEF Backends
  <2>2. \A i \in Judged : shared[i] = "ACCEPTED" => ~Obs(i).oom
    BY <1>1, <2>1 DEF Inv, AcceptedIsClean
  <2>3. \A i \in Judged : own[i] = "ACCEPTED" => ~Obs(i).oom
    BY DEF OwnVerdict, NativeVerdict
  <2>4. \A i \in Judged : (\A j \in 1 .. i - 1 : ~Obs(j).oom) => shared[i] = own[i]
    BY <1>1 DEF Inv, NativeExact
  <2>5. \A i \in Judged : \A j \in 1 .. i - 1 : j \in Judged /\ 1 .. j - 1 \subseteq 1 .. i - 1
    BY <1>1 DEF Judged, Inv, TypeOK
  <2>6. ASSUME NEW i \in Judged
        PROVE  (\A j \in 1 .. i - 1 : shared[j] = "ACCEPTED") <=>
                   (\A j \in 1 .. i - 1 : own[j] = "ACCEPTED")
    <3> HIDE DEF shared, own
    <3> QED  BY <2>2, <2>3, <2>4, <2>5
  <2>7. ASSUME NEW i \in Judged, \A j \in 1 .. i - 1 : shared[j] = "ACCEPTED"
        PROVE  shared[i] = own[i]
    <3> HIDE DEF shared, own
    <3> QED  BY <2>2, <2>4, <2>5, <2>7
  <2>8. DOMAIN shared = Judged /\ DOMAIN own = Judged
    OBVIOUS
  <2>9. \A v \in Verdict : FirstFailure(v, shared) <=> FirstFailure(v, own)
    <3> HIDE DEF shared, own
    <3> QED  BY <2>6, <2>7, <2>8 DEF FirstFailure
  <2> QED  BY <2>9
<1> QED  BY <1>1, Invariance, PTL

\* The stored peak is the highest peak of the tests up to the last one after which
\* memory.peak could be read; what cannot be read never raises it, and a later
\* reading makes up for it.
THEOREM PeakIsMaximum == Spec => []PeakExact
<1>1. Inv => PeakExact
  BY DEF Inv
<1> QED  BY <1>1, Invariance, PTL
=============================================================================

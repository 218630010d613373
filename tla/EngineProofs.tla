---------------------------- MODULE EngineProofs ----------------------------
(***************************************************************************)
(* Proofs about Engine and the Execute of module Execution, for any        *)
(* requests, hosts, limits and amounts of output.                          *)
(***************************************************************************)
EXTENDS Engine, TLAPS

USE ExecutionAssumption

-----------------------------------------------------------------------------
(* The inductive invariant, in parts.                                      *)

\* A record with the fields of an ExecutionRequest and numeric limits.
Limited(r) ==
    r \in [language : {r.language}, sandbox : {r.sandbox}, time : Int, memory : Int,
           cpu : Int, pids : Int, output : Int]

\* Normalize leaves two names of the request.
RequestShape == (rpc \in {"flags", "new"} => Limited(req)) /\ host \in Hosts

\* The backend is chosen once, from names that do not change any more.
Early == {"flags", "new", "normalized", "resolved"}
BackendChosen ==
    /\ rpc \in Early \cup {"fatal"} => backend = None
    /\ rpc \in {"selected", "prepared", "compiling", "execute", "cleanup"}
          => backend # None
    /\ backend # None => backend = Selected /\ Selected # "error"

\* The workspace and the native backend's cgroup exist from Prepare to Cleanup.
WorkspaceKept ==
    /\ rpc \in Early \cup {"selected", "fatal"} => workspace = "none" /\ cgroup = "none"
    /\ rpc \in {"prepared", "compiling", "execute", "cleanup"} =>
          workspace = "present" /\ cgroup = IF Native THEN "present" ELSE "none"
    /\ rpc = "returned" /\ workspace = "present" =>
          SourceNotWritten \/ "RemoveAll" \in ignored

\* Execute, from the start of the program to its end.
ExecuteOrder ==
    /\ epc # "idle" => rpc \in {"execute", "cleanup", "returned"}
    /\ rpc \in {"cleanup", "returned"} => epc \in {"idle", "returned"}
    /\ backend = "docker" => epc = "idle"
    /\ epc = "returned" <=> outcome # None
    /\ epc = "idle" => proc.state = "none" /\ child = None /\ pipe = 0 /\ ~timedOut
    /\ epc = "returned" => proc.state # "running"
    /\ timedOut => Native /\ ctx # "live"

\* The bytes in the pipe are within the budget.
PipeBound == buffer.written + pipe <= MaxWritten

\* After Cleanup of the native backend, a process in the cgroup is one that
\* cgroup.kill did not end, and the cgroup is there only if a process was in it.
CgroupEmpty ==
    rpc = "returned" =>
        /\ cgroup = "present" => child # None /\ child.inCgroup
        /\ Native /\ Occupied => "cgroup.kill" \in ignored /\ cgroup = "present"

EngineInv ==
    /\ TypeOK
    /\ RequestShape /\ BackendChosen /\ WorkspaceKept
    /\ ExecuteOrder /\ PipeBound /\ CgroupEmpty

-----------------------------------------------------------------------------
(* Limits and names.                                                       *)

\* The defaults are positive and within the caps.
LEMMA DefaultFacts ==
    /\ DefaultTimeLimitMs \in Int /\ DefaultTimeLimitMs > 0
    /\ MaxAllowedTimeLimitMs \in Int /\ DefaultTimeLimitMs <= MaxAllowedTimeLimitMs
    /\ DefaultMemoryLimitMB \in Int /\ DefaultMemoryLimitMB > 0
    /\ MaxAllowedMemoryMB \in Int /\ DefaultMemoryLimitMB <= MaxAllowedMemoryMB
    /\ DefaultCpuQuota \in Int /\ DefaultCpuQuota > 0
    /\ DefaultPidsLimit \in Int /\ DefaultPidsLimit > 0
    /\ DefaultMaxOutputBytes \in Int /\ DefaultMaxOutputBytes > 0
BY SMT DEF DefaultTimeLimitMs, DefaultMemoryLimitMB, MaxAllowedTimeLimitMs,
           MaxAllowedMemoryMB, DefaultCpuQuota, DefaultPidsLimit,
           DefaultMaxOutputBytes

\* Canonical leaves what it returns alone, so that it does not matter how often
\* a language is normalized on its way.
LEMMA CanonicalStable ==
    ASSUME NEW name
    PROVE  Canonical(Canonical(name)) = Canonical(name)
<1>1. \A n : Lower(n) = IF n = " Python" THEN "python"
                        ELSE IF n = "CPP " THEN "cpp" ELSE n
  BY DEF Lower
<1>2. \A n : Canonical(n) = IF Lower(n) \in {"py", "python"} THEN "python3"
                            ELSE IF Lower(n) \in {"c++", "g++"} THEN "cpp"
                            ELSE Lower(n)
  BY DEF Canonical
<1> QED BY <1>1, <1>2

\* The smaller of two numbers.
LEMMA MinOfTwo ==
    ASSUME NEW a \in Int, NEW b \in Int
    PROVE  Min({a, b}) = IF a <= b THEN a ELSE b
<1> DEFINE m == IF a <= b THEN a ELSE b
<1>1. m \in {a, b} /\ \A y \in {a, b} : m <= y
  OBVIOUS
<1>2. \A x \in {a, b} : (\A y \in {a, b} : x <= y) => x = m
  OBVIOUS
<1> HIDE DEF m
<1>3. Min({a, b}) = m
  BY <1>1, <1>2 DEF Min
<1> QED BY <1>3 DEF m

\* Filling in a default is idempotent and agrees with the clamp that follows it.
LEMMA ClampFacts ==
    ASSUME NEW v \in Int, NEW default \in Int, NEW cap \in Int,
           default > 0, default <= cap
    PROVE  /\ Clamp(v, default, cap) = Min({Given(v, default), cap})
           /\ Clamp(Clamp(v, default, cap), default, cap) = Clamp(v, default, cap)
           /\ Clamp(OrDefault(v, default), default, cap) = Clamp(v, default, cap)
<1>1. Given(v, default) \in Int
  BY DEF Given
<1>2. Min({Given(v, default), cap}) =
          IF Given(v, default) <= cap THEN Given(v, default) ELSE cap
  BY <1>1, MinOfTwo
<1> QED BY <1>2 DEF Clamp, OrDefault, Given

\* Filling in a default is idempotent and keeps what is given.
LEMMA OrDefaultFacts ==
    ASSUME NEW v \in Int, NEW default \in Int, default > 0
    PROVE  /\ OrDefault(v, default) = Given(v, default)
           /\ OrDefault(OrDefault(v, default), default) = OrDefault(v, default)
BY DEF OrDefault, Given

\* Both ways into the system give a request the same limits, those of API.md, and
\* normalizing again changes nothing.
LEMMA NormalizeFacts ==
    ASSUME NEW r, Limited(r)
    PROVE  /\ ViaQueue(r) = Normalize(r)
           /\ Normalize(Normalize(r)) = Normalize(r)
           /\ Normalize(r).time = Min({Given(r.time, DocumentedTimeLimit.default),
                                       DocumentedTimeLimit.max})
           /\ Normalize(r).memory = Min({Given(r.memory, DocumentedMemoryLimit.default),
                                         DocumentedMemoryLimit.max})
           /\ Normalize(r).cpu = Given(r.cpu, DocumentedDefault.cpu)
           /\ Normalize(r).pids = Given(r.pids, DocumentedDefault.pids)
           /\ Normalize(r).output = Given(r.output, DocumentedDefault.output)
           /\ Known(Normalize(r).language) <=> Known(r.language)
<1> DEFINE j == NormalizeJob(r)
           N == Normalize(r)
           Sandbox(x) == IF x = "" THEN "auto" ELSE x
           Time(x) == Clamp(x, DefaultTimeLimitMs, MaxAllowedTimeLimitMs)
           Memory(x) == Clamp(x, DefaultMemoryLimitMB, MaxAllowedMemoryMB)
<1>1. /\ r.time \in Int /\ r.memory \in Int /\ r.cpu \in Int /\ r.pids \in Int
      /\ r.output \in Int
  BY DEF Limited
<1>2. /\ Canonical(Canonical(r.language)) = Canonical(r.language)
      /\ Sandbox(Sandbox(r.sandbox)) = Sandbox(r.sandbox)
  BY CanonicalStable
<1>3. /\ j.language = r.language /\ j.sandbox = Sandbox(r.sandbox)
      /\ j.time = OrDefault(r.time, DefaultTimeLimitMs)
      /\ j.memory = OrDefault(r.memory, DefaultMemoryLimitMB)
      /\ j.cpu = OrDefault(r.cpu, DefaultCpuQuota)
      /\ j.pids = OrDefault(r.pids, DefaultPidsLimit)
      /\ j.output = OrDefault(r.output, DefaultMaxOutputBytes)
  BY DEF NormalizeJob, Limited
<1>4. \A x : Normalize(x) =
         [language |-> Canonical(x.language), sandbox |-> Sandbox(x.sandbox),
          time |-> Time(x.time), memory |-> Memory(x.memory),
          cpu |-> OrDefault(x.cpu, DefaultCpuQuota),
          pids |-> OrDefault(x.pids, DefaultPidsLimit),
          output |-> OrDefault(x.output, DefaultMaxOutputBytes)]
  BY DEF Normalize
<1> HIDE DEF j, N, Sandbox
<1>5. /\ Time(r.time) = Min({Given(r.time, DefaultTimeLimitMs), MaxAllowedTimeLimitMs})
      /\ Time(j.time) = Time(r.time) /\ Time(Time(r.time)) = Time(r.time)
  <2>1. /\ DefaultTimeLimitMs \in Int /\ DefaultTimeLimitMs > 0
        /\ MaxAllowedTimeLimitMs \in Int
        /\ DefaultTimeLimitMs <= MaxAllowedTimeLimitMs
    BY DefaultFacts
  <2>2. /\ Time(r.time) =
              Min({Given(r.time, DefaultTimeLimitMs), MaxAllowedTimeLimitMs})
        /\ Time(Time(r.time)) = Time(r.time)
        /\ Time(OrDefault(r.time, DefaultTimeLimitMs)) = Time(r.time)
    BY <1>1, <2>1, ClampFacts
  <2> QED BY <1>3, <2>2
<1>6. /\ Memory(r.memory) =
            Min({Given(r.memory, DefaultMemoryLimitMB), MaxAllowedMemoryMB})
      /\ Memory(j.memory) = Memory(r.memory)
      /\ Memory(Memory(r.memory)) = Memory(r.memory)
  <2>1. /\ DefaultMemoryLimitMB \in Int /\ DefaultMemoryLimitMB > 0
        /\ MaxAllowedMemoryMB \in Int /\ DefaultMemoryLimitMB <= MaxAllowedMemoryMB
    BY DefaultFacts
  <2>2. /\ Memory(r.memory) =
              Min({Given(r.memory, DefaultMemoryLimitMB), MaxAllowedMemoryMB})
        /\ Memory(Memory(r.memory)) = Memory(r.memory)
        /\ Memory(OrDefault(r.memory, DefaultMemoryLimitMB)) = Memory(r.memory)
    BY <1>1, <2>1, ClampFacts
  <2> QED BY <1>3, <2>2
<1>7. /\ OrDefault(r.cpu, DefaultCpuQuota) = Given(r.cpu, DefaultCpuQuota)
      /\ OrDefault(r.pids, DefaultPidsLimit) = Given(r.pids, DefaultPidsLimit)
      /\ OrDefault(r.output, DefaultMaxOutputBytes) = Given(r.output, DefaultMaxOutputBytes)
      /\ OrDefault(j.cpu, DefaultCpuQuota) = j.cpu
      /\ OrDefault(j.pids, DefaultPidsLimit) = j.pids
      /\ OrDefault(j.output, DefaultMaxOutputBytes) = j.output
  <2>1. /\ DefaultCpuQuota \in Int /\ DefaultCpuQuota > 0
        /\ DefaultPidsLimit \in Int /\ DefaultPidsLimit > 0
        /\ DefaultMaxOutputBytes \in Int /\ DefaultMaxOutputBytes > 0
    BY DefaultFacts
  <2>2. /\ OrDefault(r.cpu, DefaultCpuQuota) = Given(r.cpu, DefaultCpuQuota)
        /\ OrDefault(OrDefault(r.cpu, DefaultCpuQuota), DefaultCpuQuota)
             = OrDefault(r.cpu, DefaultCpuQuota)
    BY <1>1, <2>1, OrDefaultFacts
  <2>3. /\ OrDefault(r.pids, DefaultPidsLimit) = Given(r.pids, DefaultPidsLimit)
        /\ OrDefault(OrDefault(r.pids, DefaultPidsLimit), DefaultPidsLimit)
             = OrDefault(r.pids, DefaultPidsLimit)
    BY <1>1, <2>1, OrDefaultFacts
  <2>4. /\ OrDefault(r.output, DefaultMaxOutputBytes) = Given(r.output, DefaultMaxOutputBytes)
        /\ OrDefault(OrDefault(r.output, DefaultMaxOutputBytes), DefaultMaxOutputBytes)
             = OrDefault(r.output, DefaultMaxOutputBytes)
    BY <1>1, <2>1, OrDefaultFacts
  <2> QED BY <1>3, <2>2, <2>3, <2>4
<1> HIDE DEF Time, Memory
<1>8. /\ N.language = Canonical(r.language) /\ N.sandbox = Sandbox(r.sandbox)
      /\ N.time = Time(r.time) /\ N.memory = Memory(r.memory)
      /\ N.cpu = j.cpu /\ N.pids = j.pids /\ N.output = j.output
  BY <1>3, <1>4 DEF N
<1>9. Normalize(j) = N
  BY <1>2, <1>3, <1>4, <1>5, <1>6, <1>7 DEF N
<1>10. Normalize(N) = N
  <2>1. Normalize(N) = Normalize(j)
    BY <1>2, <1>3, <1>4, <1>5, <1>6, <1>8
  <2> QED BY <1>9, <2>1
<1>11. Known(N.language) <=> Known(r.language)
  BY <1>2, <1>8 DEF Known
<1>12. /\ N.time = Min({Given(r.time, DefaultTimeLimitMs), MaxAllowedTimeLimitMs})
       /\ N.memory = Min({Given(r.memory, DefaultMemoryLimitMB), MaxAllowedMemoryMB})
       /\ N.cpu = Given(r.cpu, DefaultCpuQuota)
       /\ N.pids = Given(r.pids, DefaultPidsLimit)
       /\ N.output = Given(r.output, DefaultMaxOutputBytes)
  BY <1>3, <1>5, <1>6, <1>7, <1>8
<1>13. /\ DocumentedTimeLimit.default = DefaultTimeLimitMs
       /\ DocumentedTimeLimit.max = MaxAllowedTimeLimitMs
       /\ DocumentedMemoryLimit.default = DefaultMemoryLimitMB
       /\ DocumentedMemoryLimit.max = MaxAllowedMemoryMB
       /\ DocumentedDefault.cpu = DefaultCpuQuota
       /\ DocumentedDefault.pids = DefaultPidsLimit
       /\ DocumentedDefault.output = DefaultMaxOutputBytes
  BY SMT DEF DefaultTimeLimitMs, DefaultMemoryLimitMB, MaxAllowedTimeLimitMs,
             MaxAllowedMemoryMB, DefaultCpuQuota, DefaultPidsLimit,
             DefaultMaxOutputBytes, DocumentedTimeLimit, DocumentedMemoryLimit,
             DocumentedDefault
<1> QED BY <1>9, <1>10, <1>11, <1>12, <1>13 DEF N, j, ViaQueue

\* SelectSandbox answers with an available backend that has the name, with the
\* strongest one for "auto", or with an error; no name belongs to two backends.
LEMMA SelectFacts ==
    ASSUME NEW name, NEW machine \in Hosts, SelectSandbox(name, machine) # "error"
    PROVE  /\ SelectSandbox(name, machine) \in Backends \cap machine
           /\ Explicit(name) => name \in Preferences(SelectSandbox(name, machine))
           /\ ~Explicit(name) => SelectSandbox(name, machine) = BestOf(machine)
<1>1. BestOf(machine) \in Backends \cap machine
  BY EngineAssumption DEF BestOf, Backends
<1>2. CASE ~Explicit(name)
  BY <1>1, <1>2 DEF Explicit, SelectSandbox
<1>3. CASE Explicit(name)
  <2>1. /\ Named(name) \cap machine # {}
        /\ SelectSandbox(name, machine) = CHOOSE b \in Named(name) : TRUE
    BY <1>3 DEF Explicit, SelectSandbox
  <2>2. \A a, b \in Named(name) : a = b
    BY DEF Named, Preferences
  <2>3. SelectSandbox(name, machine) \in Named(name) \cap machine
    BY <2>1, <2>2
  <2> QED BY <1>3, <2>3 DEF Named, Backends
<1> QED BY <1>2, <1>3

\* What Engine.Run's two attempts come to.
LEMMA SelectedFacts ==
    ASSUME host \in Hosts, Selected # "error"
    PROVE  /\ Selected \in Backends \cap host
           /\ Explicit(req.sandbox) /\ Explicit(preference)
                 => req.sandbox \in Preferences(Selected)
                       \/ preference \in Preferences(Selected)
           /\ ~Explicit(req.sandbox) => Selected = BestOf(host)
           /\ preference = req.sandbox => Selected = SelectSandbox(req.sandbox, host)
<1>1. BestOf(host) # "error"
  BY DEF BestOf
<1>2. CASE SelectSandbox(req.sandbox, host) # "error" \/ preference = ""
  <2>1. Selected = SelectSandbox(req.sandbox, host)
    BY <1>2 DEF Selected
  <2> QED BY <2>1, SelectFacts
<1>3. CASE ~(SelectSandbox(req.sandbox, host) # "error" \/ preference = "")
  <2>1. Selected = SelectSandbox(preference, host)
    BY <1>3 DEF Selected
  <2>2. Explicit(req.sandbox)
    BY <1>1, <1>3 DEF Explicit, SelectSandbox
  <2> QED BY <1>3, <2>1, <2>2, SelectFacts
<1> QED BY <1>2, <1>3

-----------------------------------------------------------------------------
(* The buffer and the verdict.                                             *)

\* A write of n bytes to a buffer in its type gives one in its type.
LEMMA WriteFacts ==
    ASSUME NEW b \in [len : 0 .. MaxOutput, written : 0 .. MaxWritten,
                      exceeded : BOOLEAN],
           NEW n \in Nat \ {0}, b.written + n <= MaxWritten
    PROVE  /\ Write(b, n) \in [len : 0 .. MaxOutput, written : 0 .. MaxWritten,
                                exceeded : BOOLEAN]
           /\ Write(b, n).written = b.written + n
           /\ b.len = Min({b.written, MaxOutput})
              /\ (b.exceeded <=> b.written > MaxOutput) =>
                 /\ Write(b, n).len = Min({Write(b, n).written, MaxOutput})
                 /\ Write(b, n).exceeded <=> Write(b, n).written > MaxOutput
<1>1. b.len \in Nat /\ b.len <= MaxOutput /\ b.written \in Nat /\ b.exceeded \in BOOLEAN
  OBVIOUS
<1>2. /\ Min({b.len + n, MaxOutput}) =
             IF b.len + n <= MaxOutput THEN b.len + n ELSE MaxOutput
      /\ Min({b.written, MaxOutput}) =
             IF b.written <= MaxOutput THEN b.written ELSE MaxOutput
      /\ Min({b.written + n, MaxOutput}) =
             IF b.written + n <= MaxOutput THEN b.written + n ELSE MaxOutput
  BY <1>1, MinOfTwo
<1>3. /\ Write(b, n).len =
             IF b.len < MaxOutput THEN Min({b.len + n, MaxOutput}) ELSE b.len
      /\ Write(b, n).written = b.written + n
      /\ Write(b, n).exceeded =
             (b.exceeded \/ b.len >= MaxOutput \/ n > MaxOutput - b.len)
      /\ Write(b, n) = [len |-> Write(b, n).len, written |-> Write(b, n).written,
                        exceeded |-> Write(b, n).exceeded]
  BY DEF Write
<1>4. /\ Write(b, n).len \in 0 .. MaxOutput
      /\ Write(b, n).written \in 0 .. MaxWritten
      /\ Write(b, n).exceeded \in BOOLEAN
  BY <1>1, <1>2, <1>3
<1>5. ASSUME b.len = Min({b.written, MaxOutput}),
             b.exceeded <=> b.written > MaxOutput
      PROVE  /\ Write(b, n).len = Min({Write(b, n).written, MaxOutput})
             /\ Write(b, n).exceeded <=> Write(b, n).written > MaxOutput
  <2>1. Write(b, n).len = Min({Write(b, n).written, MaxOutput})
    BY <1>1, <1>2, <1>3, <1>5
  <2>2. b.exceeded \/ b.len >= MaxOutput \/ n > MaxOutput - b.len
           <=> b.written + n > MaxOutput
    BY <1>1, <1>2, <1>5
  <2> QED BY <1>3, <2>1, <2>2
<1> QED BY <1>3, <1>4, <1>5

\* Every backend gives a verdict, and accepts only an exit code of 0 without an
\* overflow, the native one only when its watchdog kept still.
LEMMA VerdictFacts ==
    ASSUME NEW b \in Backends, NEW o
    PROVE  /\ VerdictOf(b, o) \in Verdict
           /\ VerdictOf(b, o) = "ACCEPTED" =>
                 /\ o.exit = 0 /\ ~o.exceeded
                 /\ b = "native_cgroupv2" => o.stop = "none"
<1> USE DEF Verdict
<1>1. CASE b = "native_cgroupv2"
  <2>1. VerdictOf(b, o) = NativeVerdict(o)
    BY <1>1 DEF VerdictOf
  <2> QED BY <1>1, <2>1 DEF NativeVerdict
<1>2. CASE b = "docker"
  <2>1. VerdictOf(b, o) = DockerVerdict(o)
    BY <1>2 DEF VerdictOf
  <2> QED BY <1>2, <2>1 DEF DockerVerdict
<1>3. CASE b = "dev_process"
  <2>1. VerdictOf(b, o) = DevVerdict(o)
    BY <1>3 DEF VerdictOf
  <2> QED BY <1>3, <2>1 DEF DevVerdict
<1> QED BY <1>1, <1>2, <1>3 DEF Backends

-----------------------------------------------------------------------------
(* The invariant is preserved.                                             *)

\* EngineInv holds initially.
LEMMA InitEngineInv == Init => EngineInv
<1> SUFFICES ASSUME Init PROVE EngineInv
  OBVIOUS
<1>1. ExecTypeOK
  <2>1. /\ 0 \in 0 .. 2 /\ 0 \in 0 .. MaxOutput /\ 0 \in 0 .. MaxWritten
    OBVIOUS
  <2>2. buffer \in [len : 0 .. MaxOutput, written : 0 .. MaxWritten, exceeded : BOOLEAN]
    BY <2>1 DEF Init, ExecInit
  <2> QED BY <2>1, <2>2 DEF Init, ExecInit, ExecTypeOK
<1>2. TypeOK
  BY <1>1 DEF Init, TypeOK
<1>3. RequestShape
  <2>1. req \in Request /\ host \in Hosts
    BY EngineAssumption DEF Init
  <2> QED BY <2>1 DEF RequestShape, Limited, Request
<1>4. BackendChosen /\ WorkspaceKept
  BY DEF Init, BackendChosen, WorkspaceKept, Early
<1>5. ExecuteOrder /\ PipeBound /\ CgroupEmpty
  BY DEF Init, ExecInit, ExecuteOrder, PipeBound, CgroupEmpty
<1> QED BY <1>2, <1>3, <1>4, <1>5 DEF EngineInv

\* What happens inside Execute and among the processes leaves the engine's own
\* part of the invariant alone.
LEMMA EnginePart ==
    ASSUME EngineInv, UNCHANGED <<engineVars, backend>>,
           rpc # "execute" => UNCHANGED epc
    PROVE  /\ RequestShape' /\ BackendChosen' /\ WorkspaceKept'
           /\ ExecTypeOK' => TypeOK'
<1> USE DEF engineVars, files
<1>1. Selected' = Selected
  BY DEF Selected
<1>2. RequestShape' /\ BackendChosen'
  BY <1>1 DEF EngineInv, RequestShape, BackendChosen
<1>3. WorkspaceKept'
  BY DEF EngineInv, WorkspaceKept, SourceNotWritten, Native, TypeOK
<1>4. ASSUME ExecTypeOK' PROVE TypeOK'
  BY <1>4 DEF EngineInv, TypeOK
<1> QED BY <1>2, <1>3, <1>4

\* Steps of the program, of its child and of the copying goroutine.
LEMMA ProcessesKeep ==
    ASSUME EngineInv, Surviving(Processes) \/ Surviving(Copy)
    PROVE  EngineInv'
<1>0. UNCHANGED <<engineVars, backend, epc>>
  BY DEF Surviving, Processes, Fork, Emit, ReadInput, ProgramExits, ChildExits, Copy
<1>1. RequestShape' /\ BackendChosen' /\ WorkspaceKept' /\ (ExecTypeOK' => TypeOK')
  BY <1>0, EnginePart
<1> USE DEF EngineInv, TypeOK, ExecTypeOK, Child, ExecuteOrder, PipeBound, CgroupEmpty,
            Native, ChildRuns, Occupied, engineVars, files
<1>2. CASE Fork
  BY <1>0, <1>1, <1>2 DEF Fork
<1>3. ASSUME NEW n \in 1 .. 2, Emit(n) PROVE EngineInv'
  <2>1. epc # "idle"
    BY <1>3 DEF Emit, Writing, ChildHoldsPipe
  <2> QED BY <1>0, <1>1, <1>3, <2>1 DEF Emit
<1>4. CASE ProgramExits
  BY <1>0, <1>1, <1>4 DEF ProgramExits
<1>5. CASE ChildExits
  <2>1. /\ child # None /\ child' # None /\ child'.inCgroup = child.inCgroup
        /\ ~child'.running
        /\ child' \in Child
    BY <1>5, ExecutionAssumption DEF ChildExits, Child
  <2>2. UNCHANGED <<proc, attached, ctx, timedOut, unread, pipe, buffer, outcome>>
    BY <1>5 DEF ChildExits
  <2>3. CgroupEmpty'
    BY <1>0, <2>1
  <2>4. ExecTypeOK' /\ ExecuteOrder' /\ PipeBound'
    BY <1>0, <2>1, <2>2
  <2> QED BY <1>1, <2>3, <2>4
<1>6. CASE Copy
  <2>1. PICK n \in 1 .. pipe : buffer' = Write(buffer, n) /\ pipe' = pipe - n
    BY <1>6 DEF Copy
  <2>2. /\ buffer' \in [len : 0 .. MaxOutput, written : 0 .. MaxWritten,
                         exceeded : BOOLEAN]
        /\ buffer'.written = buffer.written + n
    <3>1. n \in Nat \ {0} /\ buffer.written + n <= MaxWritten
      OBVIOUS
    <3> QED BY <2>1, <3>1, WriteFacts
  <2>3. pipe' \in 0 .. 2 /\ buffer'.written + pipe' <= MaxWritten
    BY <2>1, <2>2
  <2>4. UNCHANGED <<proc, child, attached, ctx, timedOut, unread, outcome>>
        /\ epc # "idle"
    BY <1>6, <2>1 DEF Copy
  <2> QED BY <1>0, <1>1, <2>2, <2>3, <2>4
<1>7. CASE ReadInput
  BY <1>0, <1>1, <1>7 DEF ReadInput
<1> QED BY <1>2, <1>3, <1>4, <1>5, <1>6, <1>7 DEF Surviving, Processes

\* Steps of Execute and of its context.
LEMMA ExecuteKeeps ==
    ASSUME EngineInv, InExecute(ExecuteStep) \/ InExecute(ContextEnds)
    PROVE  EngineInv'
<1>0. /\ UNCHANGED <<engineVars, backend>> /\ rpc = "execute"
      /\ backend \in Backends \ {"docker"}
  BY DEF InExecute, EngineInv, BackendChosen, TypeOK, ExecTypeOK
<1>1. RequestShape' /\ BackendChosen' /\ WorkspaceKept' /\ (ExecTypeOK' => TypeOK')
  BY <1>0, EnginePart
<1> USE DEF EngineInv, TypeOK, ExecTypeOK, Child, ExecuteOrder, PipeBound, CgroupEmpty,
            Native, ChildRuns, Occupied, engineVars, files, Returns
<1>2. CASE StartProcess
  BY <1>0, <1>1, <1>2 DEF StartProcess
<1>3. CASE StartFails
  BY <1>0, <1>1, <1>3 DEF StartFails, Verdict
<1>4. CASE Attach
  BY <1>0, <1>1, <1>4 DEF Attach
<1>5. CASE AttachFails
  BY <1>0, <1>1, <1>5 DEF AttachFails, Killed
<1>6. CASE ContextEnds
  BY <1>0, <1>1, <1>6 DEF ContextEnds
<1>7. CASE Reap
  BY <1>0, <1>1, <1>7 DEF Reap
<1>8. CASE Watchdog
  BY <1>0, <1>1, <1>8 DEF Watchdog, Killed, GroupKill
<1>9. CASE ContextKills
  BY <1>0, <1>1, <1>9 DEF ContextKills
<1>10. CASE Finish
  <2>1. PICK o : Returns(VerdictOf(backend, o))
    BY <1>10 DEF Finish
  <2>2. VerdictOf(backend, o) \in Verdict
    BY <1>0, VerdictFacts
  <2>3. epc' = "returned" /\ outcome' \in Verdict /\ outcome' # None
    BY <2>1, <2>2
  <2>4. UNCHANGED <<proc, child, attached, ctx, timedOut, unread, pipe, buffer>>
        /\ proc.state = "reaped"
    BY <1>10 DEF Finish, WaitReturns
  <2> QED BY <1>0, <1>1, <2>3, <2>4
<1> QED
  BY <1>2, <1>3, <1>4, <1>5, <1>6, <1>7, <1>8, <1>9, <1>10 DEF InExecute, ExecuteStep

\* Steps of Engine.Run outside Execute.
LEMMA RunKeeps ==
    ASSUME EngineInv, EngineStep \/ StragglerExits, ~InExecute(ExecuteStep)
    PROVE  EngineInv'
<1> USE DEF EngineInv, TypeOK, RequestShape, BackendChosen, WorkspaceKept,
            ExecuteOrder, PipeBound, CgroupEmpty, SourceNotWritten, Native, ChildRuns,
            Occupied, Early, execVars, files, Reports, Verdict
<1>1. CASE ParseFlags
  <2>1. Limited(req')
    BY <1>1 DEF ParseFlags, Limited
  <2> QED BY <1>1, <2>1 DEF ParseFlags, ExecTypeOK
<1>2. CASE NormalizeRequest
  BY <1>2 DEF NormalizeRequest, ExecTypeOK
<1>3. CASE ResolveLanguage
  BY <1>3 DEF ResolveLanguage, ExecTypeOK
<1>4. CASE Select
  <2>1. Selected' = Selected
    BY <1>4 DEF Select, Selected
  <2>2. Selected # "error" => Selected \in Backends
    BY SelectedFacts
  <2> QED BY <1>4, <2>1, <2>2 DEF Select, ExecTypeOK
<1> DEFINE Kept == UNCHANGED <<req, ext, host, preference, backend>>
<1>5. ASSUME Kept PROVE Selected' = Selected
  BY <1>5 DEF Selected
<1>6. CASE Prepare
  BY <1>5, <1>6 DEF Prepare, ExecTypeOK
<1>7. CASE PrepareFails
  <2>1. /\ UNCHANGED <<req, ext, host, preference, straggler, backend, execVars>>
        /\ rpc = "selected" /\ rpc' = "returned" /\ result' = "SYSTEM_ERROR"
    BY <1>7 DEF PrepareFails
  <2>2. /\ workspace' \in {"none", "present", "removed"}
        /\ cgroup' \in {"none", "removed"}
        /\ ignored' \subseteq {"cgroup.kill", "RemoveAll"}
        /\ workspace' = "present" =>
              (Native /\ cgroup' = "none") \/ "RemoveAll" \in ignored'
    BY <1>7 DEF PrepareFails, RemoveWorkspace
  <2>3. ExecTypeOK' /\ epc' = "idle" /\ child' = None
    BY <2>1 DEF ExecTypeOK
  <2> QED BY <1>5, <2>1, <2>2, <2>3
<1>8. CASE CompileFails
  BY <1>5, <1>8 DEF CompileFails, CompilerDone, ExecTypeOK
<1>9. CASE Compiled
  BY <1>5, <1>9 DEF Compiled, CompilerDone, ExecTypeOK
<1>15. CASE SkipCompile
  BY <1>5, <1>15 DEF SkipCompile, ExecTypeOK
<1>13. CASE Compile
  BY <1>5, <1>13 DEF Compile, ExecTypeOK
<1>14. CASE StragglerExits
  <2>1. /\ UNCHANGED <<req, ext, host, preference, rpc, workspace, cgroup, ignored,
                       result, backend, epc, proc, child, attached, ctx, timedOut,
                       unread, pipe, buffer, outcome>>
        /\ straggler' = FALSE
    BY <1>14 DEF StragglerExits
  <2>2. ExecTypeOK'
    BY <2>1 DEF ExecTypeOK
  <2>3. TypeOK' /\ RequestShape' /\ BackendChosen' /\ WorkspaceKept'
    BY <1>5, <2>1, <2>2
  <2>4. ExecuteOrder' /\ PipeBound' /\ CgroupEmpty'
    BY <2>1
  <2> QED BY <2>3, <2>4
<1>10. CASE DockerExecute
  BY <1>5, <1>10 DEF DockerExecute, ExecTypeOK
<1>11. CASE ExecuteReturned
  BY <1>5, <1>11 DEF ExecuteReturned, ExecTypeOK
<1>12. CASE Cleanup
  <2>1. UNCHANGED <<req, ext, host, preference, straggler, result, backend, epc, proc,
                    attached, ctx, timedOut, unread, pipe, buffer, outcome>>
        /\ rpc = "cleanup" /\ rpc' = "returned"
    BY <1>12 DEF Cleanup
  <2>2. PICK failed \in SUBSET {"cgroup.kill", "RemoveAll"} :
          /\ child' = IF Native /\ "cgroup.kill" \notin failed
                      THEN CgroupKill(child) ELSE child
          /\ workspace' = IF "RemoveAll" \in failed THEN "present" ELSE "removed"
          /\ ignored' = failed
    BY <1>12 DEF Cleanup, RemoveWorkspace
  <2>3. /\ child' \in Child \cup {None}
        /\ child = None => child' = None
        /\ child # None => child' # None /\ child'.inCgroup = child.inCgroup
        /\ Native /\ Occupied' => "cgroup.kill" \in failed
    <3>1. child \in Child \cup {None}
      BY DEF ExecTypeOK
    <3>2. CASE child = None
      BY <2>2, <3>2 DEF CgroupKill
    <3>3. CASE child # None
      <4>1. child \in Child
        BY <3>1, <3>3
      <4>2. child' = child \/ child' = [child EXCEPT !.running = FALSE]
        BY <2>2 DEF CgroupKill
      <4>3. child' \in Child /\ child'.inCgroup = child.inCgroup
        BY <4>1, <4>2 DEF Child
      <4>4. child' # None
        BY <4>3, ExecutionAssumption
      <4>5. Native /\ Occupied' => "cgroup.kill" \in failed
        BY <2>1, <2>2, <3>3, <4>1, <4>3, <4>4 DEF CgroupKill, Child
      <4> QED BY <3>3, <4>3, <4>4, <4>5
    <3> QED BY <3>2, <3>3
  <2>4. /\ Native => (Occupied /\ cgroup' = cgroup) \/ (~Occupied' /\ cgroup' = "removed")
        /\ ~Native => cgroup' = cgroup
    BY <1>12 DEF Cleanup
  <2>5. /\ cgroup = IF Native THEN "present" ELSE "none"
        /\ cgroup' \in {"none", "present", "removed"}
    BY <2>1, <2>4
  <2>6. CgroupEmpty'
    BY <2>1, <2>2, <2>3, <2>4, <2>5
  <2>7. ExecTypeOK'
    BY <2>1, <2>3 DEF ExecTypeOK
  <2>8. RequestShape' /\ BackendChosen' /\ WorkspaceKept'
    BY <1>5, <2>1, <2>2
  <2>9. ExecuteOrder' /\ PipeBound'
    BY <2>1, <2>3
  <2> QED BY <2>1, <2>2, <2>5, <2>6, <2>7, <2>8, <2>9
<1> QED
  BY <1>1, <1>2, <1>3, <1>4, <1>6, <1>7, <1>8, <1>9, <1>10, <1>11, <1>12, <1>13,
     <1>14, <1>15
     DEF EngineStep

\* EngineInv is preserved by every step and so holds throughout.
LEMMA EngineInvHolds == Spec => []EngineInv
<1>1. EngineInv /\ UNCHANGED vars => EngineInv'
  <2> SUFFICES ASSUME EngineInv, UNCHANGED vars PROVE EngineInv'
    OBVIOUS
  <2>1. UNCHANGED <<engineVars, backend>> /\ UNCHANGED execVars
    BY DEF vars
  <2>2. RequestShape' /\ BackendChosen' /\ WorkspaceKept' /\ (ExecTypeOK' => TypeOK')
    BY <2>1, EnginePart DEF execVars
  <2>3. ExecTypeOK' /\ ExecuteOrder' /\ PipeBound' /\ CgroupEmpty'
    BY <2>1 DEF EngineInv, TypeOK, ExecTypeOK, ExecuteOrder, PipeBound, CgroupEmpty,
                Native, ChildRuns, Occupied, engineVars, files, execVars
  <2> QED BY <2>2, <2>3 DEF EngineInv
<1>2. EngineInv /\ [Next]_vars => EngineInv'
  BY <1>1, ProcessesKeep, ExecuteKeeps, RunKeeps DEF Next
<1> QED BY <1>2, InitEngineInv, PTL DEF Spec

-----------------------------------------------------------------------------
(* The theorems.                                                           *)

\* Every variable of the engine and of Execute stays in its type, and a verdict
\* is there exactly when Run is on its way out.
THEOREM TypeCorrect == Spec => []TypeOK
<1>1. EngineInv => TypeOK
  BY DEF EngineInv
<1> QED BY <1>1, EngineInvHolds, PTL

\* Whichever way a request comes in it gets the same limits, which are those that
\* API.md documents (what was asked for or the default, time and memory capped;
\* README.md's 32 processes and 1MB are defaults and no caps), and it runs in the
\* sandbox it asked for or not at all.
THEOREM RequestsHonoured == Spec => []RequestHonoured
<1>1. EngineInv => LimitsAgree
  <2> SUFFICES ASSUME EngineInv, rpc = "new" PROVE LimitsAgree
    BY DEF LimitsAgree
  <2>1. Limited(req)
    BY DEF EngineInv, RequestShape
  <2>2. \A limit \in {"cpu", "pids", "output"} :
           Normalize(req)[limit] = Given(req[limit], DocumentedDefault[limit])
    BY <2>1, NormalizeFacts
  <2> QED BY <2>1, <2>2, NormalizeFacts DEF LimitsAgree
<1>2. EngineInv => SandboxAsRequested
  <2> SUFFICES ASSUME EngineInv, backend # None PROVE SandboxAsRequested
    BY DEF SandboxAsRequested
  <2>1. host \in Hosts /\ backend = Selected /\ Selected # "error"
    BY DEF EngineInv, RequestShape, BackendChosen
  <2> QED BY <2>1, SelectedFacts DEF SandboxAsRequested
<1>3. EngineInv => RequestHonoured
  BY <1>1, <1>2 DEF RequestHonoured
<1> QED BY <1>3, EngineInvHolds, PTL

\* When Run is back the workspace is gone, but for the one path that forgets it
\* and for a failed RemoveAll; nothing runs in the cgroup any more, unless
\* cgroup.kill is missing or was not written; and the cgroup itself is left only
\* where a process of the program was in it.
THEOREM RunCleansUp == Spec => []CleanedUp
<1>1. EngineInv => CleanedUp
  BY DEF EngineInv, WorkspaceKept, CgroupEmpty, CleanedUp
<1> QED BY <1>1, EngineInvHolds, PTL

\* The BoundedBuffer keeps the first MaxOutput bytes and reports an overflow
\* exactly when there were more, however the output arrives in pieces.
THEOREM BufferIsExact == Spec => []BufferExact
<1>1. Init => BufferExact
  BY MinOfTwo DEF Init, ExecInit, BufferExact
<1>2. EngineInv /\ BufferExact /\ [Next]_vars => BufferExact'
  <2> SUFFICES ASSUME EngineInv, BufferExact, [Next]_vars PROVE BufferExact'
    OBVIOUS
  <2>1. CASE UNCHANGED buffer
    BY <2>1 DEF BufferExact
  <2>2. CASE Copy
    <3>1. PICK n \in 1 .. pipe : buffer' = Write(buffer, n)
      BY <2>2 DEF Copy
    <3>2. /\ buffer \in [len : 0 .. MaxOutput, written : 0 .. MaxWritten,
                          exceeded : BOOLEAN]
          /\ n \in Nat \ {0} /\ buffer.written + n <= MaxWritten
      BY DEF EngineInv, TypeOK, ExecTypeOK, PipeBound
    <3> QED BY <3>1, <3>2, WriteFacts DEF BufferExact
  <2>3. Copy \/ UNCHANGED buffer
    BY DEF Next, EngineStep, ParseFlags, NormalizeRequest, ResolveLanguage, Select,
           Prepare, PrepareFails, SkipCompile, Compile, CompileFails,
           Compiled, StragglerExits, DockerExecute, InExecute,
           ExecuteStep, StartProcess, StartFails, Attach, AttachFails, Reap,
           Watchdog, ContextKills, Finish, ExecuteReturned, Cleanup, ContextEnds,
           Surviving, Processes, Fork, Emit, ReadInput, ProgramExits, ChildExits, vars, execVars
  <2> QED BY <2>1, <2>2, <2>3
<1> QED BY <1>1, <1>2, EngineInvHolds, PTL DEF Spec

\* ACCEPTED is said only of a program that ended by itself with exit code 0 and
\* whose output is complete, although the watchdog races its end and a child may
\* hold the pipe.
THEOREM AcceptedIsSound == Spec => []AcceptedSound
<1>1. Init => AcceptedSound
  BY DEF Init, ExecInit, AcceptedSound, Verdict
<1>2. EngineInv /\ BufferExact /\ AcceptedSound /\ [Next]_vars => AcceptedSound'
  <2> SUFFICES ASSUME EngineInv, BufferExact, AcceptedSound, [Next]_vars,
                      outcome' = "ACCEPTED"
               PROVE  AcceptedSound'
    BY DEF AcceptedSound
  <2> USE DEF Writing, ChildHoldsPipe, ChildRuns
  <2>1. CASE Finish /\ InExecute(Finish)
    <3>1. /\ WaitReturns /\ UNCHANGED <<proc, child, pipe, buffer, timedOut>>
          /\ backend \in Backends
      BY <2>1 DEF Finish, InExecute, EngineInv, TypeOK, ExecTypeOK, BackendChosen
    <3>2. PICK wall, output : outcome' = VerdictOf(backend, Observed(wall, output))
      BY <2>1 DEF Finish, Returns
    <3>3. /\ proc.exit = 0 /\ ~buffer.exceeded
          /\ Native => Observed(wall, output).stop = "none"
      BY <3>1, <3>2, VerdictFacts DEF Observed, Native
    <3>4. ~timedOut
      BY <3>3 DEF Observed, EngineInv, ExecuteOrder, TypeOK, ExecTypeOK
    <3>5. buffer.written <= MaxOutput
      BY <3>3 DEF BufferExact, EngineInv, TypeOK, ExecTypeOK
    <3>6. proc = [state |-> "reaped", exit |-> 0]
      BY <3>1, <3>3 DEF WaitReturns, EngineInv, TypeOK, ExecTypeOK
    <3> QED BY <3>1, <3>4, <3>5, <3>6 DEF WaitReturns, AcceptedSound
  <2>2. CASE UNCHANGED outcome
    <3>1. /\ epc = "returned" /\ proc = [state |-> "reaped", exit |-> 0] /\ pipe = 0
          /\ ~Writing /\ buffer.written <= MaxOutput /\ ~timedOut
      BY <2>2 DEF AcceptedSound, EngineInv, ExecuteOrder, Verdict
    <3>2. /\ UNCHANGED <<proc, buffer, pipe, timedOut>>
          /\ child' = child \/ (child # None /\ child' = [child EXCEPT !.running = FALSE])
      <4>1. CASE EngineStep
        BY <3>1, <4>1
           DEF EngineStep, ParseFlags, NormalizeRequest, ResolveLanguage,
               Select, Prepare, PrepareFails, SkipCompile, Compile, CompileFails,
           Compiled, StragglerExits, DockerExecute,
               InExecute, ExecuteStep, StartProcess, StartFails, Attach, AttachFails,
               Reap, Watchdog, ContextKills, Finish, ExecuteReturned, Cleanup,
               CgroupKill, execVars
      <4>2. CASE InExecute(ContextEnds) \/ StragglerExits \/ UNCHANGED vars
        BY <4>2 DEF InExecute, ContextEnds, StragglerExits, vars, execVars
      <4>3. CASE Surviving(Processes)
        BY <3>1, <4>3 DEF Surviving, Processes, Fork, Emit, ReadInput, ProgramExits, ChildExits
      <4>4. ~Copy
        BY <3>1 DEF Copy
      <4> QED BY <4>1, <4>2, <4>3, <4>4 DEF Next, Surviving
    <3>3. ~Writing'
      BY <3>1, <3>2 DEF EngineInv, TypeOK, ExecTypeOK, Child
    <3> QED BY <3>1, <3>2, <3>3 DEF AcceptedSound
  <2>3. InExecute(Finish) \/ UNCHANGED outcome
    BY DEF Next, EngineStep, ParseFlags, NormalizeRequest, ResolveLanguage,
           Select, Prepare, PrepareFails, SkipCompile, Compile, CompileFails,
           Compiled, StragglerExits, DockerExecute,
           InExecute, ExecuteStep, StartProcess, StartFails, Attach, AttachFails,
           Reap, Watchdog, ContextKills, ExecuteReturned, Cleanup, Returns,
           ContextEnds, Surviving, Processes, Fork, Emit, ReadInput, ProgramExits, ChildExits,
           Copy, vars, execVars
  <2> QED BY <2>1, <2>2, <2>3 DEF InExecute
<1> QED BY <1>1, <1>2, BufferIsExact, EngineInvHolds, PTL DEF Spec
=============================================================================

------------------------------- MODULE Limits -------------------------------
(***************************************************************************)
(* What a request is turned into before anything runs:                     *)
(* ExecutionRequest.Normalize (pkg/models/request.go),                     *)
(* SubmissionJob.Normalize (pkg/queue/queue.go), languages.Get and         *)
(* sandbox.SelectSandbox.  The two Normalize functions and Get each apply  *)
(* defaults of their own; a submission meets all of them, a request of the *)
(* command line only some.                                                 *)
(***************************************************************************)
EXTENDS Integers

DefaultTimeLimitMs == 2000
DefaultMemoryLimitMB == 128
DefaultCpuQuota == 1
DefaultPidsLimit == 32
DefaultMaxOutputBytes == 1048576
MaxAllowedTimeLimitMs == 10000
MaxAllowedMemoryMB == 1024

OrDefault(v, default) == IF v <= 0 THEN default ELSE v

Clamp(v, default, cap) ==
    IF v <= 0 THEN default ELSE IF v > cap THEN cap ELSE v

\* strings.ToLower(strings.TrimSpace(name)), on the names the model uses.
Lower(name) ==
    CASE name = " Python" -> "python"
      [] name = "CPP " -> "cpp"
      [] OTHER -> name

\* Both ExecutionRequest.Normalize and languages.Get know the aliases.
Canonical(name) ==
    CASE Lower(name) \in {"py", "python"} -> "python3"
      [] Lower(name) \in {"c++", "g++"} -> "cpp"
      [] OTHER -> Lower(name)

\* ExecutionRequest.Normalize.
Normalize(r) ==
    [language |-> Canonical(r.language),
     sandbox |-> IF r.sandbox = "" THEN "auto" ELSE r.sandbox,
     time |-> Clamp(r.time, DefaultTimeLimitMs, MaxAllowedTimeLimitMs),
     memory |-> Clamp(r.memory, DefaultMemoryLimitMB, MaxAllowedMemoryMB),
     cpu |-> OrDefault(r.cpu, DefaultCpuQuota),
     pids |-> OrDefault(r.pids, DefaultPidsLimit),
     output |-> OrDefault(r.output, DefaultMaxOutputBytes)]

\* SubmissionJob.Normalize: the same defaults, no caps, the language as it is.
NormalizeJob(r) ==
    [r EXCEPT !.sandbox = IF @ = "" THEN "auto" ELSE @,
              !.time = OrDefault(@, DefaultTimeLimitMs),
              !.memory = OrDefault(@, DefaultMemoryLimitMB),
              !.cpu = OrDefault(@, DefaultCpuQuota),
              !.pids = OrDefault(@, DefaultPidsLimit),
              !.output = OrDefault(@, DefaultMaxOutputBytes)]

\* A request that comes through the queue: Enqueue normalizes the job,
\* ProcessJob copies it into an ExecutionRequest and normalizes that.
ViaQueue(r) == Normalize(NormalizeJob(r))

\* languages.Get: the handlers that init registers.
Registered == {"cpp", "python3"}
Known(name) == Canonical(name) \in Registered
NeedsCompilation(name) == Canonical(name) = "cpp"

\* The preferences that name each backend.
Preferences(b) ==
    CASE b = "native_cgroupv2" -> {"native", "cgroup", "cgroupv2"}
      [] b = "docker" -> {"docker", "container"}
      [] b = "dev_process" -> {"dev_process", "dev", "process"}

Named(preference) ==
    {b \in {"native_cgroupv2", "docker", "dev_process"} :
        preference \in Preferences(b)}

\* The order of "auto".
BestOf(host) ==
    IF "native_cgroupv2" \in host THEN "native_cgroupv2"
    ELSE IF "docker" \in host THEN "docker"
    ELSE "dev_process"

DegradesSilently(preference, host) ==       \* mutant: falls back to "auto"
    IF Named(preference) \cap host # {}
    THEN CHOOSE b \in Named(preference) : TRUE
    ELSE BestOf(host)

\* SelectSandbox on a host where these backends are available (the process
\* backend always is); "error" when it returns one.
SelectSandbox(preference, host) ==
    IF preference \in {"auto", ""} THEN BestOf(host)
    ELSE IF Named(preference) \cap host # {}
    THEN CHOOSE b \in Named(preference) : TRUE
    ELSE "error"
=============================================================================

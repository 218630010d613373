------------------------------- MODULE Engine -------------------------------
(***************************************************************************)
(* The single-run engine behind the command line: cmd/engine and           *)
(* Engine.Run (pkg/engine/engine.go) with the Execute of module Execution. *)
(*                                                                         *)
(*   flags -> new -> normalized -> resolved -> selected -> prepared        *)
(*         -> compiling -> execute -> cleanup -> returned   (every way out *)
(*   after Prepare passes the deferred Cleanup), or fatal for a bad        *)
(*   command line                                                          *)
(*                                                                         *)
(* The numeric limits are followed up to Normalize; what they mean for a   *)
(* run is in TimeLimit and MaxOutput.  The command line never cancels its  *)
(* context, other callers of Run may.                                      *)
(***************************************************************************)
EXTENDS Limits, Execution

CONSTANTS
    Requests,       \* the requests of the command line, as ExecutionRequests
    Extensions,     \* of the --file, "" with --code
    Hosts,          \* sets of available backends
    EngineBackends  \* Engine.SandboxBackend when it is not the request's

\* ExecutionRequest, with its limits.
Request ==
    [language : STRING, sandbox : STRING, time : Int, memory : Int, cpu : Int,
     pids : Int, output : Int]

ASSUME EngineAssumption ==
    /\ Requests \subseteq Request
    /\ \A machine \in Hosts : "dev_process" \in machine

VARIABLES
    req,         \* the request; only its names once it is normalized
    ext,         \* extension of the source file, while it is needed
    host,        \* backends available on this machine
    preference,  \* e.SandboxBackend
    rpc,         \* where the engine is
    straggler,   \* a process of the compiler outlives the kill and holds its output
    workspace,   \* "none", "present", "removed"
    cgroup,      \* the submission's cgroup directory, likewise
    ignored,     \* the calls of Cleanup that failed, their errors discarded
    result       \* the verdict that Run reports, None before

files == <<workspace, cgroup, ignored>>
engineVars == <<req, ext, host, preference, rpc, straggler, files, result>>
vars == <<engineVars, backend, execVars>>

Init ==
    /\ req \in Requests
    /\ ext \in Extensions
    /\ host \in Hosts
    /\ preference \in {req.sandbox} \cup EngineBackends
    /\ rpc = "flags"
    /\ straggler = FALSE
    /\ workspace = "none"
    /\ cgroup = "none"
    /\ ignored = {}
    /\ result = None
    /\ backend = None
    /\ ExecInit

\* cmd/engine: the language flag, or what the file's extension says.
Detected ==
    IF req.language # "" THEN req.language
    ELSE CASE ext \in {".cpp", ".cc", ".cxx"} -> "cpp"
           [] ext = ".py" -> "python3"
           [] OTHER -> ""

\* No language: fatalError.  Otherwise the request goes to Engine.Run.
ParseFlags ==
    /\ rpc = "flags"
    /\ rpc' = IF Detected = "" THEN "fatal" ELSE "new"
    /\ req' = [req EXCEPT !.language = Detected]
    /\ ext' = ""
    /\ UNCHANGED <<host, preference, straggler, files, result, backend, execVars>>

NormalizeRequest ==
    /\ rpc = "new"
    /\ req' = [language |-> Normalize(req).language, sandbox |-> Normalize(req).sandbox]
    /\ rpc' = "normalized"
    /\ UNCHANGED <<ext, host, preference, straggler, files, result, backend, execVars>>

\* Run ends here with this verdict, past the deferred Cleanup if there is one.
Reports(verdict) ==
    /\ result' = verdict
    /\ rpc' = IF workspace = "present" THEN "cleanup" ELSE "returned"

ResolveLanguage ==
    /\ rpc = "normalized"
    /\ IF Known(req.language) THEN rpc' = "resolved" /\ UNCHANGED result
       ELSE Reports("SYSTEM_ERROR")
    /\ UNCHANGED <<req, ext, host, preference, straggler, files, backend, execVars>>

\* The engine's own preference is asked only when the request's fails.
Selected ==
    IF SelectSandbox(req.sandbox, host) # "error" \/ preference = ""
    THEN SelectSandbox(req.sandbox, host)
    ELSE SelectSandbox(preference, host)

Select ==
    /\ rpc = "resolved"
    /\ IF Selected = "error" THEN Reports("SYSTEM_ERROR") /\ UNCHANGED backend
       ELSE rpc' = "selected" /\ backend' = Selected /\ UNCHANGED result
    /\ UNCHANGED <<req, ext, host, preference, straggler, files, execVars>>

Prepare ==
    /\ rpc = "selected"
    /\ workspace' = "present"
    /\ cgroup' = IF Native THEN "present" ELSE "none"
    /\ rpc' = "prepared"
    /\ UNCHANGED <<req, ext, host, preference, straggler, ignored, result, backend,
                   execVars>>

\* os.RemoveAll of the working directory; a failure leaves it, and is ignored.
RemoveWorkspace(failed) ==
    /\ workspace' = IF "RemoveAll" \in failed THEN "present" ELSE "removed"
    /\ ignored' = failed

\* Prepare fails before it has a directory; when the source file cannot be
\* written; or, native only, in setupCgroupHierarchy.  It then takes away what it
\* made, except for the native backend when the file cannot be written.
PrepareFails ==
    /\ rpc = "selected"
    /\ result' = "SYSTEM_ERROR"
    /\ rpc' = "returned"
    /\ \/ UNCHANGED files
       \/ Native /\ workspace' = "present" /\ UNCHANGED <<cgroup, ignored>>
       \/ /\ \E failed \in SUBSET {"RemoveAll"} : RemoveWorkspace(failed)
          /\ cgroup' \in IF Native THEN {"none", "removed"} ELSE {"none"}
    /\ UNCHANGED <<req, ext, host, preference, straggler, backend, execVars>>

\* Nothing to compile.
SkipCompile ==
    /\ rpc = "prepared"
    /\ ~NeedsCompilation(req.language)
    /\ rpc' = "execute"
    /\ UNCHANGED <<req, ext, host, preference, straggler, files, result, backend,
                   execVars>>

\* cmd.Run of the compiler.  Its timeout kills the driver only: on the host, a
\* process that the driver started may live on with the output pipe, for which
\* cmd.Run goes on waiting.  The docker client has no such child.
Compile ==
    /\ rpc = "prepared"
    /\ NeedsCompilation(req.language)
    /\ rpc' = "compiling"
    /\ straggler' \in IF backend = "docker" THEN {FALSE} ELSE BOOLEAN
    /\ UNCHANGED <<req, ext, host, preference, files, result, backend, execVars>>

StragglerExits ==
    /\ straggler
    /\ straggler' = FALSE
    /\ UNCHANGED <<req, ext, host, preference, rpc, files, result, backend, execVars>>

CompilerDone == rpc = "compiling" /\ ~straggler

CompileFails ==
    /\ CompilerDone
    /\ Reports("COMPILATION_ERROR")
    /\ UNCHANGED <<req, ext, host, preference, straggler, files, backend, execVars>>

Compiled ==
    /\ CompilerDone
    /\ rpc' = "execute"
    /\ UNCHANGED <<req, ext, host, preference, straggler, files, result, backend,
                   execVars>>

\* The Docker backend is the subject of Containers; here it just answers.
DockerExecute ==
    /\ rpc = "execute"
    /\ backend = "docker"
    /\ \E verdict \in Verdict : Reports(verdict)
    /\ UNCHANGED <<req, ext, host, preference, straggler, files, backend, execVars>>

ExecuteReturned ==
    /\ rpc = "execute"
    /\ epc = "returned"
    /\ Reports(IF outcome = "error" THEN "SYSTEM_ERROR" ELSE outcome)
    /\ UNCHANGED <<req, ext, host, preference, straggler, files, backend, execVars>>

LeavesCgroupAlone(c) == c    \* mutant: cgroup.kill is not written

\* Writing cgroup.kill ends every process in the cgroup.
CgroupKill(c) ==
    IF c # None /\ c.inCgroup THEN [c EXCEPT !.running = FALSE] ELSE c

Occupied == ChildRuns /\ child.inCgroup

\* The deferred Cleanup.  The native backend writes cgroup.kill, if the kernel
\* has it, and removes the cgroup, which fails while a process is in it and may
\* still fail when that process is just dying; then the directory is removed.
\* Every error is ignored.
Cleanup ==
    /\ rpc = "cleanup"
    /\ \E failed \in SUBSET {"cgroup.kill", "RemoveAll"} :
          /\ "cgroup.kill" \in failed => Native
          /\ child' = IF Native /\ "cgroup.kill" \notin failed
                      THEN CgroupKill(child) ELSE child
          /\ RemoveWorkspace(failed)
    /\ IF Native THEN \/ Occupied /\ UNCHANGED cgroup
                      \/ ~Occupied' /\ cgroup' = "removed"
       ELSE UNCHANGED cgroup
    /\ rpc' = "returned"
    /\ UNCHANGED <<req, ext, host, preference, straggler, result, backend, epc,
                   proc, attached, ctx, timedOut, unread, pipe, buffer, outcome>>

-----------------------------------------------------------------------------
\* Steps of Execute and of the processes it started.
InExecute(A) ==
    /\ rpc = "execute"
    /\ backend # "docker"
    /\ A
    /\ UNCHANGED <<engineVars, backend>>

Surviving(A) == A /\ UNCHANGED <<engineVars, backend>>

EngineStep ==
    \/ ParseFlags \/ NormalizeRequest \/ ResolveLanguage \/ Select \/ Prepare
    \/ PrepareFails \/ SkipCompile \/ Compile \/ CompileFails \/ Compiled
    \/ DockerExecute
    \/ InExecute(ExecuteStep) \/ ExecuteReturned \/ Cleanup

Next ==
    \/ EngineStep
    \/ StragglerExits
    \/ InExecute(ContextEnds)
    \/ Surviving(Processes)
    \/ Surviving(Copy)

\* The engine, the timer and the copying goroutine keep going, and the compiler's
\* driver ends or is killed; the program, its child and what the driver leaves
\* behind may do nothing for ever.
Spec ==
    /\ Init
    /\ [][Next]_vars
    /\ WF_vars(EngineStep)
    /\ WF_vars(InExecute(ContextEnds))
    /\ WF_vars(Surviving(Copy))

-----------------------------------------------------------------------------
(* Properties.                                                             *)

\* Every variable stays in its type.
TypeOK ==
    /\ ExecTypeOK
    /\ rpc \in {"flags", "new", "normalized", "resolved", "selected", "prepared",
                "compiling", "execute", "cleanup", "returned", "fatal"}
    /\ straggler \in BOOLEAN
    /\ workspace \in {"none", "present", "removed"}
    /\ cgroup \in {"none", "present", "removed"}
    /\ ignored \subseteq {"cgroup.kill", "RemoveAll"}
    /\ result \in Verdict \cup {None}
    /\ result # None <=> rpc \in {"cleanup", "returned"}

\* The limits of API.md:66-70: two have a maximum, all have a default.
DocumentedTimeLimit == [default |-> 2000, max |-> 10000]
DocumentedMemoryLimit == [default |-> 128, max |-> 1024]
DocumentedDefault == [cpu |-> 1, pids |-> 32, output |-> 1048576]

Given(v, default) == IF v > 0 THEN v ELSE default

\* A request ends up with the same limits from the command line and through the
\* queue, where defaults are filled in twice, and normalizing again changes
\* nothing.  They are API.md's: what was asked for, or the documented default if
\* nothing was, and of time and memory no more than the documented maximum.
\* (README.md:59 and 62 say that processes are restricted to 32 and the output to
\* 1MB.  pkg/models/request.go:65-71 has no such maximum: 32 and 1MB are only
\* defaults, and a request for more gets more.)
LimitsAgree ==
    rpc = "new" =>
        LET r == Normalize(req)
        IN /\ ViaQueue(req) = r
           /\ Normalize(r) = r
           /\ r.time = Min({Given(req.time, DocumentedTimeLimit.default),
                            DocumentedTimeLimit.max})
           /\ r.memory = Min({Given(req.memory, DocumentedMemoryLimit.default),
                              DocumentedMemoryLimit.max})
           /\ \A limit \in {"cpu", "pids", "output"} :
                 r[limit] = Given(req[limit], DocumentedDefault[limit])
           /\ Known(r.language) <=> Known(req.language)

\* On the command line, where the engine's preference is the request's own, the
\* program runs in the backend that was asked for or not at all, and "auto"
\* takes the strongest available one; a worker would choose the same.
Explicit(sandbox) == sandbox \notin {"auto", ""}
SandboxAsRequested ==
    backend # None =>
        /\ backend \in host
        /\ Explicit(req.sandbox) /\ Explicit(preference)
              => req.sandbox \in Preferences(backend)
                    \/ preference \in Preferences(backend)
        /\ ~Explicit(req.sandbox) => backend = BestOf(host)
        /\ preference = req.sandbox => backend = SelectSandbox(req.sandbox, host)

\* Whichever way a request comes in, it is run with the limits and in the
\* sandbox that it asked for.
RequestHonoured == LimitsAgree /\ SandboxAsRequested

\* When Run is back, nothing is left behind but what these explain: the working
\* directory, if it could not be removed or if the native backend could not write
\* the source file (pkg/sandbox/native_linux.go:71 forgets it); the cgroup, if a
\* process of the program was still in it; and, of the native backend's processes,
\* a child from before the attachment, or any child where cgroup.kill is missing
\* (before Linux 5.14) or could not be written.
SourceNotWritten == Native /\ epc = "idle" /\ cgroup = "none" /\ result = "SYSTEM_ERROR"
CleanedUp ==
    rpc = "returned" =>
        /\ workspace = "present" => SourceNotWritten \/ "RemoveAll" \in ignored
        /\ cgroup = "present" => child # None /\ child.inCgroup
        /\ Native /\ Occupied => "cgroup.kill" \in ignored /\ cgroup = "present"

\* Run returns, unless it is held up for ever: in Execute by a child that the
\* kill does not reach and that keeps the output pipe, or the input pipe with
\* unread input; or in Compile by a process that outlives the compiler's driver.
\* (With Docker this says that the daemon answers: Containers.)
RunReturns ==
    \/ <>(rpc \in {"returned", "fatal"})
    \/ <>[]HeldUp
    \/ <>[](rpc = "compiling" /\ straggler)
=============================================================================

------------------------------ MODULE MCEngine ------------------------------
(***************************************************************************)
(* Engine for TLC: requests with limits below, at and above every bound,   *)
(* requests with every way to name a language and a backend, and output    *)
(* that falls short of, fills and overflows the buffer.                    *)
(***************************************************************************)
EXTENDS Engine

MCExitCodes == {-1, 0, 1}

Req(language, sandbox, time, memory, rest) ==
    [language |-> language, sandbox |-> sandbox, time |-> time,
     memory |-> memory, cpu |-> rest, pids |-> rest, output |-> rest]

MCRequests ==
    {Req("cpp", "dev", time, memory, rest) :
        time \in {-1, 0, 1, 2000, 10000, 10001},
        memory \in {-1, 0, 1, 128, 1024, 1025}, rest \in {-1, 0, 1, 64}}
    \cup
    {Req(language, "native", 0, 0, 0) :
        language \in {"", "py", " Python", "CPP ", "g++", "rust"}}
    \cup
    {Req("cpp", sandbox, 0, 0, 0) :
        sandbox \in {"", "auto", "native", "cgroupv2", "container", "dev", "vm"}}

MCExtensions == {"", ".py"}
MCHosts == {{"dev_process"}, {"docker", "dev_process"},
            {"native_cgroupv2", "docker", "dev_process"}}
MCEngineBackends == {"", "auto"}
=============================================================================

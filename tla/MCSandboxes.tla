---------------------------- MODULE MCSandboxes -----------------------------
(***************************************************************************)
(* Sandboxes for TLC: every observation with the exit codes the cascades   *)
(* single out, and memory usages below and at the limit; unreadable files  *)
(* and runs that could not be started for programs that end by themselves. *)
(***************************************************************************)
EXTENDS Sandboxes

MCExitCodes == {-1, 0, 124, 137}
MCRuns(obs, unread, error) ==
    {r \in [peak : {1, MemoryLimit}, cpu : {1}, obs : obs, unread : unread, error : error] :
        Observable(r.obs) /\ (r.obs.oom => r.peak = MemoryLimit)}
MCEnded == {o \in Observation : o.stop = "none" /\ o.wall = 0 /\ o.exit \in {0, 137}
                                 /\ ~o.exceeded /\ o.output # "unjudged"}
MCUnread == {Files} \cup {{f} : f \in Files}
MCBehaviours ==
    MCRuns(Observation, {{}}, {FALSE}) \cup MCRuns(MCEnded, MCUnread, {FALSE})
        \cup MCRuns({o \in MCEnded : o.exit = 0}, {{}}, {TRUE})
=============================================================================

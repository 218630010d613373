---------------------------- MODULE MCContainers ----------------------------
(***************************************************************************)
(* Containers for TLC: one executor, or two that got the same submission   *)
(* of two tests (executors of different submissions share nothing);        *)
(* programs that end well, out of memory, with a wrong answer, and         *)
(* in the half second between the limit and the kill.  Wall-clock time 0   *)
(* is at the limit, 1 is over it.                                          *)
(***************************************************************************)
EXTENDS Containers

CONSTANTS e1, e2, n1

MCExecutors == {e1, e2}
MCIds == {n1}
MCExitCodes == {-1, 0, 1, 137}

Program(exit, oom) ==
    [wall |-> TimeLimit, stop |-> "none", oom |-> oom, exit |-> exit,
     exceeded |-> FALSE, output |-> "right"]
MCPrograms ==
    {Program(0, FALSE), Program(137, TRUE),
     [Program(0, FALSE) EXCEPT !.output = "wrong"],
     [Program(0, FALSE) EXCEPT !.wall = TimeLimit + 1]}
=============================================================================

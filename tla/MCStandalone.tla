---------------------------- MODULE MCStandalone ----------------------------
(***************************************************************************)
(* Standalone for TLC: three submissions and two workers, so that the      *)
(* process can stop with both workers busy and a job left in the channel;  *)
(* a channel of two places and a depth limit of one, so that the channel   *)
(* fills up behind the depth check.                                        *)
(***************************************************************************)
EXTENDS Standalone

CONSTANTS s1, s2, s3, w1, w2

MCSubmissions == {s1, s2, s3}
MCWorkers == {w1, w2}
=============================================================================

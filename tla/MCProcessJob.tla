---------------------------- MODULE MCProcessJob ----------------------------
(***************************************************************************)
(* ProcessJob for TLC: both backends, submissions of up to MaxTests tests  *)
(* and verdicts of the kinds the code treats differently: passing, two     *)
(* different failures so that "first" and "last" are told apart, one that  *)
(* raises a violation counter, and the one an Execute error is turned      *)
(* into.                                                                   *)
(***************************************************************************)
EXTENDS ProcessJob

MCBackends == {"memory", "redis"}
MCTestVerdicts == {"ACCEPTED", "MEMORY_LIMIT_EXCEEDED", "SYSTEM_ERROR"}
=============================================================================

-------------------------- MODULE MCRedisEventBus ---------------------------
(***************************************************************************)
(* RedisEventBus for TLC; the constants are small numbers, given in the    *)
(* configurations.                                                         *)
(***************************************************************************)
EXTENDS RedisEventBus
=============================================================================

---------------------------- MODULE MCLiveStream ----------------------------
(***************************************************************************)
(* LiveStream for TLC: two clients, and channels smaller than the number   *)
(* of events, so that a slow client overflows its channel.                 *)
(***************************************************************************)
EXTENDS LiveStream

CONSTANTS c1, c2

MCPublishers == {api, worker}
TwoClients == {c1, c2}
OneClient == {c1}
=============================================================================

---------------------------- MODULE MCWaitNotify ----------------------------
(* Model values for WaitNotify: two players, one state of each way to wait  *)
(* plus a second one-player state, so that an answer can meet another       *)
(* question of the same player.                                             *)
EXTENDS WaitNotify
=============================================================================

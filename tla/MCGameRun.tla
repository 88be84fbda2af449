----------------------------- MODULE MCGameRun -----------------------------
(* Model values for GameRun: four seats, as in the smallest real room.      *)
EXTENDS GameRun
=============================================================================

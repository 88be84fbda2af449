----------------------------- MODULE MCMsgQueue -----------------------------
(* Model values for MsgQueue: a ring small enough to fill, wrap around and  *)
(* spill over several times.                                                *)
EXTENDS MsgQueue
=============================================================================

------------------------------ MODULE RoomLife ------------------------------
(***************************************************************************)
(* What a room promises, whoever looks at it: the phases it goes through.  *)
(* A game that is being played may be paused, while players are missing;   *)
(* it goes on or it is called off, but it is never won while it is paused. *)
(***************************************************************************)
VARIABLE phase

Before(p) == CASE p = "lobby"   -> {}
               [] p = "seated"  -> {"lobby"}
               [] p = "playing" -> {"seated", "paused"}
               [] p = "paused"  -> {"playing"}
               [] p = "over"    -> {"playing"}
               [] p = "ended"   -> {"lobby", "seated", "playing", "paused", "over"}

Phases == {"lobby", "seated", "playing", "paused", "over", "ended"}

Init == phase = "lobby"

Advance(p) == phase \in Before(p) /\ phase' = p

Next == \E p \in Phases : Advance(p)

Spec == Init /\ [][Next]_phase
=============================================================================

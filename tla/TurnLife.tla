------------------------------ MODULE TurnLife ------------------------------
(* What a game promises its players: they have their turns one after the     *)
(* other, round the table.  A turn begins, the player acts or has to skip    *)
(* the action, may be given more actions after each one, and the turn ends.  *)
(* A role may take one more turn; the game can be over at any moment.        *)
EXTENDS Integers

CONSTANT NumPlayers

VARIABLES
  player,  \* whose turn it is
  phase    \* begin, act, acted, end or over

Init == player \in 0 .. NumPlayers - 1 /\ phase = "begin"

Moves(from, to) == phase = from /\ phase' = to /\ player' = player

MayAct     == Moves("begin", "act")
MustSkip   == Moves("begin", "end")
Acts       == Moves("act", "acted")
ActsAgain  == Moves("acted", "act")
GivesUp    == Moves("act", "end")
HasActed   == Moves("acted", "end")
TurnAgain  == Moves("end", "begin")
GameEnds   == phase # "over" /\ phase' = "over" /\ player' = player

NextPlayer == phase = "end" /\ phase' = "begin" /\ player' = (player + 1) % NumPlayers

Next ==
  \/ MayAct \/ MustSkip \/ Acts \/ ActsAgain \/ GivesUp \/ HasActed \/ TurnAgain
  \/ NextPlayer \/ GameEnds

Spec == Init /\ [][Next]_<<player, phase>>
=============================================================================

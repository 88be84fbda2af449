------------------------------- MODULE MCTurn -------------------------------
(* Model values for Turn: two against two, with the seats of a team next to  *)
(* each other or not, and games that have just begun or are about to end.    *)
EXTENDS Turn

MCTeams     == <<1, 1, 0, 0>>
MCTeamOf    == [p \in 0 .. 3 |-> MCTeams[p + 1]]
MCArea(g, k, u, m) == [gem |-> g, crystal |-> k, cup |-> u, morale |-> m]
MCInitAreas ==
  {[c \in {0, 1} |-> IF c = 1 THEN MCArea(3, 0, 4, 2) ELSE MCArea(0, 0, 0, 1)]}
MCInitCross == [p \in 0 .. 3 |-> IF p = 1 THEN 1 ELSE 0]
=============================================================================

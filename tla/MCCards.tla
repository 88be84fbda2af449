------------------------------ MODULE MCCards ------------------------------
\* Four cards, two Poisons and one Weaken; two players of two teams, who are dealt
\* all of them, so that every draw reshuffles; the limit may fall from two to one.
EXTENDS Cards, TLC

CONSTANTS c1, c2, c3, c4, p1, p2, red, blue

MCColor == p1 :> red @@ p2 :> blue
MCHandMaxes == {1, 2}
=============================================================================

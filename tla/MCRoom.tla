------------------------------- MODULE MCRoom -------------------------------
(* Model values for Room: two connections, of one user or of two, and rooms  *)
(* of two seats and of one to go to and fro between.                         *)
EXTENDS Room

CONSTANTS s1, s2, ann, bob

MCTwo        == {s1, s2}
MCTwoUsers   == {ann, bob}
MCTwoLogIns  == {[s \in MCTwo |-> ann], [s \in MCTwo |-> IF s = s1 THEN ann ELSE bob]}

MCSeats      == [r \in 0 .. MaxRoom - 1 |-> IF r = 0 THEN 2 ELSE 1]
=============================================================================
